---------------------- MODULE BookingSettlement_proofs ----------------------
(***************************************************************************)
(* Theorems about BookingSettlement, for any number of bookings and any    *)
(* amounts.  The types and the pending funds: any calls in flight, any     *)
(* faults.  The life of a rental: calls on one booking do not overlap.     *)
(* Refunded, not settled: moreover the calls are those of the screens and  *)
(* none ends halfway (OnScreens).  The ledger: moreover one call at a time *)
(* and a finite set of bookings (OneCall).                                 *)
(***************************************************************************)
EXTENDS BookingSettlement, Sums, TLAPS

\* What every step proof starts from.
LEMMA CallTyped ==
  ASSUME TypeOK, NEW r \in Request
  PROVE  /\ req[r] \in Call
         /\ req[r].b \in Booking
         /\ req[r].at \in Label
         /\ req[r].op \in Op
         /\ req[r].ent \in Row
         /\ req[r].buf \in Purse
BY DEF TypeOK, Call

LEMMA NoCallTyped == NoCall \in Call /\ NoCall.at = "idle" /\ NoCall.b \in Booking
<1>1. (CHOOSE b \in Booking : TRUE) \in Booking
  BY AmountAssumption
<1>2. QED
  BY <1>1 DEF NoCall, Call, Op, Label, Row, Status, NewRow, Purse, EmptyPurse

\* Every label a handler moves on to, or recovers at, is a label.
LEMMA FollowingTyped ==
  ASSUME NEW op \in Op, NEW l \in Label
  PROVE  Following(op, l) \in Label /\ Recovery(op, l) \in Label /\ First(op) \in Label
BY DEF Following, Recovery, First, Label, WalletRead, WalletSave, Op, SavesFirst

LEMMA AssignTyped ==
  ASSUME NEW op \in Op, NEW e \in Row
  PROVE  Assign(op, e) \in Row /\ Assigned(op, e) \in SUBSET Column
<1>1. Assign(op, e) \in Row
  BY DEF Assign, Accepted, Validated, Returned, PickedUp, Reported, Claimed,
         RefusedByOwner, Row, Status
<1>2. Assigned(op, e) \in SUBSET Column
  BY DEF Assigned, Differ, Column
<1>3. QED BY <1>1, <1>2

LEMMA MergeTyped ==
  ASSUME NEW e \in Row, NEW f \in Row, NEW S
  PROVE  Merge(e, f, S) \in Row
BY DEF Merge, Row

\* A wallet call computes a wallet.
LEMMA WalletCallTyped ==
  ASSUME NEW op, NEW p \in Purse, NEW added \in Int, NEW total \in Int
  PROVE  WalletCall(op, p, added, total) \in Purse
<1>1. AddPending(p, added) \in Purse /\ AddAvailable(p, added) \in Purse
  BY DEF AddPending, AddAvailable, Purse
<1>2. Transfer(p, total) \in Purse
  BY DEF Transfer, Purse
<1>3. Withdraw(p, total) \in Purse
  BY DEF Withdraw, Purse
<1>4. QED
  BY <1>1, <1>2, <1>3 DEF WalletCall

LEMMA AddedTyped ==
  ASSUME NEW op, NEW b \in Booking
  PROVE  /\ Added(op, b) \in Nat \ {0}
         /\ op # "credit" => Added(op, b) = Share[b]
         /\ op = "credit" => Added(op, b) = Price[b]
BY AmountAssumption DEF Added

\* Moving a call on keeps the calls typed.
LEMMA GotoTyped ==
  ASSUME TypeOK, NEW r \in Request, NEW l \in Label, Goto(r, l)
  PROVE  req' \in [Request -> Call]
<1>1. EmptyPurse \in Purse
  BY DEF EmptyPurse, Purse
<1>2. [req[r] EXCEPT !.at = l, !.buf = EmptyPurse] \in Call
  BY <1>1, CallTyped DEF Call
<1>3. QED
  BY <1>2, NoCallTyped DEF Goto, TypeOK

LEMMA ProceedTyped ==
  ASSUME TypeOK, NEW r \in Request, Proceed(r)
  PROVE  req' \in [Request -> Call]
BY CallTyped, FollowingTyped, GotoTyped DEF Proceed

LEMMA RecordRefundTyped ==
  ASSUME TypeOK, NEW r \in Request, NEW inserts, RecordRefund(r, inserts)
  PROVE  req' \in [Request -> Call]
<1>1. PICK pin \in BOOLEAN :
        req' = [req EXCEPT ![r] =
                 [@ EXCEPT !.at = Following(req[r].op, "refund"), !.pin = pin]]
  BY DEF RecordRefund
<1>2. "refund" \in Label
  BY DEF Label
<1>3. Following(req[r].op, "refund") \in Label
  BY <1>2, CallTyped, FollowingTyped
<1>4. [req[r] EXCEPT !.at = Following(req[r].op, "refund"), !.pin = pin] \in Call
  BY <1>3, CallTyped DEF Call
<1>5. QED
  BY <1>1, <1>4 DEF TypeOK

LEMMA SaveRowTyped ==
  ASSUME TypeOK, NEW r \in Request, SaveRow(r)
  PROVE  row' \in [Booking -> Row]
<1>1. PICK stale : row' = [row EXCEPT ![req[r].b] =
                             Merge(row[req[r].b], req[r].ent, req[r].cols \cup stale)]
  BY DEF SaveRow
<1>2. Merge(row[req[r].b], req[r].ent, req[r].cols \cup stale) \in Row
  BY CallTyped, MergeTyped DEF TypeOK
<1>3. QED
  BY <1>1, <1>2 DEF TypeOK
-----------------------------------------------------------------------------
(* Type correctness: whatever the interleaving, the tables and the calls   *)
(* keep their shape - a wallet column stays a number, a status one of the  *)
(* six, a lock is held by a call or by nobody.                             *)
LEMMA InitTyped == Init => TypeOK
<1> SUFFICES ASSUME Init PROVE TypeOK
  OBVIOUS
<1>1. row \in [Booking -> Row]
  BY DEF Init, NewRow, Row, Status
<1>2. money \in [Booking -> Money]
  BY BoundAssumption DEF Init, Money
<1>3. wallet \in [Party -> Purse]
  BY DEF Init, EmptyPurse, Purse
<1>4. req \in [Request -> Call]
  BY NoCallTyped DEF Init
<1>5. QED
  BY <1>1, <1>2, <1>3, <1>4 DEF Init, TypeOK

LEMMA AbortTyped ==
  ASSUME TypeOK, NEW r \in Request, Abort(r)
  PROVE  req' \in [Request -> Call] /\ lock' \in [Booking -> Request \cup {NoRequest}]
<1>1. "idle" \in Label
  BY DEF Label
<1>2. QED
  BY <1>1, GotoTyped DEF Abort, Unlock, TypeOK

LEMMA LoadTyped ==
  ASSUME TypeOK, NEW r \in Request, NEW op \in Op, NEW b \in Booking, Load(r, op, b)
  PROVE  TypeOK'
<1>1. PICK early \in BOOLEAN :
        req' = [req EXCEPT ![r] =
         [op |-> op, b |-> b, at |-> First(op), ent |-> Assign(op, row[b]),
          cols |-> Assigned(op, row[b]), buf |-> EmptyPurse,
          due |-> IF op = "renterCancel" /\ row[b].status = "ACCEPTED"
                    THEN early ELSE op \in Cancels,
          pin |-> FALSE]]
  BY DEF Load
<1>2. First(op) \in Label
  BY DEF First, Label, WalletRead
<1>3. Assign(op, row[b]) \in Row /\ Assigned(op, row[b]) \in SUBSET Column
  BY AssignTyped DEF TypeOK
<1>4. EmptyPurse \in Purse
  BY DEF EmptyPurse, Purse
<1>5. (IF op = "renterCancel" /\ row[b].status = "ACCEPTED"
         THEN early ELSE op \in Cancels) \in BOOLEAN
  <2>1. (op \in Cancels) \in BOOLEAN
    OBVIOUS
  <2>2. QED
    BY <2>1, Zenon
<1>6. req' \in [Request -> Call]
  BY <1>1, <1>2, <1>3, <1>4, <1>5 DEF TypeOK, Call
<1>7. QED
  BY <1>6 DEF Load, TypeOK

LEMMA WalletStepsTyped ==
  ASSUME TypeOK, NEW r \in Request, NEW w \in Party, ReadWallet(r, w) \/ SaveWallet(r, w)
  PROVE  TypeOK'
<1>1. CASE ReadWallet(r, w)
  <2> DEFINE new == WalletCall(req[r].op, wallet[w], Added(req[r].op, req[r].b),
                               income[req[r].b] * Share[req[r].b])
             save == IF w = "owner" THEN "ownerSave" ELSE "adminSave"
  <2>1. new \in Purse
    <3>1. wallet[w] \in Purse /\ Share[req[r].b] \in Int /\ income[req[r].b] \in Int
      BY CallTyped, AmountAssumption DEF TypeOK
    <3>2. income[req[r].b] * Share[req[r].b] \in Int
      BY <3>1
    <3>3. Added(req[r].op, req[r].b) \in Int
      BY CallTyped, AddedTyped
    <3>4. QED
      BY <3>1, <3>2, <3>3, WalletCallTyped
  <2>2. save \in Label
    BY DEF Label, WalletSave
  <2>3. req' \in [Request -> Call]
    <3>1. CASE new = wallet[w]
      BY <1>1, <3>1, ProceedTyped DEF ReadWallet
    <3>2. CASE new # wallet[w]
      <4>1. req' = [req EXCEPT ![r] = [@ EXCEPT !.at = save, !.buf = new]]
        BY <1>1, <3>2 DEF ReadWallet
      <4>2. [req[r] EXCEPT !.at = save, !.buf = new] \in Call
        BY <2>1, <2>2, CallTyped DEF Call
      <4>3. QED
        BY <4>1, <4>2 DEF TypeOK
    <3>3. QED
      BY <3>1, <3>2
  <2>4. QED
    BY <1>1, <2>3 DEF ReadWallet, TypeOK
<1>2. CASE SaveWallet(r, w)
  <2>1. req' \in [Request -> Call]
    BY <1>2, ProceedTyped DEF SaveWallet
  <2>2. PICK p \in {req[r].buf.pending, wallet[w].pending},
             a \in {req[r].buf.available, wallet[w].available} :
          wallet' = [wallet EXCEPT ![w] = [pending |-> p, available |-> a]]
    BY <1>2 DEF SaveWallet
  <2>3. a \in Int /\ p \in Int
    BY CallTyped DEF TypeOK, Purse
  <2>4. wallet' \in [Party -> Purse]
    BY <2>2, <2>3 DEF TypeOK, Purse
  <2>5. settled' \in [Booking -> SUBSET Party]
    BY <1>2, CallTyped DEF SaveWallet, TypeOK
  <2>6. credited' \in [Booking -> Nat]
    BY <1>2, CallTyped, AmountAssumption DEF SaveWallet, TypeOK
  <2>7. QED
    BY <1>2, <2>1, <2>4, <2>5, <2>6 DEF SaveWallet, TypeOK
<1>3. QED
  BY <1>1, <1>2

LEMMA CancelStepsTyped ==
  ASSUME TypeOK, NEW r \in Request,
         \/ LockRow(r) \/ ReleaseHold(r) \/ RefundCaptured(r)
         \/ NothingToRefund(r) \/ RefundRefused(r) \/ Cleanup(r) \/ WalletTimeout(r)
         \/ EnumRefused(r)
  PROVE  TypeOK'
<1>1. CASE LockRow(r)
  BY <1>1, ProceedTyped, CallTyped DEF LockRow, TypeOK
<1>2. CASE ReleaseHold(r) \/ RefundCaptured(r)
  BY <1>2, ProceedTyped, RecordRefundTyped, CallTyped
     DEF ReleaseHold, RefundCaptured, TypeOK, Money
<1>3. CASE NothingToRefund(r)
  BY <1>3, RecordRefundTyped DEF NothingToRefund, TypeOK
<1>4. CASE RefundRefused(r) \/ EnumRefused(r)
  BY <1>4, AbortTyped DEF RefundRefused, EnumRefused, TypeOK
<1>5. CASE Cleanup(r)
  BY <1>5, ProceedTyped, CallTyped DEF Cleanup, TypeOK
<1>6. CASE WalletTimeout(r)
  <2>1. Recovery(req[r].op, "ownerSave") \in Label
    BY CallTyped, FollowingTyped DEF Label, WalletSave
  <2>2. QED
    BY <1>6, <2>1, GotoTyped DEF WalletTimeout, TypeOK
<1>7. QED
  BY <1>1, <1>2, <1>3, <1>4, <1>5, <1>6

LEMMA CommitsTyped ==
  ASSUME TypeOK, NEW r \in Request,
         CommitAccept(r) \/ CommitAdminCancel(r) \/ Commit(r)
  PROVE  TypeOK'
<1>1. row' \in [Booking -> Row]
  BY SaveRowTyped DEF CommitAccept, CommitAdminCancel, Commit
<1>2. CASE CommitAccept(r)
  BY <1>1, <1>2, ProceedTyped, CallTyped DEF CommitAccept, TypeOK
<1>3. CASE CommitAdminCancel(r)
  <2>1. PICK debited \in {Party, {"owner"}, {}} :
          /\ faults' = IF debited = Party THEN faults ELSE faults + 1
          /\ wallet' = [w \in Party |-> IF w \in debited
               THEN [wallet[w] EXCEPT !.pending = @ - Gross[req[r].b]] ELSE wallet[w]]
    BY <1>3 DEF CommitAdminCancel
  <2>2. faults' \in Nat
    BY <2>1 DEF TypeOK
  <2>3. ASSUME NEW w \in Party
        PROVE  [wallet[w] EXCEPT !.pending = @ - Gross[req[r].b]] \in Purse
    BY CallTyped, AmountAssumption DEF TypeOK, Purse
  <2>4. wallet' \in [Party -> Purse]
    BY <2>1, <2>3 DEF TypeOK
  <2>5. QED
    BY <1>1, <1>3, <2>2, <2>4, AbortTyped DEF CommitAdminCancel, TypeOK
<1>4. CASE Commit(r)
  BY <1>1, <1>4, ProceedTyped DEF Commit, Unlock, TypeOK
<1>5. QED
  BY <1>2, <1>3, <1>4

LEMMA FailTyped ==
  ASSUME TypeOK, NEW r \in Request, Fail(r)
  PROVE  TypeOK'
<1>1. Recovery(req[r].op, req[r].at) \in Label
  BY CallTyped, FollowingTyped
<1>2. req' \in [Request -> Call] /\ lock' \in [Booking -> Request \cup {NoRequest}]
  BY <1>1, AbortTyped, GotoTyped DEF Fail, TypeOK
<1>3. QED
  BY <1>2 DEF Fail, TypeOK

LEMMA StepTyped == TypeOK /\ [Next]_vars => TypeOK'
<1> SUFFICES ASSUME TypeOK, [Next]_vars PROVE TypeOK'
  OBVIOUS
<1>1. ASSUME NEW r \in Request, NEW op \in Op, NEW b \in Booking, Load(r, op, b)
      PROVE  TypeOK'
  BY <1>1, LoadTyped
<1>2. ASSUME NEW r \in Request, Progress(r)
      PROVE  TypeOK'
  BY <1>2, WalletStepsTyped, CancelStepsTyped, CommitsTyped DEF Progress
<1>3. ASSUME NEW r \in Request, Fail(r)
      PROVE  TypeOK'
  BY <1>3, FailTyped
<1>4. CASE Crash
  BY <1>4, NoCallTyped DEF Crash, TypeOK
<1>5. ASSUME NEW b \in Booking, Capture(b)
      PROVE  TypeOK'
  BY <1>5 DEF Capture, TypeOK, Money
<1>6. CASE UNCHANGED vars
  BY <1>6 DEF vars, TypeOK
<1>7. QED
  BY <1>1, <1>2, <1>3, <1>4, <1>5, <1>6 DEF Next

THEOREM TypeCorrect == Spec => []TypeOK
BY InitTyped, StepTyped, PTL DEF Spec
-----------------------------------------------------------------------------
(* Pending funds never go negative, as long as no forced cancellation is   *)
(* asked for.  PendingNeverNegative is not inductive: a save writes what   *)
(* its call computed earlier, so the computed wallets must be right too.   *)
NoForcedCancel == \A s \in Status : <<"adminCancel", s>> \notin Offered

PendingInv ==
  /\ TypeOK
  /\ PendingNeverNegative
  /\ \A r \in Request :
       /\ req[r].at \in WalletSave => req[r].buf.pending >= 0
       /\ req[r].op # "adminCancel"

LEMMA ProductNat ==
  ASSUME NEW i \in Nat, NEW j \in Nat
  PROVE  i * j \in Nat
OBVIOUS

\* No wallet call computes a negative pending balance from one that is not.
LEMMA WalletCallPending ==
  ASSUME NEW op, NEW p \in Purse, p.pending >= 0, NEW added \in Nat, NEW total \in Nat
  PROVE  WalletCall(op, p, added, total).pending >= 0
<1>1. AddPending(p, added).pending >= 0 /\ AddAvailable(p, added).pending >= 0
  BY DEF AddPending, AddAvailable, Purse
<1>2. Transfer(p, total).pending >= 0
  BY DEF Transfer, Purse
<1>3. Withdraw(p, total).pending >= 0
  BY DEF Withdraw, Purse
<1>4. QED
  BY <1>1, <1>2, <1>3 DEF WalletCall

LEMMA InitPending == Init => PendingInv
<1> SUFFICES ASSUME Init PROVE PendingInv
  OBVIOUS
<1>1. PendingNeverNegative
  BY DEF Init, PendingNeverNegative, EmptyPurse
<1>2. \A r \in Request : req[r].at = "idle" /\ req[r].op = "accept"
  BY DEF Init, NoCall
<1>3. QED
  BY <1>1, <1>2, InitTyped DEF PendingInv, WalletSave

\* A step that leaves the wallets alone and prepares no save.
LEMMA PendingKept ==
  ASSUME PendingInv, TypeOK', UNCHANGED wallet, NEW r \in Request,
         \A q \in Request : q # r => req'[q] = req[q],
         req'[r].at \notin WalletSave, req'[r].op # "adminCancel"
  PROVE  PendingInv'
BY DEF PendingInv, PendingNeverNegative

\* Where a call that is moved on finds itself.
LEMMA Moved ==
  ASSUME TypeOK, NEW r \in Request, NEW l, Goto(r, l), l \notin WalletSave
  PROVE  /\ \A q \in Request : q # r => req'[q] = req[q]
         /\ req'[r].at = l
         /\ req'[r].op \in {req[r].op, "accept"}
BY DEF Goto, TypeOK, NoCall, Call

LEMMA FollowingNoSave ==
  ASSUME NEW op, NEW l \in Label
  PROVE  /\ Following(op, l) \notin WalletSave
         /\ Recovery(op, l) \notin WalletSave
         /\ First(op) \notin WalletSave
         /\ "idle" \notin WalletSave
BY DEF Following, Recovery, First, WalletSave

LEMMA StepPending ==
  ASSUME NoForcedCancel
  PROVE  PendingInv /\ [Next]_vars => PendingInv'
<1> SUFFICES ASSUME PendingInv, [Next]_vars PROVE PendingInv'
  OBVIOUS
<1>0. TypeOK /\ TypeOK'
  BY StepTyped DEF PendingInv
<1>1. ASSUME NEW r \in Request, NEW op \in Op, NEW b \in Booking, Load(r, op, b)
      PROVE  PendingInv'
  <2>1. op # "adminCancel"
    BY <1>0, <1>1 DEF Load, NoForcedCancel, TypeOK, Row
  <2>2. req'[r].at = First(op) /\ req'[r].op = op
    BY <1>0, <1>1 DEF Load, TypeOK
  <2>3. First(op) \notin WalletSave
    BY DEF First, WalletSave
  <2>4. UNCHANGED wallet /\ \A q \in Request : q # r => req'[q] = req[q]
    BY <1>0, <1>1 DEF Load, TypeOK
  <2>5. QED
    BY <1>0, <2>1, <2>2, <2>3, <2>4, PendingKept
<1>2. ASSUME NEW r \in Request, Proceed(r), UNCHANGED wallet
      PROVE  PendingInv'
  <2>1. Following(req[r].op, req[r].at) \notin WalletSave
    BY <1>0, CallTyped, FollowingNoSave
  <2>2. QED
    BY <1>0, <1>2, <2>1, Moved, PendingKept DEF Proceed, PendingInv
<1>3. ASSUME NEW r \in Request, Abort(r), UNCHANGED wallet
      PROVE  PendingInv'
  <2>1. "idle" \notin WalletSave
    BY DEF WalletSave
  <2>2. QED
    BY <1>0, <1>3, <2>1, Moved, PendingKept DEF Abort, PendingInv
<1>4. ASSUME NEW r \in Request, NEW w \in Party, ReadWallet(r, w)
      PROVE  PendingInv'
  <2> DEFINE new == WalletCall(req[r].op, wallet[w], Added(req[r].op, req[r].b),
                               income[req[r].b] * Share[req[r].b])
             save == IF w = "owner" THEN "ownerSave" ELSE "adminSave"
  <2>1. CASE new = wallet[w]
    BY <1>2, <1>4, <2>1 DEF ReadWallet
  <2>2. CASE new # wallet[w]
    <3>1. req' = [req EXCEPT ![r] = [@ EXCEPT !.at = save, !.buf = new]]
      BY <1>4, <2>2 DEF ReadWallet
    <3>2. req'[r].buf = new /\ req'[r].op = req[r].op
      BY <1>0, <3>1 DEF TypeOK, Call
    <3>3. new.pending >= 0
      <4>1. wallet[w] \in Purse /\ wallet[w].pending >= 0
        BY <1>0 DEF PendingInv, PendingNeverNegative, TypeOK
      <4>2. /\ Share[req[r].b] \in Nat /\ income[req[r].b] \in Nat
            /\ Added(req[r].op, req[r].b) \in Nat
        BY <1>0, CallTyped, AddedTyped, AmountAssumption DEF TypeOK
      <4>3. income[req[r].b] * Share[req[r].b] \in Nat
        BY <4>2, ProductNat
      <4>4. QED
        BY <4>1, <4>2, <4>3, WalletCallPending
    <3>4. \A q \in Request : q # r => req'[q] = req[q]
      BY <1>0, <3>1 DEF TypeOK
    <3>5. UNCHANGED wallet
      BY <1>4 DEF ReadWallet
    <3>6. QED
      BY <1>0, <3>2, <3>3, <3>4, <3>5 DEF PendingInv, PendingNeverNegative
  <2>3. QED
    BY <2>1, <2>2
<1>5. ASSUME NEW r \in Request, NEW w \in Party, SaveWallet(r, w)
      PROVE  PendingInv'
  <2>1. PICK p \in {req[r].buf.pending, wallet[w].pending},
             a \in {req[r].buf.available, wallet[w].available} :
          wallet' = [wallet EXCEPT ![w] = [pending |-> p, available |-> a]]
    BY <1>5 DEF SaveWallet
  <2>2. req[r].buf.pending >= 0
    BY <1>5 DEF SaveWallet, PendingInv, WalletSave
  <2>3. PendingNeverNegative'
    BY <1>0, <2>1, <2>2 DEF PendingInv, PendingNeverNegative, TypeOK
  <2>4. Following(req[r].op, req[r].at) \notin WalletSave
    BY <1>0, CallTyped, FollowingNoSave
  <2>5. /\ \A q \in Request : q # r => req'[q] = req[q]
        /\ req'[r].at \notin WalletSave
        /\ req'[r].op \in {req[r].op, "accept"}
    BY <1>0, <1>5, <2>4, Moved DEF SaveWallet, Proceed
  <2>6. QED
    BY <1>0, <2>3, <2>5 DEF PendingInv
<1>6. ASSUME NEW r \in Request, Fail(r)
      PROVE  PendingInv'
  <2>1. Recovery(req[r].op, req[r].at) \notin WalletSave
    BY <1>0, CallTyped, FollowingNoSave
  <2>2. UNCHANGED wallet
    BY <1>6 DEF Fail
  <2>3. CASE Recovery(req[r].op, req[r].at) = "idle"
    BY <1>3, <1>6, <2>2, <2>3 DEF Fail
  <2>4. CASE Recovery(req[r].op, req[r].at) # "idle"
    <3>1. Goto(r, Recovery(req[r].op, req[r].at))
      BY <1>6, <2>4 DEF Fail
    <3>2. QED
      BY <1>0, <2>1, <2>2, <3>1, Moved, PendingKept DEF PendingInv
  <2>5. QED
    BY <2>3, <2>4
<1>7. CASE Crash
  <2>1. UNCHANGED wallet /\ \A r \in Request : req'[r].at = "idle" /\ req'[r].op = "accept"
    BY <1>7 DEF Crash, NoCall
  <2>2. QED
    BY <1>0, <2>1 DEF PendingInv, PendingNeverNegative, WalletSave
<1>8. ASSUME NEW r \in Request, CommitAdminCancel(r)
      PROVE  PendingInv'
  BY <1>8 DEF CommitAdminCancel, PendingInv
<1>9. ASSUME NEW r \in Request, NEW inserts, RecordRefund(r, inserts), UNCHANGED wallet
      PROVE  PendingInv'
  <2>1. /\ req'[r].at = Following(req[r].op, "refund")
        /\ req'[r].op = req[r].op
        /\ \A q \in Request : q # r => req'[q] = req[q]
    BY <1>0, <1>9 DEF RecordRefund, TypeOK, Call
  <2>2. Following(req[r].op, "refund") \notin WalletSave
    BY FollowingNoSave DEF Label
  <2>3. QED
    BY <1>0, <1>9, <2>1, <2>2, PendingKept DEF PendingInv
<1>10. ASSUME NEW r \in Request, WalletTimeout(r)
      PROVE  PendingInv'
  <2>1. Recovery(req[r].op, "ownerSave") \notin WalletSave
    BY FollowingNoSave DEF Label, WalletSave
  <2>2. QED
    BY <1>0, <1>10, <2>1, Moved, PendingKept DEF WalletTimeout, PendingInv
<1>11. ASSUME NEW r \in Request, Progress(r)
      PROVE  PendingInv'
  BY <1>2, <1>3, <1>4, <1>5, <1>8, <1>9, <1>10, <1>11
     DEF Progress, LockRow, ReleaseHold, RefundCaptured, NothingToRefund,
         RefundRefused, CommitAccept, Commit, EnumRefused, Cleanup
<1>12. CASE UNCHANGED wallet /\ UNCHANGED req
  BY <1>0, <1>12 DEF PendingInv, PendingNeverNegative
<1>13. QED
  BY <1>1, <1>6, <1>7, <1>11, <1>12 DEF Next, Capture, vars

THEOREM PendingSafe == NoForcedCancel => (Spec => []PendingNeverNegative)
<1> SUFFICES ASSUME NoForcedCancel PROVE Spec => []PendingNeverNegative
  OBVIOUS
<1>1. PendingInv /\ [Next]_vars => PendingInv'
  BY StepPending
<1>2. PendingInv => PendingNeverNegative
  BY DEF PendingInv
<1>3. QED
  BY InitPending, <1>1, <1>2, PTL DEF Spec
-----------------------------------------------------------------------------
(***************************************************************************)
(* One call at a time on a booking (~Overlap), any number of bookings, of  *)
(* calls and of faults.  OngoingEarned and HandoverOrder are not           *)
(* inductive: a call saves what it made of a row it read earlier, so what  *)
(* it holds has to be what it would make of the row as it is.              *)
(***************************************************************************)
\* The call is over, or has saved its row.
Saved(c) == c.at \in {"idle", "cleanup"} \/ (c.op \in SavesFirst /\ c.at # "commit")

Faithful(c) ==
  /\ ~Saved(c) => /\ Guard(c.op, row[c.b])
                  /\ c.ent = Assign(c.op, row[c.b])
                  /\ Differ(row[c.b], c.ent) \subseteq c.cols
  /\ c.at = "cleanup" => row[c.b].status \in {"CANCELLED", "REJECTED"}

\* No two calls on one booking.
Alone ==
  \A q, r \in Request : InFlight(q) /\ InFlight(r) /\ req[q].b = req[r].b => q = r

\* A booking e whose revenue was recorded i times.
Sound(e, i) ==
  /\ e.status = "PENDING" => ~e.code
  /\ e.status = "ACCEPTED" /\ e.code => i > 0
  /\ e.status = "ONGOING" => e.code /\ i > 0
  /\ e.pickup => e.returned /\ e.code

SerialInv ==
  /\ Alone
  /\ \A r \in Request : Faithful(req[r])
  /\ \A b \in Booking : Sound(row[b], income[b])

LEMMA AssignSound ==
  ASSUME NEW op \in Op, NEW e \in Row, NEW i \in Nat, Guard(op, e), Sound(e, i)
  PROVE  Sound(Assign(op, e), IF op = "accept" THEN i + 1 ELSE i)
<1>1. /\ e.status \in Status /\ e.code \in BOOLEAN /\ e.returned \in BOOLEAN
      /\ e.pickup \in BOOLEAN /\ e.claim \in BOOLEAN
  BY DEF Row
<1>2. CASE op = "accept"
  <2>1. Assign(op, e) = [e EXCEPT !.status = "ACCEPTED", !.code = TRUE]
    BY <1>2 DEF Assign, Accepted
  <2>2. PICK f : f = Assign(op, e)
    OBVIOUS
  <2>3. f.status = "ACCEPTED" /\ f.code = TRUE /\ f.pickup = e.pickup /\ f.returned = e.returned
    BY <2>1, <2>2 DEF Row
  <2>4. e.status = "PENDING"
    BY <1>2 DEF Guard, MayAccept
  <2>5. ~e.pickup /\ ~f.pickup
    BY <1>1, <2>3, <2>4 DEF Sound
  <2>6. i + 1 > 0
    OBVIOUS
  <2> QED BY <1>2, <2>2, <2>3, <2>5, <2>6 DEF Sound
<1>3. CASE op = "confirm"
  BY <1>3, <1>1 DEF Guard, MayConfirm, Assign, Sound, Row
<1>4. CASE op = "validate"
  BY <1>4, <1>1 DEF Guard, MayValidate, Assign, Validated, Sound, Row
<1>5. CASE op \in {"complete", "autoComplete", "payout"}
  BY <1>5, <1>1 DEF Guard, Assign, Sound, Row
<1>6. CASE op = "return"
  BY <1>6, <1>1 DEF Guard, MayReturn, Assign, Returned, Sound, Row
<1>7. CASE op = "pickup"
  BY <1>7, <1>1 DEF Guard, MayPickUp, Assign, PickedUp, Sound, Row
<1>8. CASE op = "report"
  BY <1>8, <1>1 DEF Guard, MayReport, Assign, Reported, Sound, Row
<1>9. CASE op = "claim"
  BY <1>9, <1>1 DEF Assign, Claimed, Sound, Row
<1>10. CASE op = "ownerCancel"
  BY <1>10, <1>1 DEF Assign, RefusedByOwner, Sound, Row
<1>11. CASE op \in {"depositCancel", "renterCancel", "adminCancel"}
  BY <1>11, <1>1 DEF Assign, Sound, Row
<1>12. CASE op \in Notices
  BY <1>12 DEF Assign, Notices
<1> QED BY <1>2, <1>3, <1>4, <1>5, <1>6, <1>7, <1>8, <1>9, <1>10, <1>11, <1>12 DEF Op, Notices

\* A save that writes all that differs saves the entity.
LEMMA MergeIs ==
  ASSUME NEW e \in Row, NEW f \in Row, NEW S, Differ(e, f) \subseteq S
  PROVE  Merge(e, f, S) = f
<1>1. \A c \in Column : e[c] # f[c] => c \in S
  BY DEF Differ
<1>2. /\ "status" \in S \/ e.status = f.status
      /\ "code" \in S \/ e.code = f.code
      /\ "returned" \in S \/ e.returned = f.returned
      /\ "pickup" \in S \/ e.pickup = f.pickup
      /\ "claim" \in S \/ e.claim = f.claim
  BY <1>1 DEF Column, Row
<1> QED BY <1>2 DEF Merge, Row

LEMMA SavesRow ==
  ASSUME TypeOK, NEW r \in Request, Faithful(req[r]), ~Saved(req[r]), SaveRow(r)
  PROVE  /\ row'[req[r].b] = Assign(req[r].op, row[req[r].b])
         /\ \A v \in Booking : v # req[r].b => row'[v] = row[v]
<1>1. PICK c \in Call : c = req[r]
  BY CallTyped
<1>2. PICK b \in Booking : b = c.b
  BY <1>1, CallTyped
<1>3. PICK stale : row' = [row EXCEPT ![b] = Merge(row[b], c.ent, c.cols \cup stale)]
  BY <1>1, <1>2 DEF SaveRow
<1>4. c.ent = Assign(c.op, row[b]) /\ Differ(row[b], c.ent) \subseteq c.cols \cup stale
  BY <1>1, <1>2 DEF Faithful
<1>5. row[b] \in Row /\ c.ent \in Row
  BY <1>1, CallTyped DEF TypeOK
<1>6. Merge(row[b], c.ent, c.cols \cup stale) = c.ent
  BY <1>4, <1>5, MergeIs
<1> QED BY <1>1, <1>2, <1>3, <1>4, <1>6 DEF TypeOK

\* How a call goes on.
SameCall(new, c) ==
  /\ new.op = c.op /\ new.b = c.b /\ new.ent = c.ent /\ new.cols = c.cols
  /\ new.due = c.due

LEMMA GotoIs ==
  ASSUME TypeOK, NEW r \in Request, NEW l, Goto(r, l)
  PROVE  \E new : /\ req' = [req EXCEPT ![r] = new] /\ new.at = l
                  /\ l = "idle" \/ (SameCall(new, req[r]) /\ new.pin = req[r].pin)
<1>1. PICK c \in Call : c = req[r]
  BY CallTyped
<1>2. CASE l = "idle"
  <2>1. req' = [req EXCEPT ![r] = NoCall] /\ NoCall.at = l
    BY <1>2, NoCallTyped DEF Goto
  <2> QED BY <1>2, <2>1
<1>3. CASE l # "idle"
  <2>1. PICK new : new = [c EXCEPT !.at = l, !.buf = EmptyPurse]
    OBVIOUS
  <2>2. req' = [req EXCEPT ![r] = new]
    BY <1>1, <1>3, <2>1 DEF Goto
  <2>3. SameCall(new, c) /\ new.pin = c.pin /\ new.at = l
    BY <2>1 DEF Call, SameCall
  <2> QED BY <1>1, <2>2, <2>3
<1> QED BY <1>2, <1>3

LEMMA FollowingOrder ==
  ASSUME NEW op \in Op, NEW l \in Label
  PROVE  /\ op \in SavesFirst /\ l # "commit" => Following(op, l) # "commit"
         /\ Following(op, l) = "cleanup" => l = "commit" /\ op \in {"renterCancel", "ownerCancel"}
         /\ l \in {"idle", "cleanup"} => Following(op, l) = "idle"
         /\ l = "commit" /\ op \notin SavesFirst => Following(op, l) \in {"cleanup", "idle"}
         /\ Recovery(op, l) = "idle"
              \/ (Recovery(op, l) = "commit" /\ op \in {"renterCancel", "ownerCancel"}
                    /\ l \in WalletRead \cup WalletSave)
BY DEF Following, Recovery, Label, WalletRead, WalletSave, Op, SavesFirst

\* A call goes on, and writes to no other booking than its own.
LEMMA SerialStep ==
  ASSUME TypeOK, SerialInv, NEW r \in Request, NEW new, req' = [req EXCEPT ![r] = new],
         InFlight(r), new.at = "idle" \/ new.b = req[r].b, Faithful(new)',
         \A v \in Booking : v # req[r].b => row'[v] = row[v] /\ income'[v] = income[v],
         Sound(row'[req[r].b], income'[req[r].b])
  PROVE  SerialInv'
<1>1. req'[r] = new /\ \A q \in Request : q # r => req'[q] = req[q]
  BY DEF TypeOK
<1>2. \A q \in Request : req[q].b \in Booking
  BY CallTyped
<1>3. Alone'
  BY <1>1 DEF SerialInv, Alone, InFlight
<1>4. ASSUME NEW q \in Request, q # r PROVE Faithful(req[q])'
  <2>1. PICK c : c = req[q]
    OBVIOUS
  <2>2. c.at = "idle" \/ row'[c.b] = row[c.b]
    BY <1>2, <1>4, <2>1 DEF SerialInv, Alone, InFlight
  <2>3. Faithful(c)
    BY <2>1 DEF SerialInv
  <2>4. Faithful(c)'
    BY <2>2, <2>3 DEF Faithful, Saved
  <2> QED BY <1>1, <1>4, <2>1, <2>4
<1>5. \A b \in Booking : Sound(row'[b], income'[b])
  BY DEF SerialInv
<1> QED BY <1>1, <1>3, <1>4, <1>5 DEF SerialInv

\* A call goes on without having saved, or is over.
LEMMA SerialOnward ==
  ASSUME TypeOK, SerialInv, NEW r \in Request, NEW new, req' = [req EXCEPT ![r] = new],
         InFlight(r), new.at = "idle" \/ SameCall(new, req[r]),
         ~Saved(req[r]) \/ Saved(new), new.at # "cleanup", UNCHANGED <<row, income>>
  PROVE  SerialInv'
<1>1. PICK c : c = req[r]
  OBVIOUS
<1>2. Faithful(c)
  BY <1>1 DEF SerialInv
<1>3. row' = row /\ income' = income
  OBVIOUS
<1>4. Faithful(new)'
  <2>1. CASE new.at = "idle"
    BY <2>1 DEF Faithful, Saved
  <2>2. CASE new.at # "idle"
    BY <1>1, <1>2, <1>3, <2>2 DEF Faithful, Saved, SameCall
  <2> QED BY <2>1, <2>2
<1>5. new.at = "idle" \/ new.b = req[r].b
  BY DEF SameCall
<1>6. Sound(row'[req[r].b], income'[req[r].b])
  BY <1>3, CallTyped DEF SerialInv
<1> QED BY <1>3, <1>4, <1>5, <1>6, SerialStep

LEMMA SerialProceeds ==
  ASSUME TypeOK, SerialInv, NEW r \in Request, Proceed(r), InFlight(r), req[r].at # "commit",
         UNCHANGED <<row, income>>
  PROVE  SerialInv'
<1>1. PICK l \in Label : l = Following(req[r].op, req[r].at)
  BY CallTyped, FollowingTyped
<1>2. PICK new : /\ req' = [req EXCEPT ![r] = new] /\ new.at = l
                 /\ l = "idle" \/ SameCall(new, req[r])
  BY <1>1, GotoIs DEF Proceed
<1>3. /\ req[r].op \in SavesFirst => l # "commit"
      /\ l # "cleanup"
      /\ req[r].at = "cleanup" => l = "idle"
  BY <1>1, CallTyped, FollowingOrder
<1>4. ~Saved(req[r]) \/ Saved(new)
  BY <1>2, <1>3 DEF Saved, SameCall, InFlight
<1> QED BY <1>2, <1>3, <1>4, SerialOnward

LEMMA SerialEnds ==
  ASSUME TypeOK, SerialInv, NEW r \in Request, Abort(r), InFlight(r), UNCHANGED <<row, income>>
  PROVE  SerialInv'
<1>1. PICK new : req' = [req EXCEPT ![r] = new] /\ new.at = "idle"
  BY GotoIs DEF Abort
<1> QED BY <1>1, SerialOnward DEF Saved

LEMMA SerialRecords ==
  ASSUME TypeOK, SerialInv, NEW r \in Request, NEW inserts, RecordRefund(r, inserts),
         req[r].at = "refund", UNCHANGED <<row, income>>
  PROVE  SerialInv'
<1>1. PICK pin \in BOOLEAN : req' = [req EXCEPT ![r] =
        [@ EXCEPT !.at = Following(req[r].op, "refund"), !.pin = pin]]
  BY DEF RecordRefund
<1>2. PICK l \in Label : l = Following(req[r].op, "refund")
  BY CallTyped, FollowingTyped DEF Label
<1>3. PICK c \in Call : c = req[r]
  BY CallTyped
<1>4. PICK new : new = [c EXCEPT !.at = l, !.pin = pin]
  OBVIOUS
<1>5. req' = [req EXCEPT ![r] = new] /\ new.at = l /\ SameCall(new, req[r])
  BY <1>1, <1>2, <1>3, <1>4 DEF Call, SameCall
<1>6. "refund" \in Label
  BY DEF Label
<1>7. (req[r].op \in SavesFirst => l # "commit") /\ l # "cleanup"
  BY <1>2, <1>6, CallTyped, FollowingOrder
<1>8. ~Saved(req[r]) \/ Saved(new)
  BY <1>5, <1>7 DEF Saved, SameCall
<1>9. InFlight(r)
  BY DEF InFlight
<1> QED BY <1>5, <1>7, <1>8, <1>9, SerialOnward
LEMMA SerialWallets ==
  ASSUME TypeOK, SerialInv, NEW r \in Request, NEW w \in Party,
         ReadWallet(r, w) \/ SaveWallet(r, w)
  PROVE  SerialInv'
<1>1. UNCHANGED <<row, income>>
  BY DEF ReadWallet, SaveWallet
<1>2. InFlight(r) /\ req[r].at # "commit"
  BY DEF ReadWallet, SaveWallet, InFlight, Party
<1>3. CASE Proceed(r)
  BY <1>1, <1>2, <1>3, SerialProceeds
<1>4. CASE ~Proceed(r)
  <2>1. PICK buf : req' = [req EXCEPT ![r] =
          [@ EXCEPT !.at = IF w = "owner" THEN "ownerSave" ELSE "adminSave", !.buf = buf]]
    BY <1>4 DEF ReadWallet, SaveWallet
  <2>2. PICK l : l = IF w = "owner" THEN "ownerSave" ELSE "adminSave"
    OBVIOUS
  <2>3. PICK c \in Call : c = req[r]
    BY CallTyped
  <2>4. PICK new : new = [c EXCEPT !.at = l, !.buf = buf]
    OBVIOUS
  <2>5. req' = [req EXCEPT ![r] = new] /\ new.at = l /\ SameCall(new, req[r])
    BY <2>1, <2>2, <2>3, <2>4 DEF Call, SameCall
  <2>6. ~Saved(req[r]) \/ Saved(new)
    BY <1>2, <2>2, <2>5 DEF ReadWallet, SaveWallet, Saved, SameCall, InFlight, Party
  <2>7. new.at # "cleanup"
    BY <2>2, <2>5
  <2> QED BY <1>1, <1>2, <2>5, <2>6, <2>7, SerialOnward
<1> QED BY <1>3, <1>4

\* The commits: the row becomes what the call made of it.
LEMMA SerialCommits ==
  ASSUME TypeOK, TypeOK', SerialInv, NEW r \in Request,
         CommitAccept(r) \/ CommitAdminCancel(r) \/ Commit(r)
  PROVE  SerialInv'
<1>1. PICK c \in Call : c = req[r]
  BY CallTyped
<1>2. PICK b \in Booking : b = c.b
  BY <1>1, CallTyped
<1>3. SaveRow(r) /\ c.at = "commit"
  BY <1>1 DEF CommitAccept, CommitAdminCancel, Commit
<1>4. Faithful(c) /\ ~Saved(c) /\ InFlight(r)
  BY <1>1, <1>3 DEF SerialInv, Saved, InFlight
<1>5. row'[b] = Assign(c.op, row[b]) /\ \A v \in Booking : v # b => row'[v] = row[v]
  BY <1>1, <1>2, <1>3, <1>4, SavesRow
<1>6. income'[b] = (IF c.op = "accept" THEN income[b] + 1 ELSE income[b])
      /\ \A v \in Booking : v # b => income'[v] = income[v]
  BY <1>1, <1>2 DEF CommitAccept, CommitAdminCancel, Commit, TypeOK
<1>7. Guard(c.op, row[b]) /\ Sound(row[b], income[b])
  BY <1>2, <1>4 DEF Faithful, SerialInv
<1>8. Sound(row'[b], income'[b])
  <2>1. c.op \in Op /\ row[b] \in Row /\ income[b] \in Nat
    BY <1>1, CallTyped DEF TypeOK
  <2> QED BY <1>5, <1>6, <1>7, <2>1, AssignSound
<1>9. Proceed(r) \/ (Abort(r) /\ c.op = "adminCancel")
  BY <1>1 DEF CommitAccept, CommitAdminCancel, Commit
<1>10. PICK l \in Label : Goto(r, l) /\ (l = "idle" \/ l = Following(c.op, "commit"))
  <2>1. "idle" \in Label /\ "commit" \in Label
    BY DEF Label
  <2>2. Following(c.op, "commit") \in Label
    BY <1>1, <2>1, CallTyped, FollowingTyped
  <2> QED BY <1>1, <1>3, <1>9, <2>1, <2>2 DEF Proceed, Abort
<1>11. PICK new : /\ req' = [req EXCEPT ![r] = new] /\ new.at = l
                  /\ l = "idle" \/ SameCall(new, c)
  BY <1>1, <1>10, GotoIs
<1>12. Faithful(new)'
  <2>1. CASE l = "idle"
    BY <1>11, <2>1 DEF Faithful, Saved
  <2>2. CASE l = "cleanup"
    <3>1. c.op \in {"renterCancel", "ownerCancel"}
      BY <1>1, <1>3, <1>10, <2>2, CallTyped, FollowingOrder
    <3>2. row[b] \in Row
      BY DEF TypeOK
    <3>3. row'[b].status \in {"CANCELLED", "REJECTED"}
      BY <1>5, <3>1, <3>2 DEF Assign, RefusedByOwner, Row
    <3>4. new.b = b
      BY <1>2, <1>11, <2>2 DEF SameCall
    <3> QED BY <1>11, <2>2, <3>3, <3>4 DEF Faithful, Saved
  <2>3. CASE l \notin {"idle", "cleanup"}
    <3>1. c.op \in SavesFirst /\ l # "commit"
      BY <1>1, <1>3, <1>10, <2>3, CallTyped, FollowingOrder DEF Following, SavesFirst
    <3>2. new.op \in SavesFirst
      BY <1>11, <2>3, <3>1 DEF SameCall
    <3> QED BY <1>11, <2>3, <3>1, <3>2 DEF Faithful, Saved
  <2> QED BY <2>1, <2>2, <2>3
<1>13. new.at = "idle" \/ new.b = req[r].b
  BY <1>1, <1>11 DEF SameCall
<1> QED BY <1>1, <1>2, <1>4, <1>5, <1>6, <1>8, <1>11, <1>12, <1>13, SerialStep

LEMMA SerialCleanup ==
  ASSUME TypeOK, SerialInv, NEW r \in Request, Cleanup(r)
  PROVE  SerialInv'
<1>1. PICK c \in Call : c = req[r]
  BY CallTyped
<1>2. PICK b \in Booking : b = c.b
  BY <1>1, CallTyped
<1>3. c.at = "cleanup" /\ row' = row /\ income' = [income EXCEPT ![b] = 0] /\ InFlight(r)
  BY <1>1, <1>2 DEF Cleanup, InFlight
<1>4. Goto(r, "idle")
  BY <1>1, <1>3, CallTyped DEF Cleanup, Proceed, Following
<1>5. PICK new : req' = [req EXCEPT ![r] = new] /\ new.at = "idle"
  BY <1>4, GotoIs
<1>6. row[b].status \in {"CANCELLED", "REJECTED"}
  BY <1>1, <1>2, <1>3 DEF SerialInv, Faithful
<1>7. Sound(row'[b], income'[b])
  BY <1>3, <1>6 DEF SerialInv, Sound
<1>8. \A v \in Booking : v # b => row'[v] = row[v] /\ income'[v] = income[v]
  BY <1>3 DEF TypeOK
<1>9. Faithful(new)'
  BY <1>5 DEF Faithful, Saved
<1> QED BY <1>1, <1>2, <1>3, <1>5, <1>7, <1>8, <1>9, SerialStep

LEMMA SerialFails ==
  ASSUME TypeOK, SerialInv, NEW r \in Request, NEW l, Goto(r, l), InFlight(r),
         l = Recovery(req[r].op, req[r].at), UNCHANGED <<row, income>>
  PROVE  SerialInv'
<1>1. PICK new : /\ req' = [req EXCEPT ![r] = new] /\ new.at = l
                 /\ l = "idle" \/ SameCall(new, req[r])
  BY GotoIs
<1>2. \/ l = "idle"
      \/ /\ l = "commit" /\ req[r].op \in {"renterCancel", "ownerCancel"}
         /\ req[r].at \in WalletRead \cup WalletSave
  BY CallTyped, FollowingOrder
<1>3. ~Saved(req[r]) \/ Saved(new)
  BY <1>1, <1>2 DEF Saved, WalletRead, WalletSave, SavesFirst
<1> QED BY <1>1, <1>2, <1>3, SerialOnward

\* A call as it begins.
Loaded(new, op, b) ==
  /\ new.op = op /\ new.b = b /\ new.at = First(op)
  /\ new.ent = Assign(op, row[b]) /\ new.cols = Assigned(op, row[b])
  /\ new.pin = FALSE

LEMMA LoadIs ==
  ASSUME NEW r \in Request, NEW op \in Op, NEW b \in Booking, Load(r, op, b)
  PROVE  \E new : req' = [req EXCEPT ![r] = new] /\ Loaded(new, op, b)
<1>1. PICK due :
        req' = [req EXCEPT ![r] =
         [op |-> op, b |-> b, at |-> First(op), ent |-> Assign(op, row[b]),
          cols |-> Assigned(op, row[b]), buf |-> EmptyPurse, due |-> due, pin |-> FALSE]]
  BY DEF Load
<1>2. PICK new : new = [op |-> op, b |-> b, at |-> First(op), ent |-> Assign(op, row[b]),
                        cols |-> Assigned(op, row[b]), buf |-> EmptyPurse, due |-> due,
                        pin |-> FALSE]
  OBVIOUS
<1>3. req' = [req EXCEPT ![r] = new]
  BY <1>1, <1>2
<1>4. Loaded(new, op, b)
  BY <1>2 DEF Loaded
<1> QED BY <1>3, <1>4

LEMMA SerialLoads ==
  ASSUME ~Overlap, TypeOK, SerialInv, NEW r \in Request, NEW op \in Op, NEW b \in Booking,
         Load(r, op, b)
  PROVE  SerialInv'
<1>1. PICK new : req' = [req EXCEPT ![r] = new] /\ Loaded(new, op, b)
  BY LoadIs
<1>2. /\ new.op = op /\ new.b = b /\ new.at = First(op)
      /\ new.ent = Assign(op, row[b]) /\ new.cols = Assigned(op, row[b])
  BY <1>1 DEF Loaded
<1>3. /\ row' = row /\ income' = income /\ Guard(op, row[b]) /\ ~InFlight(r)
      /\ \A q \in Request : InFlight(q) => req[q].b # b
  BY DEF Load
<1>4. Faithful(new)'
  <2>1. First(op) # "cleanup"
    BY DEF First
  <2>2. Differ(row[b], Assign(op, row[b])) \subseteq Assigned(op, row[b])
    BY DEF Assigned
  <2> QED BY <1>2, <1>3, <2>1, <2>2 DEF Faithful
<1>5. req'[r] = new /\ \A q \in Request : q # r => req'[q] = req[q]
  BY <1>1 DEF TypeOK
<1>6. Alone'
  BY <1>2, <1>3, <1>5 DEF SerialInv, Alone, InFlight
<1>7. ASSUME NEW q \in Request, q # r PROVE Faithful(req[q])'
  <2>1. Faithful(req[q])
    BY DEF SerialInv
  <2> QED BY <1>3, <1>5, <1>7, <2>1 DEF Faithful, Saved
<1> QED BY <1>3, <1>4, <1>5, <1>6, <1>7 DEF SerialInv

LEMMA SerialNext == ~Overlap /\ TypeOK /\ TypeOK' /\ SerialInv /\ [Next]_vars => SerialInv'
<1> SUFFICES ASSUME ~Overlap, TypeOK, TypeOK', SerialInv, [Next]_vars PROVE SerialInv'
  OBVIOUS
<1>1. ASSUME NEW r \in Request, NEW op \in Op, NEW b \in Booking, Load(r, op, b)
      PROVE  SerialInv'
  BY <1>1, SerialLoads
<1>2. ASSUME NEW r \in Request, Progress(r) PROVE SerialInv'
  <2>1. CASE \E w \in Party : ReadWallet(r, w) \/ SaveWallet(r, w)
    BY <2>1, SerialWallets
  <2>2. CASE WalletTimeout(r)
    BY <2>2, SerialFails DEF WalletTimeout, InFlight
  <2>3. CASE LockRow(r) \/ ReleaseHold(r)
    BY <2>3, SerialProceeds DEF LockRow, ReleaseHold, InFlight
  <2>4. CASE RefundCaptured(r) \/ NothingToRefund(r)
    <3>1. PICK inserts : RecordRefund(r, inserts)
      BY <2>4 DEF RefundCaptured, NothingToRefund
    <3>2. req[r].at = "refund" /\ UNCHANGED <<row, income>>
      BY <2>4 DEF RefundCaptured, NothingToRefund
    <3> QED BY <3>1, <3>2, SerialRecords
  <2>5. CASE RefundRefused(r) \/ EnumRefused(r)
    BY <2>5, SerialEnds DEF RefundRefused, EnumRefused, InFlight
  <2>6. CASE CommitAccept(r) \/ CommitAdminCancel(r) \/ Commit(r)
    BY <2>6, SerialCommits
  <2>7. CASE Cleanup(r)
    BY <2>7, SerialCleanup
  <2> QED BY <1>2, <2>1, <2>2, <2>3, <2>4, <2>5, <2>6, <2>7 DEF Progress
<1>3. ASSUME NEW r \in Request, Fail(r) PROVE SerialInv'
  <2>1. InFlight(r) /\ UNCHANGED <<row, income>>
    BY <1>3 DEF Fail
  <2>2. Goto(r, Recovery(req[r].op, req[r].at))
    BY <1>3 DEF Fail, Abort
  <2> QED BY <2>1, <2>2, SerialFails
<1>4. CASE Crash
  <2>1. row' = row /\ income' = income /\ \A r \in Request : req'[r].at = "idle"
    BY <1>4, NoCallTyped DEF Crash
  <2> QED BY <2>1 DEF SerialInv, Alone, InFlight, Faithful, Saved
<1>5. CASE row' = row /\ income' = income /\ req' = req
  BY <1>5 DEF SerialInv, Alone, InFlight, Faithful, Saved
<1> QED BY <1>1, <1>2, <1>3, <1>4, <1>5 DEF Next, Capture, vars

LEMMA SerialInit == Init => SerialInv
<1> SUFFICES ASSUME Init PROVE SerialInv
  OBVIOUS
<1>1. \A r \in Request : req[r].at = "idle"
  BY NoCallTyped DEF Init
<1>2. \A b \in Booking : Sound(row[b], income[b])
  BY DEF Init, NewRow, Sound
<1> QED BY <1>1, <1>2 DEF SerialInv, Alone, InFlight, Faithful, Saved

LEMMA SerialAlways == ASSUME ~Overlap PROVE Spec => []SerialInv
<1>1. TypeOK /\ TypeOK' /\ SerialInv /\ [Next]_vars => SerialInv'
  BY SerialNext
<1> QED BY <1>1, SerialInit, TypeCorrect, PTL DEF Spec

(* The rental only starts on revenue the owner is owed (acceptBooking,     *)
(* validateBookingCode, confirmBookings), for calls on one booking that do *)
(* not overlap, whatever is asked for and whatever fails or crashes.       *)
THEOREM StartsOnRevenue == ASSUME ~Overlap PROVE Spec => []OngoingEarned
<1>1. SerialInv => OngoingEarned
  BY DEF SerialInv, Sound, OngoingEarned
<1> QED BY <1>1, SerialAlways, PTL

(* The tool goes back before it is picked up (confirmToolReturn,           *)
(* confirmToolPickup, reportToolPickup), under the same condition.         *)
THEOREM BackBeforePickup == ASSUME ~Overlap PROVE Spec => []HandoverOrder
<1>1. SerialInv => HandoverOrder
  BY DEF SerialInv, Sound, HandoverOrder
<1> QED BY <1>1, SerialAlways, PTL
-----------------------------------------------------------------------------
(***************************************************************************)
(* The screens offer no more than this, and no call ends halfway.          *)
(***************************************************************************)
OnScreens ==
  /\ ~Overlap /\ MaxFaults = 0
  /\ \A s \in Status :
       /\ <<"adminCancel", s>> \notin Offered
       /\ <<"ownerCancel", s>> \in Offered => s \in {"PENDING", "ACCEPTED"}
       /\ <<"payout", s>> \in Offered => s = "ACCEPTED"

UserCancels == {"renterCancel", "ownerCancel"}
Awaited == {"owner", "ownerSave", "admin", "adminSave"}

\* What a call c knows of the money of its booking at each await.
KnowsMoney(c) ==
  /\ c.at \in Awaited => c.op \in {"accept", "validate", "payout", "credit"} \cup UserCancels
  /\ c.at \in {"lock", "refund", "cleanup"} => c.op \in UserCancels
  /\ c.at # "idle" => c.op # "adminCancel" /\ (c.pin => c.op \in UserCancels)
  /\ c.op \in UserCancels /\ c.at # "idle" =>
       /\ settled[c.b] = {}
       /\ c.at # "cleanup" => row[c.b].status \in {"PENDING", "ACCEPTED"}
       /\ c.at \in {"lock", "refund"} => money[c.b] # "refunded"
  /\ c.op = "payout" /\ c.at # "idle" =>
       row[c.b].status = "ACCEPTED" /\ money[c.b] # "refunded"
  /\ c.op = "validate" /\ c.at \in Awaited =>
       row[c.b].status = "ONGOING" /\ money[c.b] # "refunded"

\* A cancellation that has gone past its refund, a payout that has paid a wallet:
\* their row is yet to be saved.
Refunding(c, b) == c.b = b /\ c.op \in UserCancels /\ c.at \notin {"idle", "lock", "refund"}
PayingOut(c, b) == c.b = b /\ c.op = "payout" /\ c.at # "idle"

RefundInv ==
  /\ \A r \in Request : KnowsMoney(req[r])
  /\ \A b \in Booking :
       /\ money[b] = "refunded" =>
            /\ settled[b] = {}
            /\ \/ row[b].status \in {"CANCELLED", "REJECTED"}
               \/ \E r \in Request : Refunding(req[r], b)
       /\ settled[b] # {} =>
            \/ row[b].status \notin {"PENDING", "ACCEPTED"}
            \/ \E r \in Request : PayingOut(req[r], b)

MoneyHolds(b, c) ==
  /\ money[b] = "refunded" =>
       settled[b] = {} /\ (row[b].status \in {"CANCELLED", "REJECTED"} \/ Refunding(c, b))
  /\ settled[b] # {} => row[b].status \notin {"PENDING", "ACCEPTED"} \/ PayingOut(c, b)

\* What holds of a booking, from the call in flight on it.
LEMMA MoneyFacts ==
  ASSUME TypeOK, SerialInv, RefundInv, NEW r \in Request, InFlight(r)
  PROVE  KnowsMoney(req[r]) /\ MoneyHolds(req[r].b, req[r])
<1>1. \A q \in Request : InFlight(q) /\ req[q].b = req[r].b => q = r
  BY DEF SerialInv, Alone
<1>2. \A q \in Request : Refunding(req[q], req[r].b) \/ PayingOut(req[q], req[r].b) => q = r
  BY <1>1 DEF Refunding, PayingOut, InFlight
<1> QED BY <1>2, CallTyped DEF RefundInv, MoneyHolds

LEMMA MoneyStep ==
  ASSUME TypeOK, SerialInv, RefundInv, NEW r \in Request, NEW new, NEW b,
         req' = [req EXCEPT ![r] = new], InFlight(r), b = req[r].b,
         \A v \in Booking : v # b =>
           row'[v] = row[v] /\ money'[v] = money[v] /\ settled'[v] = settled[v],
         KnowsMoney(new)', MoneyHolds(b, new)'
  PROVE  RefundInv'
<1>1. req'[r] = new /\ \A q \in Request : q # r => req'[q] = req[q]
  BY DEF TypeOK
<1>2. \A q \in Request : req[q].b \in Booking
  BY CallTyped
<1>3. \A q \in Request : q # r => req[q].at = "idle" \/ req[q].b # b
  BY DEF SerialInv, Alone, InFlight
<1>4. ASSUME NEW q \in Request, q # r PROVE KnowsMoney(req[q])'
  <2>1. PICK c : c = req[q]
    OBVIOUS
  <2>2. \/ c.at = "idle"
        \/ /\ row'[c.b] = row[c.b] /\ money'[c.b] = money[c.b]
           /\ settled'[c.b] = settled[c.b]
    BY <1>2, <1>3, <1>4, <2>1
  <2>3. KnowsMoney(c)
    BY <2>1 DEF RefundInv
  <2>4. KnowsMoney(c)'
    BY <2>2, <2>3 DEF KnowsMoney, Awaited, UserCancels
  <2> QED BY <1>1, <1>4, <2>1, <2>4
<1>5. ASSUME NEW v \in Booking, v # b
      PROVE  /\ (\E q \in Request : Refunding(req[q], v)) => (\E q \in Request : Refunding(req'[q], v))
             /\ (\E q \in Request : PayingOut(req[q], v)) => (\E q \in Request : PayingOut(req'[q], v))
  <2>1. \A q \in Request : Refunding(req[q], v) \/ PayingOut(req[q], v) => q # r
    BY <1>5 DEF Refunding, PayingOut
  <2> QED BY <1>1, <2>1
<1>6. ASSUME NEW v \in Booking
      PROVE  /\ money'[v] = "refunded" =>
                  /\ settled'[v] = {}
                  /\ \/ row'[v].status \in {"CANCELLED", "REJECTED"}
                     \/ \E q \in Request : Refunding(req'[q], v)
             /\ settled'[v] # {} =>
                  \/ row'[v].status \notin {"PENDING", "ACCEPTED"}
                  \/ \E q \in Request : PayingOut(req'[q], v)
  <2>1. CASE v = b
    BY <1>1, <2>1 DEF MoneyHolds, Refunding, PayingOut
  <2>2. CASE v # b
    BY <1>5, <2>2 DEF RefundInv
  <2> QED BY <2>1, <2>2
<1> QED BY <1>1, <1>4, <1>6 DEF RefundInv, Refunding, PayingOut

\* A call goes on, or ends where its row is already as it should be.
LEMMA MoneyOnward ==
  ASSUME TypeOK, SerialInv, RefundInv, NEW r \in Request, NEW l, Goto(r, l), InFlight(r),
         req[r].at # "commit", l = Following(req[r].op, req[r].at),
         UNCHANGED <<row, settled>>,
         money' = money \/ money' = [money EXCEPT ![req[r].b] = "released"]
  PROVE  RefundInv'
<1>1. PICK c \in Call : c = req[r]
  BY CallTyped
<1>2. PICK b \in Booking : b = c.b
  BY <1>1, CallTyped
<1>3. PICK new : /\ req' = [req EXCEPT ![r] = new] /\ new.at = l
                 /\ l = "idle" \/ (SameCall(new, c) /\ new.pin = c.pin)
  BY <1>1, GotoIs
<1>4. KnowsMoney(c) /\ MoneyHolds(b, c) /\ c.at # "idle"
  BY <1>1, <1>2, MoneyFacts DEF InFlight
<1>5. /\ row' = row /\ settled' = settled
      /\ money'[b] = money[b] \/ money'[b] = "released"
      /\ \A v \in Booking : v # b => money'[v] = money[v]
  BY <1>1, <1>2 DEF TypeOK
<1>6. c.at = "cleanup" => row[b].status \in {"CANCELLED", "REJECTED"}
  BY <1>1, <1>2 DEF SerialInv, Faithful
<1>7. c.op \in Op /\ c.at \in Label /\ c.at # "commit" /\ l = Following(c.op, c.at)
  BY <1>1, CallTyped
<1>8. new.at = "idle" \/ (new.op = c.op /\ new.b = b /\ new.pin = c.pin)
  BY <1>2, <1>3 DEF SameCall
<1>9. c.op # "adminCancel"
  BY <1>4 DEF KnowsMoney
<1>10. /\ l \in Awaited => c.at \in Awaited \cup {"refund"}
       /\ l \in {"lock", "refund"} => c.at = "lock"
       /\ l # "cleanup"
       /\ l = "idle" => c.at = "cleanup" \/ (c.at \in Awaited /\ c.op \in SavesFirst)
       /\ c.at = "cleanup" => l = "idle"
  BY <1>4, <1>7, <1>9 DEF Following, Awaited, Label, WalletRead, WalletSave, SavesFirst
<1>11. KnowsMoney(new)'
  BY <1>2, <1>3, <1>4, <1>5, <1>8, <1>9, <1>10 DEF KnowsMoney, UserCancels, Awaited
<1>12. MoneyHolds(b, new)'
  BY <1>2, <1>3, <1>4, <1>5, <1>6, <1>8, <1>10
     DEF MoneyHolds, Refunding, PayingOut, KnowsMoney, UserCancels, Awaited, SavesFirst
<1> QED BY <1>1, <1>2, <1>3, <1>5, <1>11, <1>12, MoneyStep
\* A wallet is saved: with a transfer, the booking's revenue is settled.
LEMMA MoneySettles ==
  ASSUME TypeOK, SerialInv, RefundInv, NEW r \in Request, NEW w \in Party, SaveWallet(r, w)
  PROVE  RefundInv'
<1>1. PICK c \in Call : c = req[r]
  BY CallTyped
<1>2. PICK b \in Booking : b = c.b
  BY <1>1, CallTyped
<1>3. /\ c.at \in {"ownerSave", "adminSave"} /\ InFlight(r) /\ Proceed(r)
      /\ row' = row /\ money' = money
  BY <1>1 DEF SaveWallet, InFlight
<1>4. Goto(r, Following(c.op, c.at))
  BY <1>1, <1>3 DEF Proceed
<1>5. CASE c.op \notin Transfers
  <2>1. settled' = settled
    BY <1>1, <1>5 DEF SaveWallet
  <2> QED BY <1>1, <1>3, <1>4, <2>1, MoneyOnward
<1>6. CASE c.op \in Transfers
  <2>1. settled' = [settled EXCEPT ![b] = @ \cup {w}]
    BY <1>1, <1>2, <1>6 DEF SaveWallet
  <2>2. PICK l : l = Following(c.op, c.at)
    OBVIOUS
  <2>3. PICK new : /\ req' = [req EXCEPT ![r] = new] /\ new.at = l
                   /\ l = "idle" \/ (SameCall(new, c) /\ new.pin = c.pin)
    BY <1>1, <1>4, <2>2, GotoIs
  <2>4. KnowsMoney(c) /\ MoneyHolds(b, c) /\ c.at \in Awaited
    BY <1>1, <1>2, <1>3, MoneyFacts DEF Awaited
  <2>5. new.at = "idle" \/ (new.op = c.op /\ new.b = b /\ new.pin = c.pin)
    BY <1>2, <2>3 DEF SameCall
  <2>6. /\ c.op = "validate" => l = "idle" \/ l \in Awaited
        /\ c.op = "payout" => l \in {"admin", "commit"}
    BY <1>3, <2>2 DEF Following, Awaited, SavesFirst
  <2>7. /\ c.op = "validate" \/ c.op = "payout"
        /\ money[b] # "refunded" /\ c.at # "idle" /\ ~c.pin
        /\ c.op = "validate" => row[b].status = "ONGOING"
        /\ c.op = "payout" => row[b].status = "ACCEPTED"
    BY <1>2, <1>3, <1>6, <2>4 DEF KnowsMoney, Transfers, UserCancels
  <2>8. KnowsMoney(new)'
    <3>1. CASE l = "idle"
      BY <2>3, <3>1 DEF KnowsMoney, Awaited
    <3>2. CASE l # "idle"
      BY <1>3, <2>3, <2>5, <2>6, <2>7, <3>2 DEF KnowsMoney, UserCancels, Awaited
    <3> QED BY <3>1, <3>2
  <2>9. MoneyHolds(b, new)'
    BY <1>3, <2>3, <2>5, <2>6, <2>7 DEF MoneyHolds, PayingOut
  <2>10. \A v \in Booking : v # b =>
           row'[v] = row[v] /\ money'[v] = money[v] /\ settled'[v] = settled[v]
    BY <1>3, <2>1 DEF TypeOK
  <2> QED BY <1>1, <1>2, <1>3, <2>3, <2>8, <2>9, <2>10, MoneyStep
<1> QED BY <1>5, <1>6

\* The payment is refunded: the cancellation goes on to save its row.
LEMMA MoneyRefunds ==
  ASSUME TypeOK, SerialInv, RefundInv, NEW r \in Request, RefundCaptured(r) \/ NothingToRefund(r)
  PROVE  RefundInv'
<1>1. PICK c \in Call : c = req[r]
  BY CallTyped
<1>2. PICK b \in Booking : b = c.b
  BY <1>1, CallTyped
<1>3. /\ c.at = "refund" /\ InFlight(r) /\ row' = row /\ settled' = settled
      /\ \A v \in Booking : v # b => money'[v] = money[v]
  BY <1>1, <1>2 DEF RefundCaptured, NothingToRefund, InFlight, TypeOK
<1>4. PICK pin \in BOOLEAN : req' = [req EXCEPT ![r] =
        [@ EXCEPT !.at = Following(req[r].op, "refund"), !.pin = pin]]
  BY DEF RefundCaptured, NothingToRefund, RecordRefund
<1>5. KnowsMoney(c) /\ MoneyHolds(b, c)
  BY <1>1, <1>2, <1>3, MoneyFacts
<1>6. c.op \in UserCancels /\ settled[b] = {} /\ row[b].status \in {"PENDING", "ACCEPTED"}
  BY <1>2, <1>3, <1>5 DEF KnowsMoney
<1>7. Following(c.op, "refund") = "owner"
  BY <1>6 DEF Following, UserCancels
<1>8. PICK new : new = [c EXCEPT !.at = "owner", !.pin = pin]
  OBVIOUS
<1>9. req' = [req EXCEPT ![r] = new]
  BY <1>1, <1>4, <1>7, <1>8
<1>10. new.at = "owner" /\ new.op = c.op /\ new.b = b
  BY <1>2, <1>8 DEF Call
<1>11. KnowsMoney(new)'
  BY <1>3, <1>6, <1>10 DEF KnowsMoney, UserCancels, Awaited
<1>12. MoneyHolds(b, new)'
  BY <1>3, <1>6, <1>10 DEF MoneyHolds, Refunding
<1> QED BY <1>1, <1>2, <1>3, <1>9, <1>11, <1>12, MoneyStep

\* A refund that is refused, or a webhook's save: the call ends where it is.
LEMMA MoneyRefused ==
  ASSUME TypeOK, SerialInv, RefundInv, NEW r \in Request, RefundRefused(r) \/ EnumRefused(r)
  PROVE  RefundInv'
<1>1. PICK b : b = req[r].b
  OBVIOUS
<1>2. PICK new : req' = [req EXCEPT ![r] = new] /\ new.at = "idle"
  BY GotoIs DEF RefundRefused, EnumRefused, Abort
<1>3. /\ req[r].at = "refund" \/ (req[r].at = "commit" /\ req[r].op \in Notices)
      /\ InFlight(r) /\ row' = row /\ money' = money /\ settled' = settled
  BY DEF RefundRefused, EnumRefused, InFlight
<1>4. KnowsMoney(req[r]) /\ MoneyHolds(b, req[r])
  BY <1>1, <1>3, MoneyFacts
<1>5. KnowsMoney(new)'
  BY <1>2 DEF KnowsMoney, Awaited
<1>6. MoneyHolds(b, new)'
  <2>1. CASE req[r].at = "refund"
    <3>1. settled[b] = {} /\ money[b] # "refunded"
      BY <1>1, <1>4, <2>1 DEF KnowsMoney
    <3> QED BY <1>3, <3>1 DEF MoneyHolds
  <2>2. CASE req[r].op \in Notices
    BY <1>3, <1>4, <2>2 DEF MoneyHolds, Refunding, PayingOut, Notices, UserCancels
  <2> QED BY <1>3, <2>1, <2>2
<1> QED BY <1>1, <1>2, <1>3, <1>5, <1>6, MoneyStep

\* What a handler makes of the status, when it is neither a cancellation nor a payout.
LEMMA StatusKept ==
  ASSUME NEW op \in Op \ {"renterCancel", "ownerCancel", "adminCancel", "payout"},
         NEW e \in Row, Guard(op, e)
  PROVE  /\ e.status \in {"CANCELLED", "REJECTED"} =>
              Assign(op, e).status \in {"CANCELLED", "REJECTED"}
         /\ Assign(op, e).status \in {"PENDING", "ACCEPTED"} => e.status \in {"PENDING", "ACCEPTED"}
         /\ op = "validate" => e.status = "ACCEPTED" /\ Assign(op, e).status = "ONGOING"
         /\ op = "accept" => e.status = "PENDING"
<1>1. e.status \in Status
  BY DEF Row
<1>2. CASE op \in {"accept", "confirm", "complete", "autoComplete"}
  BY <1>1, <1>2 DEF Guard, MayAccept, MayConfirm, MayComplete, MayAutoComplete, Assign, Accepted, Row
<1>3. CASE op = "validate"
  BY <1>1, <1>3 DEF Guard, MayValidate, Assign, Validated, Row
<1>4. CASE op \in {"return", "pickup", "report"}
  BY <1>1, <1>4 DEF Guard, MayReturn, MayPickUp, MayReport, Assign, Returned, PickedUp, Reported, Row
<1>5. CASE op = "claim"
  BY <1>1, <1>5 DEF Assign, Claimed, Row
<1>6. CASE op = "depositCancel"
  BY <1>1, <1>6 DEF Assign, Row
<1>7. CASE op \in Notices
  BY <1>1, <1>7 DEF Assign, Notices
<1> QED BY <1>2, <1>3, <1>4, <1>5, <1>6, <1>7 DEF Op, Notices

LEMMA MoneyCommits ==
  ASSUME TypeOK, SerialInv, RefundInv, NEW r \in Request,
         CommitAccept(r) \/ CommitAdminCancel(r) \/ Commit(r)
  PROVE  RefundInv'
<1>1. PICK c \in Call : c = req[r]
  BY CallTyped
<1>2. PICK b \in Booking : b = c.b
  BY <1>1, CallTyped
<1>3. SaveRow(r) /\ c.at = "commit" /\ money' = money /\ settled' = settled
  BY <1>1 DEF CommitAccept, CommitAdminCancel, Commit
<1>4. Faithful(c) /\ ~Saved(c) /\ InFlight(r)
  BY <1>1, <1>3 DEF SerialInv, Saved, InFlight
<1>5. row'[b] = Assign(c.op, row[b]) /\ \A v \in Booking : v # b => row'[v] = row[v]
  BY <1>1, <1>2, <1>3, <1>4, SavesRow
<1>6. Guard(c.op, row[b]) /\ row[b] \in Row /\ c.op \in Op
  BY <1>1, <1>2, <1>4, CallTyped DEF Faithful, TypeOK
<1>7. KnowsMoney(c) /\ MoneyHolds(b, c)
  BY <1>1, <1>2, <1>4, MoneyFacts
<1>8. c.op # "adminCancel"
  BY <1>3, <1>7 DEF KnowsMoney
<1>9. Proceed(r)
  BY <1>1, <1>8 DEF CommitAccept, CommitAdminCancel, Commit
<1>10. PICK l : l = Following(c.op, "commit")
  OBVIOUS
<1>11. PICK new : /\ req' = [req EXCEPT ![r] = new] /\ new.at = l
                  /\ l = "idle" \/ (SameCall(new, c) /\ new.pin = c.pin)
  BY <1>1, <1>3, <1>9, <1>10, GotoIs DEF Proceed
<1>12. new.at = "idle" \/ (new.op = c.op /\ new.b = b /\ new.pin = c.pin)
  BY <1>2, <1>11 DEF SameCall
<1>13. l = IF c.op \in UserCancels THEN "cleanup" ELSE IF c.op \in SavesFirst THEN "owner" ELSE "idle"
  BY <1>10 DEF Following, UserCancels
<1>14. CASE c.op \in UserCancels
  <2>1. settled[b] = {}
    BY <1>2, <1>3, <1>7, <1>14 DEF KnowsMoney
  <2>2. row'[b].status \in {"CANCELLED", "REJECTED"}
    BY <1>5, <1>6, <1>14 DEF Assign, RefusedByOwner, Row, UserCancels
  <2>3. KnowsMoney(new)'
    BY <1>3, <1>11, <1>12, <1>13, <1>14, <2>1 DEF KnowsMoney, Awaited, UserCancels
  <2>4. MoneyHolds(b, new)'
    BY <1>3, <2>1, <2>2 DEF MoneyHolds
  <2> QED BY <1>1, <1>2, <1>3, <1>4, <1>5, <1>11, <2>3, <2>4, MoneyStep
<1>15. CASE c.op = "payout"
  <2>1. money[b] # "refunded"
    BY <1>2, <1>3, <1>7, <1>15 DEF KnowsMoney
  <2>2. row'[b].status = "COMPLETED"
    BY <1>5, <1>6, <1>15 DEF Assign, Row
  <2>3. new.at = "idle"
    BY <1>11, <1>13, <1>15 DEF UserCancels, SavesFirst
  <2>4. KnowsMoney(new)' /\ MoneyHolds(b, new)'
    BY <1>3, <2>1, <2>2, <2>3 DEF KnowsMoney, MoneyHolds, Awaited
  <2> QED BY <1>1, <1>2, <1>3, <1>4, <1>5, <1>11, <2>4, MoneyStep
<1>16. CASE c.op \notin UserCancels \cup {"payout"}
  <2>1. /\ row[b].status \in {"CANCELLED", "REJECTED"} => row'[b].status \in {"CANCELLED", "REJECTED"}
        /\ row'[b].status \in {"PENDING", "ACCEPTED"} => row[b].status \in {"PENDING", "ACCEPTED"}
        /\ c.op = "validate" => row[b].status = "ACCEPTED" /\ row'[b].status = "ONGOING"
    BY <1>5, <1>6, <1>8, <1>16, StatusKept DEF UserCancels
  <2>2. ~Refunding(c, b) /\ ~PayingOut(c, b)
    BY <1>16 DEF Refunding, PayingOut
  <2>3. MoneyHolds(b, new)'
    BY <1>3, <1>7, <2>1, <2>2 DEF MoneyHolds
  <2>4. KnowsMoney(new)'
    <3>1. CASE c.op = "validate"
      <4>1. money[b] # "refunded" /\ ~c.pin
        BY <1>3, <1>7, <2>1, <2>2, <3>1 DEF MoneyHolds, KnowsMoney, UserCancels
      <4> QED BY <1>3, <1>11, <1>12, <1>13, <2>1, <3>1, <4>1
              DEF KnowsMoney, Awaited, UserCancels, SavesFirst
    <3>2. CASE c.op = "credit"
      <4>1. ~c.pin
        BY <1>3, <1>7, <3>2 DEF KnowsMoney, UserCancels
      <4> QED BY <1>11, <1>12, <1>13, <3>2, <4>1 DEF KnowsMoney, Awaited, UserCancels, SavesFirst
    <3>3. CASE c.op \notin SavesFirst
      BY <1>11, <1>13, <1>16, <3>3 DEF KnowsMoney, Awaited
    <3> QED BY <3>1, <3>2, <3>3 DEF SavesFirst
  <2> QED BY <1>1, <1>2, <1>3, <1>4, <1>5, <1>11, <2>3, <2>4, MoneyStep
<1> QED BY <1>14, <1>15, <1>16

LEMMA MoneyLoads ==
  ASSUME OnScreens, TypeOK, SerialInv, RefundInv, NEW r \in Request, NEW op \in Op, NEW b \in Booking,
         Load(r, op, b)
  PROVE  RefundInv'
<1>1. PICK new : req' = [req EXCEPT ![r] = new] /\ Loaded(new, op, b)
  BY LoadIs
<1>2. new.op = op /\ new.b = b /\ new.at = First(op) /\ new.pin = FALSE
  BY <1>1 DEF Loaded
<1>3. /\ row' = row /\ money' = money /\ settled' = settled /\ Guard(op, row[b]) /\ req[r].at = "idle"
      /\ \A q \in Request : req[q].at # "idle" => req[q].b # b
      /\ <<op, row[b].status>> \in Offered
  BY DEF Load, OnScreens, InFlight
<1>4. /\ op # "adminCancel"
      /\ op = "ownerCancel" => row[b].status \in {"PENDING", "ACCEPTED"}
      /\ op = "payout" => row[b].status = "ACCEPTED"
  BY <1>3 DEF OnScreens, TypeOK, Row
<1>5. op = "renterCancel" => row[b].status \in {"PENDING", "ACCEPTED"}
  BY <1>3 DEF Guard, MayRenterCancel
<1>6. /\ money[b] = "refunded" => row[b].status \in {"CANCELLED", "REJECTED"}
      /\ settled[b] # {} => row[b].status \notin {"PENDING", "ACCEPTED"}
  BY <1>3 DEF RefundInv, Refunding, PayingOut
<1>7. KnowsMoney(new)'
  BY <1>2, <1>3, <1>4, <1>5, <1>6 DEF KnowsMoney, First, UserCancels, Awaited
<1>8. req'[r] = new /\ \A q \in Request : q # r => req'[q] = req[q]
  BY <1>1 DEF TypeOK
<1>9. ASSUME NEW q \in Request, q # r PROVE KnowsMoney(req[q])'
  <2>1. KnowsMoney(req[q])
    BY DEF RefundInv
  <2> QED BY <1>3, <1>8, <1>9, <2>1 DEF KnowsMoney
<1>10. ASSUME NEW v \in Booking
       PROVE  /\ (\E q \in Request : Refunding(req[q], v)) => (\E q \in Request : Refunding(req'[q], v))
              /\ (\E q \in Request : PayingOut(req[q], v)) => (\E q \in Request : PayingOut(req'[q], v))
  <2>1. \A q \in Request : Refunding(req[q], v) \/ PayingOut(req[q], v) => q # r
    BY <1>3 DEF Refunding, PayingOut
  <2> QED BY <1>8, <2>1
<1>11. \A q \in Request : KnowsMoney(req[q])'
  BY <1>7, <1>8, <1>9
<1> QED BY <1>3, <1>10, <1>11 DEF RefundInv, Refunding, PayingOut

LEMMA MoneyNext ==
  ASSUME OnScreens, TypeOK, TypeOK', SerialInv, RefundInv, [Next]_vars
  PROVE  RefundInv'
<1>1. ASSUME NEW r \in Request, NEW op \in Op, NEW b \in Booking, Load(r, op, b)
      PROVE  RefundInv'
  BY <1>1, MoneyLoads
<1>2. ~(faults < MaxFaults)
  BY DEF OnScreens, TypeOK
<1>3. ASSUME NEW r \in Request, Proceed(r), InFlight(r), req[r].at # "commit",
             UNCHANGED <<row, settled>>,
             money' = money \/ money' = [money EXCEPT ![req[r].b] = "released"]
      PROVE  RefundInv'
  BY <1>3, MoneyOnward DEF Proceed
<1>4. ASSUME NEW r \in Request, NEW w \in Party, ReadWallet(r, w)
      PROVE  RefundInv'
  <2>1. /\ UNCHANGED <<row, settled>> /\ money' = money
        /\ InFlight(r) /\ req[r].at \in {"owner", "admin"}
    BY <1>4 DEF ReadWallet, InFlight, Party
  <2>2. CASE Proceed(r)
    BY <1>3, <2>1, <2>2
  <2>3. CASE ~Proceed(r)
    <3>1. PICK c \in Call : c = req[r]
      BY CallTyped
    <3>2. PICK buf, l : /\ l \in {"ownerSave", "adminSave"}
                        /\ req' = [req EXCEPT ![r] = [@ EXCEPT !.at = l, !.buf = buf]]
      BY <1>4, <2>3 DEF ReadWallet
    <3>3. PICK new : new = [c EXCEPT !.at = l, !.buf = buf]
      OBVIOUS
    <3>4. /\ req' = [req EXCEPT ![r] = new] /\ new.at = l /\ new.op = c.op /\ new.b = c.b
          /\ new.pin = c.pin
      BY <3>1, <3>2, <3>3 DEF Call
    <3>5. KnowsMoney(c) /\ MoneyHolds(c.b, c)
      BY <2>1, <3>1, MoneyFacts
    <3>6. c.at \in {"owner", "admin"} /\ row' = row /\ money' = money /\ settled' = settled
      BY <2>1, <3>1
    <3>7. KnowsMoney(new)'
      BY <3>2, <3>4, <3>5, <3>6 DEF KnowsMoney, UserCancels, Awaited
    <3>8. MoneyHolds(c.b, new)'
      BY <3>2, <3>4, <3>5, <3>6 DEF MoneyHolds, Refunding, PayingOut
    <3> QED BY <2>1, <3>1, <3>4, <3>6, <3>7, <3>8, MoneyStep
  <2> QED BY <2>2, <2>3
<1>5. ASSUME NEW r \in Request, WalletTimeout(r) PROVE RefundInv'
  <2>1. PICK c \in Call : c = req[r]
    BY CallTyped
  <2>2. /\ c.at = "ownerSave" /\ InFlight(r) /\ Goto(r, Recovery(c.op, "ownerSave"))
        /\ row' = row /\ money' = money /\ settled' = settled
    BY <1>5, <2>1 DEF WalletTimeout, InFlight
  <2>3. PICK l : l = Recovery(c.op, "ownerSave")
    OBVIOUS
  <2>4. PICK new : /\ req' = [req EXCEPT ![r] = new] /\ new.at = l
                   /\ l = "idle" \/ (SameCall(new, c) /\ new.pin = c.pin)
    BY <2>1, <2>2, <2>3, GotoIs
  <2>5. KnowsMoney(c) /\ MoneyHolds(c.b, c)
    BY <2>1, <2>2, MoneyFacts
  <2>6. l = IF c.op \in UserCancels THEN "commit" ELSE "idle"
    BY <2>3 DEF Recovery, UserCancels, WalletRead, WalletSave
  <2>7. new.at = "idle" \/ (new.op = c.op /\ new.b = c.b /\ new.pin = c.pin)
    BY <2>4 DEF SameCall
  <2>8. c.op # "payout"
    BY <1>5, <2>1, <2>2, <2>5 DEF WalletTimeout, KnowsMoney, UserCancels
  <2>9. KnowsMoney(new)'
    BY <2>2, <2>4, <2>5, <2>6, <2>7 DEF KnowsMoney, UserCancels, Awaited
  <2>10. MoneyHolds(c.b, new)'
    BY <2>2, <2>4, <2>5, <2>6, <2>7, <2>8 DEF MoneyHolds, Refunding, PayingOut, UserCancels
  <2> QED BY <2>1, <2>2, <2>4, <2>9, <2>10, MoneyStep
<1>6. ASSUME NEW r \in Request, Progress(r) PROVE RefundInv'
  <2>1. CASE \E w \in Party : ReadWallet(r, w) \/ SaveWallet(r, w)
    BY <1>4, <2>1, MoneySettles
  <2>2. CASE WalletTimeout(r)
    BY <1>5, <2>2
  <2>3. CASE LockRow(r) \/ ReleaseHold(r) \/ Cleanup(r)
    BY <1>3, <2>3 DEF LockRow, ReleaseHold, Cleanup, InFlight
  <2>4. CASE RefundCaptured(r) \/ NothingToRefund(r)
    BY <2>4, MoneyRefunds
  <2>5. CASE RefundRefused(r) \/ EnumRefused(r)
    BY <2>5, MoneyRefused
  <2>6. CASE CommitAccept(r) \/ CommitAdminCancel(r) \/ Commit(r)
    BY <2>6, MoneyCommits
  <2> QED BY <1>6, <2>1, <2>2, <2>3, <2>4, <2>5, <2>6 DEF Progress
<1>7. ASSUME NEW b \in Booking, Capture(b) PROVE RefundInv'
  <2>1. /\ row' = row /\ settled' = settled /\ req' = req
        /\ \A v \in Booking : money'[v] = "refunded" => money[v] = "refunded"
    BY <1>7 DEF Capture, TypeOK
  <2>2. ASSUME NEW q \in Request PROVE KnowsMoney(req[q])'
    <3>1. KnowsMoney(req[q]) /\ req[q].b \in Booking
      BY CallTyped DEF RefundInv
    <3> QED BY <2>1, <3>1 DEF KnowsMoney
  <2> QED BY <2>1, <2>2 DEF RefundInv, Refunding, PayingOut
<1>8. CASE UNCHANGED vars
  <2>1. row' = row /\ settled' = settled /\ req' = req /\ money' = money
    BY <1>8 DEF vars
  <2>2. \A q \in Request : KnowsMoney(req[q])'
    BY <2>1 DEF RefundInv, KnowsMoney
  <2> QED BY <2>1, <2>2 DEF RefundInv, Refunding, PayingOut
<1> QED BY <1>1, <1>2, <1>6, <1>7, <1>8 DEF Next, Fail, Crash
LEMMA MoneyInit == Init => RefundInv
<1> SUFFICES ASSUME Init PROVE RefundInv
  OBVIOUS
<1>1. \A r \in Request : req[r] = NoCall /\ NoCall.at = "idle"
  BY NoCallTyped DEF Init
<1>2. \A r \in Request : KnowsMoney(req[r])
  BY <1>1 DEF KnowsMoney, Awaited
<1>3. \A b \in Booking : money[b] # "refunded" /\ settled[b] = {}
  BY BoundAssumption DEF Init
<1> QED BY <1>2, <1>3 DEF RefundInv

LEMMA MoneyAlways == ASSUME OnScreens PROVE Spec => []RefundInv
<1>1. TypeOK /\ TypeOK' /\ SerialInv /\ RefundInv /\ [Next]_vars => RefundInv'
  BY MoneyNext
<1>2. Spec => []SerialInv
  BY SerialAlways DEF OnScreens
<1> QED BY <1>1, <1>2, MoneyInit, TypeCorrect, PTL DEF Spec

(* The revenue of a booking whose payment was returned to the renter never *)
(* moves from pending to available (the cancellations of the renter and    *)
(* the owner against validateBookingCode and the payout), for any number   *)
(* of bookings and calls, as long as calls on one booking do not overlap,  *)
(* none ends halfway, and the screens offer what they do.  The webhook's   *)
(* credit is not revenue: it is available whatever is refunded.            *)
THEOREM RefundedNeverSettled == ASSUME OnScreens PROVE Spec => []RefundedNotSettled
<1>1. RefundInv => RefundedNotSettled
  BY DEF RefundInv, RefundedNotSettled
<1> QED BY <1>1, MoneyAlways, PTL
-----------------------------------------------------------------------------
(***************************************************************************)
(* One call at a time, on whichever booking, and no lock taken by the      *)
(* database on what a row refers to.  LedgerBalanced speaks of the moments *)
(* when no call is in flight; LedgerInv says what the wallets hold at each *)
(* await of a call, when its bookings row tells nothing of it yet.         *)
(***************************************************************************)
OneCall ==
  /\ OnScreens /\ ~ForeignKeys
  /\ \E r \in Request : Request = {r}
  /\ IsFiniteSet(Booking)

\* The call has been to the wallet of w, and no row of its booking tells.
Visited(c, w) ==
  /\ c.op = "accept" \/ c.op \in UserCancels
  /\ c.at \in IF w = "owner" THEN {"admin", "adminSave", "commit", "cleanup"}
                             ELSE {"commit", "cleanup"}

\* What is pending in the wallet of w for the booking b whose revenue was recorded
\* i times and is available to those in s.
Owes(c, w, b, i, s) ==
  IF c.b = b /\ Visited(c, w)
    THEN IF c.op = "accept" THEN Share[b] ELSE 0
    ELSE IF i > 0 /\ w \notin s THEN Share[b] ELSE 0
Paid(w, b, s) == IF w \in s THEN Share[b] ELSE 0

Owed(c, w) == [b \in Booking |-> Owes(c, w, b, income[b], settled[b])]
PaidOut(w) == [b \in Booking |-> Paid(w, b, settled[b])]

\* What the webhook credited to the wallet of w.
Gifts(w) == IF w = "owner" THEN Total(credited, Booking) ELSE 0

\* The wallet a call is about to save.
At(w) == IF w = "owner" THEN "ownerSave" ELSE "adminSave"

KnowsWallet(c) ==
  /\ \A w \in Party : c.at = At(w) =>
       /\ c.buf = WalletCall(c.op, wallet[w], Added(c.op, c.b), income[c.b] * Share[c.b])
       /\ c.buf # wallet[w]
  /\ c.op = "credit" => c.at \notin {"admin", "adminSave"}
  /\ c.op = "accept" /\ c.at # "idle" => income[c.b] = 0 /\ settled[c.b] = {}
  /\ c.op \in Transfers =>
       /\ c.at \in {"owner", "ownerSave"} => settled[c.b] = {}
       /\ c.at \in {"admin", "adminSave"} => "admin" \notin settled[c.b]
  /\ c.at # "idle" => ~c.pin

Holds(c, w) ==
  /\ wallet[w].pending = Total(Owed(c, w), Booking)
  /\ wallet[w].available = Total(PaidOut(w), Booking) + Gifts(w)

Recorded(b) == income[b] \in {0, 1} /\ (row[b].status = "PENDING" => income[b] = 0)

LedgerInv ==
  /\ \A r \in Request : KnowsWallet(req[r]) /\ \A w \in Party : Holds(req[r], w)
  /\ \A b \in Booking : Recorded(b)

LEMMA OneOnly ==
  ASSUME OneCall, TypeOK, NEW r \in Request
  PROVE  Request = {r}
BY DEF OneCall

LEMMA OwesTyped ==
  ASSUME NEW c, NEW w, NEW b \in Booking, NEW i, NEW s
  PROVE  Owes(c, w, b, i, s) \in {0, Share[b]} /\ Paid(w, b, s) \in {0, Share[b]}
         /\ Share[b] \in Nat \ {0}
BY AmountAssumption DEF Owes, Paid

\* The wallet holds what is due to it for any one booking.
LEMMA Covers ==
  ASSUME OneCall, TypeOK, NEW c, NEW w \in Party, NEW b \in Booking, Holds(c, w)
  PROVE  wallet[w].pending >= Owes(c, w, b, income[b], settled[b])
<1>1. PICK f : f = Owed(c, w)
  OBVIOUS
<1>2. \A v \in Booking : f[v] = Owes(c, w, v, income[v], settled[v]) /\ f[v] \in Nat
  BY <1>1, OwesTyped DEF Owed
<1>3. PICK S : S = Booking \ {b}
  OBVIOUS
<1>4. IsFiniteSet(Booking) /\ IsFiniteSet(S)
  BY <1>3, FS_RemoveElement DEF OneCall
<1>5. \A v \in Booking : f[v] \in Int
  BY <1>2
<1>6. Total(f, Booking) = f[b] + Total(f, S)
  BY <1>3, <1>4, <1>5, TotalSplit
<1>7. PICK z : z = [v \in Booking |-> 0]
  OBVIOUS
<1>8. \A v \in S : f[v] \in Int /\ z[v] \in Int /\ z[v] <= f[v]
  BY <1>2, <1>3, <1>7
<1>9. Total(z, S) <= Total(f, S)
  BY <1>4, <1>8, TotalAtMost
<1>10. \A v \in S : z[v] = 0
  BY <1>3, <1>7
<1>11. Total(z, S) = 0
  BY <1>4, <1>10, TotalZero
<1>12. \A v \in S : f[v] \in Int
  BY <1>3, <1>5
<1>13. PICK k \in Int : k = Total(f, S)
  BY <1>4, <1>12, TotalInt
<1>14. f[b] \in Int /\ f[b] = Owes(c, w, b, income[b], settled[b])
  BY <1>2
<1> QED BY <1>1, <1>6, <1>9, <1>11, <1>13, <1>14 DEF Holds

\* One step of the one call.
LEMMA LedgerStep ==
  ASSUME OneCall, TypeOK, NEW r \in Request, NEW new, req' = [req EXCEPT ![r] = new],
         KnowsWallet(new)', \A w \in Party : Holds(new, w)', \A b \in Booking : Recorded(b)'
  PROVE  LedgerInv'
<1>1. Request = {r} /\ req'[r] = new
  BY OneOnly DEF TypeOK
<1> QED BY <1>1 DEF LedgerInv

\* A wallet that a step leaves alone, and so what it is due.
LEMMA HoldsStill ==
  ASSUME NEW c, NEW new, NEW w, Holds(c, w), wallet'[w] = wallet[w], UNCHANGED credited,
         \A b \in Booking :
           /\ Owes(new, w, b, income'[b], settled'[b]) = Owes(c, w, b, income[b], settled[b])
           /\ Paid(w, b, settled'[b]) = Paid(w, b, settled[b])
  PROVE  Holds(new, w)'
<1>1. Owed(c, w) = [b \in Booking |-> Owes(new, w, b, income'[b], settled'[b])]
  BY DEF Owed
<1>2. PaidOut(w) = [b \in Booking |-> Paid(w, b, settled'[b])]
  BY DEF PaidOut
<1>3. Owed(new, w)' = Owed(c, w) /\ PaidOut(w)' = PaidOut(w)
  BY <1>1, <1>2 DEF Owed, PaidOut, Owes, Paid, Visited
<1>4. Gifts(w)' = Gifts(w)
  BY DEF Gifts
<1> QED BY <1>3, <1>4 DEF Holds

LEMMA GiftsInt ==
  ASSUME OneCall, TypeOK, NEW w \in Party
  PROVE  Gifts(w) \in Int
<1>1. IsFiniteSet(Booking) /\ \A b \in Booking : credited[b] \in Int
  BY DEF OneCall, TypeOK
<1>2. Total(credited, Booking) \in Int
  BY <1>1, TotalInt
<1> QED BY <1>2 DEF Gifts

\* A wallet that is saved, by what one booking changes.
LEMMA HoldsChange ==
  ASSUME OneCall, TypeOK, NEW c, NEW new, NEW w \in Party, NEW y \in Booking, Holds(c, w),
         UNCHANGED credited,
         \A b \in Booking \ {y} :
           /\ Owes(new, w, b, income'[b], settled'[b]) = Owes(c, w, b, income[b], settled[b])
           /\ Paid(w, b, settled'[b]) = Paid(w, b, settled[b]),
         wallet'[w].pending = wallet[w].pending - Owes(c, w, y, income[y], settled[y])
                                + Owes(new, w, y, income'[y], settled'[y]),
         wallet'[w].available = wallet[w].available - Paid(w, y, settled[y])
                                  + Paid(w, y, settled'[y])
  PROVE  Holds(new, w)'
<1>1. PICK f : f = Owed(c, w)
  OBVIOUS
<1>2. PICK e : e = [b \in Booking |-> Owes(new, w, b, income'[b], settled'[b])]
  OBVIOUS
<1>3. Owed(new, w)' = e
  BY <1>2 DEF Owed, Owes, Visited
<1>4. PICK g : g = PaidOut(w)
  OBVIOUS
<1>5. PICK h : h = [b \in Booking |-> Paid(w, b, settled'[b])]
  OBVIOUS
<1>6. PaidOut(w)' = h
  BY <1>5 DEF PaidOut, Paid
<1>7. /\ \A b \in Booking : f[b] \in Int /\ e[b] \in Int
      /\ \A b \in Booking : g[b] \in Int /\ h[b] \in Int
  BY <1>1, <1>2, <1>4, <1>5, OwesTyped DEF Owed, PaidOut
<1>8. (\A b \in Booking \ {y} : e[b] = f[b]) /\ \A b \in Booking \ {y} : h[b] = g[b]
  BY <1>1, <1>2, <1>4, <1>5 DEF Owed, PaidOut
<1>9. IsFiniteSet(Booking)
  BY DEF OneCall
<1>10. Total(e, Booking) = Total(f, Booking) - f[y] + e[y]
  BY <1>7, <1>8, <1>9, TotalChange
<1>11. Total(h, Booking) = Total(g, Booking) - g[y] + h[y]
  BY <1>7, <1>8, <1>9, TotalChange
<1>12. /\ f[y] = Owes(c, w, y, income[y], settled[y])
       /\ e[y] = Owes(new, w, y, income'[y], settled'[y])
       /\ g[y] = Paid(w, y, settled[y]) /\ h[y] = Paid(w, y, settled'[y])
  BY <1>1, <1>2, <1>4, <1>5 DEF Owed, PaidOut
<1>13. PICK x \in Int : x = Gifts(w)
  BY GiftsInt
<1>14. Gifts(w)' = x
  BY <1>13 DEF Gifts
<1>15. wallet[w].available = Total(g, Booking) + x
  BY <1>4, <1>13 DEF Holds
<1>16. PICK k \in Int : k = Total(g, Booking)
  BY <1>7, <1>9, TotalInt
<1>17. wallet'[w].available = Total(h, Booking) + x
  BY <1>7, <1>11, <1>12, <1>15, <1>16
<1>18. wallet'[w].pending = Total(e, Booking)
  BY <1>1, <1>10, <1>12 DEF Holds
<1> QED BY <1>3, <1>6, <1>14, <1>17, <1>18 DEF Holds

\* What the wallet calls make of a wallet that covers what they take: of a booking of
\* share m, recorded i times.
Gives(op, p, m, i, q) ==
  /\ op = "accept" =>
       q # p /\ q.pending = p.pending + m /\ q.available = p.available
  /\ op \in UserCancels /\ i = 0 => q = p
  /\ op \in UserCancels /\ i = 1 /\ p.pending >= m =>
       q # p /\ q.pending = p.pending - m /\ q.available = p.available
  /\ op \in Transfers /\ i = 0 => q = p
  /\ op \in Transfers /\ i = 1 /\ p.pending >= m =>
       q # p /\ q.pending = p.pending - m /\ q.available = p.available + m
  /\ op = "credit" =>
       q # p /\ q.pending = p.pending /\ q.available = p.available + m

LEMMA CallGives ==
  ASSUME NEW op, NEW p \in Purse, NEW m \in Nat \ {0}, NEW i \in {0, 1},
         NEW q, NEW total, op # "credit" => total = i * m, q = WalletCall(op, p, m, total)
  PROVE  Gives(op, p, m, i, q)
<1> USE DEF Gives
<1>1. PICK x \in Int, a \in Int : p = [pending |-> x, available |-> a]
  BY DEF Purse
<1>2. PICK t : t = i * m /\ t \in Nat /\ (i = 0 => t = 0) /\ (i = 1 => t = m)
  OBVIOUS
<1>3. CASE op = "accept"
  <2>1. q = [pending |-> x + m, available |-> a]
    BY <1>1, <1>3 DEF WalletCall, AddPending
  <2>2. q # p
    <3>1. q.pending # p.pending
      BY <1>1, <2>1
    <3> QED BY <3>1
  <2> QED BY <1>1, <1>3, <2>1, <2>2 DEF UserCancels, Transfers
<1>4. CASE op \in UserCancels
  <2>1. q = IF x < t THEN p ELSE [p EXCEPT !.pending = @ - t]
    BY <1>1, <1>2, <1>4 DEF WalletCall, Withdraw, UserCancels
  <2>2. q = IF x < t THEN p ELSE [pending |-> x - t, available |-> a]
    BY <1>1, <2>1
  <2>3. CASE i = 0
    <3>1. q = p
      BY <1>1, <1>2, <2>2, <2>3
    <3> QED BY <1>4, <2>3, <3>1 DEF UserCancels, Transfers
  <2>4. CASE i = 1 /\ x >= m
    <3>1. q = [pending |-> x - m, available |-> a]
      BY <1>2, <2>2, <2>4
    <3>2. q # p
      <4>1. q.pending # p.pending
        BY <1>1, <3>1
      <4> QED BY <4>1
    <3> QED BY <1>1, <1>4, <2>4, <3>1, <3>2 DEF UserCancels, Transfers
  <2> QED BY <1>1, <1>4, <2>3, <2>4 DEF UserCancels, Transfers
<1>5. CASE op \in Transfers
  <2>1. q = Transfer(p, t)
    BY <1>2, <1>5 DEF WalletCall, Transfers
  <2>2. CASE i = 0
    <3>1. q = p
      BY <1>1, <1>2, <2>1, <2>2 DEF Transfer
    <3> QED BY <1>5, <2>2, <3>1 DEF UserCancels, Transfers
  <2>3. CASE i = 1 /\ x >= m
    <3>1. q = [pending |-> x - m, available |-> a + m]
      BY <1>1, <1>2, <2>1, <2>3 DEF Transfer
    <3>2. q # p
      <4>1. q.pending # p.pending
        BY <1>1, <3>1
      <4> QED BY <4>1
    <3> QED BY <1>1, <1>5, <2>3, <3>1, <3>2 DEF UserCancels, Transfers
  <2> QED BY <1>1, <1>5, <2>2, <2>3 DEF UserCancels, Transfers
<1>6. CASE op = "credit"
  <2>1. q = [pending |-> x, available |-> a + m]
    BY <1>1, <1>6 DEF WalletCall, AddAvailable
  <2>2. q # p
    <3>1. q.available # p.available
      BY <1>1, <2>1
    <3> QED BY <3>1
  <2> QED BY <1>1, <1>6, <2>1, <2>2 DEF UserCancels, Transfers
<1> QED BY <1>3, <1>4, <1>5, <1>6

\* Who has been to which wallet matters to the booking of the call alone.
LEMMA OwesElse ==
  ASSUME NEW c, NEW new, NEW w, NEW b, NEW i, NEW s,
         c.b # b \/ ~Visited(c, w), new.b # b \/ ~Visited(new, w)
  PROVE  Owes(new, w, b, i, s) = Owes(c, w, b, i, s)
BY DEF Owes

\* What is known of the one call that is in flight, and of its wallets.
LedgerFacts(c) ==
  /\ KnowsMoney(c) /\ MoneyHolds(c.b, c) /\ KnowsWallet(c)
  /\ \A w \in Party : Holds(c, w)
  /\ income[c.b] \in {0, 1} /\ (row[c.b].status = "PENDING" => income[c.b] = 0)

LEMMA LedgerFactsHold ==
  ASSUME TypeOK, SerialInv, RefundInv, LedgerInv, NEW r \in Request, InFlight(r)
  PROVE  LedgerFacts(req[r])
BY MoneyFacts, CallTyped DEF LedgerFacts, LedgerInv, Recorded

\* The wallet of w is saved by a call to y, which goes on as new: what is due and
\* what was paid for y, before and after.
Settles(c, new, w, y, s) ==
  /\ c.buf.pending = wallet[w].pending - Owes(c, w, y, income[y], settled[y])
                       + Owes(new, w, y, income[y], s)
  /\ c.buf.available = wallet[w].available - Paid(w, y, settled[y]) + Paid(w, y, s)
  /\ c.op \notin Transfers => c.buf.available = wallet[w].available

LEMMA SaveSettles ==
  ASSUME OneCall, TypeOK, NEW c \in Call, NEW y, y = c.b, NEW w \in Party, c.at = At(w),
         LedgerFacts(c), NEW new, new.at = Following(c.op, c.at),
         new.at = "idle" \/ (new.op = c.op /\ new.b = y), NEW s, c.op # "credit",
         s = IF c.op \in Transfers THEN settled[y] \cup {w} ELSE settled[y]
  PROVE  Settles(c, new, w, y, s)
<1>1. PICK p \in Purse : p = wallet[w]
  BY DEF TypeOK
<1>2. PICK m \in Nat \ {0} : m = Share[y]
  BY AmountAssumption DEF Call
<1>3. PICK i \in {0, 1} : i = income[y]
  BY DEF LedgerFacts
<1>4. PICK q : q = c.buf
  OBVIOUS
<1>5. q = WalletCall(c.op, p, m, i * m) /\ q # p
  <2>1. Added(c.op, y) = m
    BY <1>2, AddedTyped DEF Call
  <2> QED BY <1>1, <1>2, <1>3, <1>4, <2>1 DEF LedgerFacts, KnowsWallet
<1>5a. Gives(c.op, p, m, i, q)
  <2>1. PICK total : total = i * m
    OBVIOUS
  <2>2. q = WalletCall(c.op, p, m, total)
    BY <1>5, <2>1
  <2> QED BY <2>1, <2>2, CallGives
<1>6. PICK o : o = Owes(c, w, y, i, settled[y])
  OBVIOUS
<1>7. p.pending >= o
  BY <1>1, <1>3, <1>6, Covers DEF LedgerFacts, Call
<1>8. /\ c.at \in {"ownerSave", "adminSave"} /\ w \in {"owner", "admin"}
      /\ c.at = IF w = "owner" THEN "ownerSave" ELSE "adminSave"
  BY DEF At, Party
<1>9. c.op \in {"accept"} \cup UserCancels \cup Transfers
  BY <1>8 DEF LedgerFacts, KnowsMoney, Awaited, Transfers
<1>10. ~Visited(c, w)
  BY <1>8 DEF Visited
<1>11. o = IF i > 0 /\ w \notin settled[y] THEN m ELSE 0
  BY <1>2, <1>6, <1>10 DEF Owes
<1>12. p.pending \in Int /\ p.available \in Int
  BY <1>1 DEF Purse
<1>13. PICK n : n = Owes(new, w, y, i, s)
  OBVIOUS
<1>14. PICK a, z : a = Paid(w, y, settled[y]) /\ z = Paid(w, y, s)
  OBVIOUS
<1>15. a \in {0, m} /\ z \in {0, m}
  BY <1>2, <1>14, OwesTyped DEF Call
<1>16. /\ q.pending = p.pending - o + n
       /\ q.available = p.available - a + z
       /\ c.op \notin Transfers => q.available = p.available
  <2>1. CASE c.op = "accept"
    <3>1. i = 0 /\ c.op \notin Transfers
      BY <1>3, <1>8, <2>1 DEF LedgerFacts, KnowsWallet, Transfers
    <3>2. new.at = IF w = "owner" THEN "admin" ELSE "commit"
      BY <1>8, <2>1 DEF Following, WalletRead, SavesFirst
    <3>3. Visited(new, w) /\ new.op = "accept" /\ new.b = y
      BY <1>8, <2>1, <3>2 DEF Visited
    <3>4. n = m
      BY <1>2, <1>13, <3>3 DEF Owes
    <3>5. q.pending = p.pending + m /\ q.available = p.available
      BY <1>5a, <2>1 DEF Gives
    <3>6. o = 0 /\ a = z
      BY <1>11, <1>14, <3>1
    <3> QED BY <1>12, <1>15, <3>1, <3>4, <3>5, <3>6
  <2>2. CASE c.op \in UserCancels
    <3>1. settled[y] = {} /\ c.op \notin Transfers
      BY <1>8, <2>2 DEF LedgerFacts, KnowsMoney, UserCancels, Transfers
    <3>2. i # 0
      BY <1>5, <1>5a, <2>2 DEF Gives
    <3>3. o = m
      BY <1>11, <3>1, <3>2
    <3>4. new.at = IF w = "owner" THEN "admin" ELSE "commit"
      BY <1>8, <2>2 DEF Following, UserCancels, WalletRead, SavesFirst
    <3>5. Visited(new, w) /\ new.op # "accept" /\ new.b = y
      BY <1>8, <2>2, <3>4 DEF Visited, UserCancels
    <3>6. n = 0
      BY <1>13, <3>5 DEF Owes
    <3>7. q.pending = p.pending - m /\ q.available = p.available
      BY <1>7, <1>5a, <2>2, <3>2, <3>3 DEF Gives
    <3>8. a = z
      BY <1>14, <3>1
    <3> QED BY <1>12, <1>15, <3>1, <3>3, <3>6, <3>7, <3>8
  <2>3. CASE c.op \in Transfers
    <3>1. w \notin settled[y] /\ w \in s
      BY <1>8, <2>3 DEF LedgerFacts, KnowsWallet
    <3>2. i # 0
      BY <1>5, <1>5a, <2>3 DEF Gives
    <3>3. o = m
      BY <1>11, <3>1, <3>2
    <3>4. new.b # y \/ ~Visited(new, w)
      BY <2>3 DEF Visited, UserCancels, Transfers
    <3>5. n = 0
      BY <1>13, <3>1, <3>4 DEF Owes
    <3>6. q.pending = p.pending - m /\ q.available = p.available + m
      BY <1>7, <1>5a, <2>3, <3>2, <3>3 DEF Gives
    <3>7. a = 0 /\ z = m
      BY <1>2, <1>14, <3>1 DEF Paid
    <3> QED BY <1>12, <2>3, <3>3, <3>5, <3>6, <3>7
  <2> QED BY <1>9, <2>1, <2>2, <2>3
<1> QED BY <1>1, <1>3, <1>4, <1>6, <1>13, <1>14, <1>16 DEF Settles
LEMMA LedgerSaves ==
  ASSUME OneCall, TypeOK, SerialInv, RefundInv, LedgerInv, NEW r \in Request,
         NEW w \in Party, SaveWallet(r, w), req[r].op # "credit"
  PROVE  LedgerInv'
<1>1. PICK c \in Call : c = req[r] /\ c.op # "credit"
  BY CallTyped
<1>2. PICK y \in Booking : y = c.b
  BY <1>1, CallTyped
<1>3. /\ c.at = At(w) /\ InFlight(r) /\ Proceed(r)
      /\ row' = row /\ income' = income /\ credited' = credited
  BY <1>1 DEF SaveWallet, At, InFlight
<1>4. PICK l : l = Following(c.op, c.at)
  OBVIOUS
<1>5. PICK new : /\ req' = [req EXCEPT ![r] = new] /\ new.at = l
                 /\ l = "idle" \/ (SameCall(new, c) /\ new.pin = c.pin)
  BY <1>1, <1>3, <1>4, GotoIs DEF Proceed
<1>6. new.at = "idle" \/ (new.op = c.op /\ new.b = y /\ new.pin = c.pin)
  BY <1>2, <1>5 DEF SameCall
<1>7. LedgerFacts(c)
  BY <1>1, <1>3, LedgerFactsHold
<1>8. PICK s : s = IF c.op \in Transfers THEN settled[y] \cup {w} ELSE settled[y]
  OBVIOUS
<1>9. Settles(c, new, w, y, s)
  <2>1. new.at = Following(c.op, c.at) /\ (new.at = "idle" \/ (new.op = c.op /\ new.b = y))
    BY <1>4, <1>5, <1>6
  <2> QED BY <1>1, <1>2, <1>3, <1>7, <1>8, <2>1, SaveSettles
<1>10. settled'[y] = s /\ \A v \in Booking : v # y => settled'[v] = settled[v]
  BY <1>1, <1>2, <1>8 DEF SaveWallet, TypeOK
<1>11. /\ wallet'[w].pending = c.buf.pending /\ wallet'[w].available = c.buf.available
       /\ \A x \in Party : x # w => wallet'[x] = wallet[x]
  <2>1. PICK a \in {c.buf.available} \cup
                     (IF c.op \in Transfers \cup {"credit"} THEN {}
                                                        ELSE {wallet[w].available}) :
          wallet' = [wallet EXCEPT ![w] = [pending |-> c.buf.pending, available |-> a]]
    BY <1>1 DEF SaveWallet
  <2>2. a = c.buf.available
    BY <1>9, <2>1 DEF Settles
  <2> QED BY <2>1, <2>2 DEF TypeOK
<1>12. c.op \in {"accept"} \cup UserCancels \cup Transfers
  BY <1>1, <1>3, <1>7 DEF LedgerFacts, KnowsMoney, Awaited, Transfers, At
<1>13. ASSUME NEW x \in Party PROVE Holds(new, x)'
  <2>1. \A v \in Booking \ {y} :
          /\ Owes(new, x, v, income'[v], settled'[v]) = Owes(c, x, v, income[v], settled[v])
          /\ Paid(x, v, settled'[v]) = Paid(x, v, settled[v])
    <3>1. ASSUME NEW v \in Booking, v # y
          PROVE  Owes(new, x, v, income[v], settled[v]) = Owes(c, x, v, income[v], settled[v])
      BY <1>2, <1>6, <3>1, OwesElse DEF Visited
    <3> QED BY <1>3, <1>10, <3>1
  <2>2. Holds(c, x)
    BY <1>7 DEF LedgerFacts
  <2>3. CASE x = w
    <3>1. wallet'[x].pending = wallet[x].pending - Owes(c, x, y, income[y], settled[y])
                                 + Owes(new, x, y, income'[y], settled'[y])
      BY <1>3, <1>9, <1>10, <1>11, <2>3 DEF Settles
    <3>2. wallet'[x].available = wallet[x].available - Paid(x, y, settled[y])
                                   + Paid(x, y, settled'[y])
      BY <1>9, <1>10, <1>11, <2>3 DEF Settles
    <3> QED BY <1>3, <2>1, <2>2, <3>1, <3>2, HoldsChange
  <2>4. CASE x # w
    <3>1. Paid(x, y, settled'[y]) = Paid(x, y, settled[y]) /\ (x \in s <=> x \in settled[y])
      BY <1>8, <1>10, <2>4 DEF Paid
    <3>2. /\ Visited(c, x) => Visited(new, x) /\ new.op = c.op /\ new.b = y
          /\ Visited(new, x) /\ new.b = y => Visited(c, x) /\ new.op = c.op
      <4>1. CASE w = "owner"
        <5>1. x = "admin" /\ c.at = "ownerSave" /\ new.at = "admin"
          BY <1>1, <1>3, <1>4, <1>5, <2>4, <4>1 DEF At, Party, Following
        <5> QED BY <5>1 DEF Visited
      <4>2. CASE w = "admin"
        <5>1. x = "owner" /\ c.at = "adminSave"
              /\ new.at = IF c.op = "validate" THEN "idle" ELSE "commit"
          BY <1>1, <1>3, <1>4, <1>5, <2>4, <4>2 DEF At, Party, Following, WalletRead, SavesFirst
        <5> QED BY <1>6, <5>1 DEF Visited, UserCancels
      <4> QED BY <4>1, <4>2 DEF Party
    <3>3. Owes(new, x, y, income[y], s) = Owes(c, x, y, income[y], settled[y])
      BY <1>2, <1>6, <3>1, <3>2 DEF Owes, Visited
    <3>4. \A v \in Booking :
            /\ Owes(new, x, v, income'[v], settled'[v]) = Owes(c, x, v, income[v], settled[v])
            /\ Paid(x, v, settled'[v]) = Paid(x, v, settled[v])
      BY <1>3, <1>10, <2>1, <3>1, <3>3
    <3> QED BY <1>3, <1>11, <2>2, <2>4, <3>4, HoldsStill
  <2> QED BY <2>3, <2>4
<1>14. KnowsWallet(new)'
  <2>1. \A x \in Party : new.at # At(x)
    BY <1>3, <1>4, <1>5 DEF Following, At, WalletRead
  <2>2. new.op = "accept" /\ new.at # "idle" => income'[new.b] = 0 /\ settled'[new.b] = {}
    BY <1>2, <1>3, <1>6, <1>7, <1>8, <1>10 DEF LedgerFacts, KnowsWallet, Transfers, At
  <2>3. new.op \in Transfers =>
          /\ new.at \notin {"owner", "ownerSave"}
          /\ new.at \in {"admin", "adminSave"} => "admin" \notin settled'[new.b]
    <3>1. new.at \notin {"owner", "ownerSave"}
      BY <1>3, <1>4, <1>5 DEF Following, At, WalletRead
    <3>2. new.at \in {"admin", "adminSave"} => w = "owner" /\ c.at = "ownerSave"
      BY <1>3, <1>4, <1>5 DEF Following, At, WalletRead, Party
    <3> QED BY <1>2, <1>6, <1>7, <1>8, <1>10, <3>1, <3>2 DEF LedgerFacts, KnowsWallet
  <2>4. new.at # "idle" => ~new.pin /\ new.op # "credit"
    BY <1>1, <1>3, <1>6, <1>7 DEF LedgerFacts, KnowsWallet, At
  <2> QED BY <2>1, <2>2, <2>3, <2>4 DEF KnowsWallet, At
<1>15. \A b \in Booking : Recorded(b)'
  BY <1>3 DEF LedgerInv, Recorded
<1> QED BY <1>5, <1>13, <1>14, <1>15, LedgerStep

\* The webhook's credit: it is the owner's, beside what the bookings settle.
LEMMA LedgerCredits ==
  ASSUME OneCall, TypeOK, SerialInv, RefundInv, LedgerInv, NEW r \in Request,
         NEW w \in Party, SaveWallet(r, w), req[r].op = "credit"
  PROVE  LedgerInv'
<1>1. PICK c \in Call : c = req[r] /\ c.op = "credit"
  BY CallTyped
<1>2. PICK y \in Booking : y = c.b
  BY <1>1, CallTyped
<1>3. /\ c.at = At(w) /\ InFlight(r) /\ Proceed(r)
      /\ row' = row /\ income' = income /\ settled' = settled
      /\ credited' = [credited EXCEPT ![y] = @ + Price[y]]
  BY <1>1, <1>2 DEF SaveWallet, At, InFlight, Transfers
<1>4. LedgerFacts(c)
  BY <1>1, <1>3, LedgerFactsHold
<1>5. w = "owner" /\ Following(c.op, c.at) = "idle"
  <2>1. w = "owner"
    BY <1>1, <1>3, <1>4 DEF LedgerFacts, KnowsWallet, At, Party
  <2> QED BY <1>1, <1>3, <2>1 DEF At, Following
<1>6. PICK new : req' = [req EXCEPT ![r] = new] /\ new.at = "idle"
  BY <1>1, <1>3, <1>5, GotoIs DEF Proceed
<1>7. PICK n \in Nat \ {0} : n = Price[y]
  BY AmountAssumption
<1>8. /\ wallet'["owner"].pending = wallet["owner"].pending
      /\ wallet'["owner"].available = wallet["owner"].available + n
      /\ wallet'["admin"] = wallet["admin"]
  <2>1. PICK p \in Purse : p = wallet["owner"]
    BY DEF TypeOK, Party
  <2>2. c.buf = [pending |-> p.pending, available |-> p.available + n]
    <3>1. c.buf = WalletCall("credit", p, Added("credit", y), income[y] * Share[y])
      BY <1>1, <1>2, <1>3, <1>4, <1>5, <2>1 DEF LedgerFacts, KnowsWallet
    <3>2. Added("credit", y) = n
      BY <1>7, AddedTyped
    <3>3. c.buf = [p EXCEPT !.available = @ + n]
      BY <3>1, <3>2 DEF WalletCall, AddAvailable
    <3> QED BY <3>3 DEF Purse
  <2>3. PICK x \in {c.buf.pending, p.pending} :
          wallet' = [wallet EXCEPT !["owner"] =
                       [pending |-> x, available |-> c.buf.available]]
    BY <1>1, <1>5, <2>1 DEF SaveWallet
  <2> QED BY <2>1, <2>2, <2>3 DEF TypeOK, Party
<1>9. \A x \in Party : ~Visited(c, x) /\ ~Visited(new, x)
  BY <1>1, <1>6 DEF Visited, UserCancels
<1>10. ASSUME NEW x \in Party PROVE Holds(new, x)'
  <2>1. Owed(new, x)' = Owed(c, x) /\ PaidOut(x)' = PaidOut(x)
    BY <1>3, <1>9 DEF Owed, PaidOut, Owes, Paid, Visited
  <2>2. Holds(c, x)
    BY <1>4 DEF LedgerFacts
  <2>3. CASE x = "owner"
    <3>1. IsFiniteSet(Booking) /\ \A b \in Booking : credited[b] \in Int
      BY DEF OneCall, TypeOK
    <3>2. PICK h : h = [credited EXCEPT ![y] = @ + n]
      OBVIOUS
    <3>3. /\ \A b \in Booking : h[b] \in Int
          /\ h[y] = credited[y] + n /\ \A b \in Booking \ {y} : h[b] = credited[b]
      BY <3>2 DEF TypeOK
    <3>4. Total(h, Booking) = Total(credited, Booking) - credited[y] + h[y]
      BY <3>1, <3>3, TotalChange
    <3>5. PICK k \in Int : k = Total(credited, Booking)
      BY <3>1, TotalInt
    <3>6. Total(h, Booking) = k + n
      BY <3>1, <3>3, <3>4, <3>5
    <3>7. Gifts(x) = k /\ Gifts(x)' = k + n
      BY <1>3, <1>7, <2>3, <3>2, <3>5, <3>6 DEF Gifts
    <3>8. PICK g : g = PaidOut(x)
      OBVIOUS
    <3>9. \A b \in Booking : g[b] \in Int
      BY <3>8, OwesTyped DEF PaidOut
    <3>10. PICK m \in Int : m = Total(PaidOut(x), Booking)
      BY <3>1, <3>8, <3>9, TotalInt
    <3>11. wallet'[x].available = m + (k + n)
      BY <1>8, <2>2, <2>3, <3>7, <3>10 DEF Holds
    <3> QED BY <1>8, <2>1, <2>2, <2>3, <3>7, <3>10, <3>11 DEF Holds
  <2>4. CASE x = "admin"
    <3>1. Gifts(x) = 0 /\ Gifts(x)' = 0
      BY <2>4 DEF Gifts
    <3> QED BY <1>8, <2>1, <2>2, <2>4, <3>1 DEF Holds
  <2> QED BY <2>3, <2>4 DEF Party
<1>11. KnowsWallet(new)'
  BY <1>6 DEF KnowsWallet, At
<1>12. \A b \in Booking : Recorded(b)'
  BY <1>3 DEF LedgerInv, Recorded
<1> QED BY <1>6, <1>10, <1>11, <1>12, LedgerStep

\* A step of a call to y that touches no wallet.
LEMMA LedgerKeeps ==
  ASSUME OneCall, TypeOK, LedgerInv, NEW r \in Request, NEW new,
         req' = [req EXCEPT ![r] = new], NEW y \in Booking,
         req[r].at = "idle" \/ req[r].b = y, new.at = "idle" \/ new.b = y,
         UNCHANGED <<wallet, settled, credited>>,
         \A v \in Booking : v # y => row'[v] = row[v] /\ income'[v] = income[v],
         \A w \in Party : Owes(new, w, y, income'[y], settled[y])
                            = Owes(req[r], w, y, income[y], settled[y]),
         KnowsWallet(new)', Recorded(y)'
  PROVE  LedgerInv'
<1>1. PICK c : c = req[r]
  OBVIOUS
<1>2. ASSUME NEW w \in Party PROVE Holds(new, w)'
  <2>1. ASSUME NEW v \in Booking
        PROVE  /\ Owes(new, w, v, income'[v], settled'[v]) = Owes(c, w, v, income[v], settled[v])
               /\ Paid(w, v, settled'[v]) = Paid(w, v, settled[v])
    <3>1. CASE v = y
      BY <1>1, <3>1
    <3>2. CASE v # y
      <4>1. Owes(new, w, v, income[v], settled[v]) = Owes(c, w, v, income[v], settled[v])
        <5>1. (c.b # v \/ ~Visited(c, w)) /\ (new.b # v \/ ~Visited(new, w))
          BY <1>1, <3>2 DEF Visited
        <5> QED BY <5>1, OwesElse
      <4> QED BY <3>2, <4>1
    <3> QED BY <3>1, <3>2
  <2>2. Holds(c, w)
    BY <1>1 DEF LedgerInv
  <2> QED BY <2>1, <2>2, HoldsStill
<1>3. \A b \in Booking : Recorded(b)'
  BY DEF LedgerInv, Recorded
<1> QED BY <1>2, <1>3, LedgerStep

LEMMA LedgerReads ==
  ASSUME OneCall, TypeOK, SerialInv, RefundInv, LedgerInv, NEW r \in Request,
         NEW w \in Party, ReadWallet(r, w)
  PROVE  LedgerInv'
<1>1. PICK c \in Call : c = req[r]
  BY CallTyped
<1>2. PICK y \in Booking : y = c.b
  BY <1>1, CallTyped
<1>3. /\ c.at = w /\ w \in {"owner", "admin"} /\ InFlight(r)
      /\ row' = row /\ income' = income /\ wallet' = wallet /\ settled' = settled
      /\ credited' = credited
  BY <1>1 DEF ReadWallet, InFlight, Party
<1>4. LedgerFacts(c)
  BY <1>1, <1>3, LedgerFactsHold
<1>5. PICK p \in Purse : p = wallet[w]
  BY DEF TypeOK
<1>6. PICK m \in Nat \ {0} : m = Added(c.op, y) /\ (c.op # "credit" => m = Share[y])
  BY AddedTyped
<1>7. PICK i \in {0, 1} : i = income[y]
  BY <1>2, <1>4 DEF LedgerFacts
<1>8. PICK q : q = WalletCall(c.op, p, m, i * Share[y])
  OBVIOUS
<1>9. Gives(c.op, p, m, i, q)
  <2>1. PICK total : total = i * Share[y]
    OBVIOUS
  <2>2. q = WalletCall(c.op, p, m, total) /\ (c.op # "credit" => total = i * m)
    BY <1>6, <1>8, <2>1
  <2> QED BY <2>2, CallGives
<1>10. c.op \in {"accept", "credit"} \cup UserCancels \cup Transfers
  BY <1>3, <1>4 DEF LedgerFacts, KnowsMoney, Awaited, Transfers
<1>11. ~Visited(c, w)
  BY <1>3, <1>10 DEF Visited
<1>12. Recorded(y)'
  BY <1>3 DEF LedgerInv, Recorded
<1>13. CASE q = p
  <2>1. Proceed(r)
    BY <1>1, <1>2, <1>3, <1>5, <1>6, <1>7, <1>8, <1>13 DEF ReadWallet
  <2>2. PICK l : l = Following(c.op, c.at)
    OBVIOUS
  <2>3. PICK new : /\ req' = [req EXCEPT ![r] = new] /\ new.at = l
                   /\ l = "idle" \/ (SameCall(new, c) /\ new.pin = c.pin)
    BY <1>1, <2>1, <2>2, GotoIs DEF Proceed
  <2>4. new.at = "idle" \/ (new.op = c.op /\ new.b = y /\ new.pin = c.pin)
    BY <1>2, <2>3 DEF SameCall
  <2>5. c.op \notin {"accept", "credit"} /\ c.op \in UserCancels \cup Transfers
    BY <1>9, <1>10, <1>13 DEF Gives
  <2>6. new.at = IF w = "owner" THEN "admin" ELSE IF c.op = "validate" THEN "idle" ELSE "commit"
    BY <1>3, <2>2, <2>3, <2>5 DEF Following, SavesFirst
  <2>7. p.pending >= Owes(c, w, y, i, settled[y])
    BY <1>2, <1>4, <1>5, <1>7, Covers DEF LedgerFacts
  <2>8. i = 0
    <3>1. w \notin settled[y]
      BY <1>2, <1>3, <1>4, <2>5 DEF LedgerFacts, KnowsWallet, KnowsMoney
    <3>2. i = 1 => Owes(c, w, y, i, settled[y]) = m
      BY <1>6, <1>11, <2>5, <3>1 DEF Owes
    <3> QED BY <1>9, <1>13, <2>5, <2>7, <3>2 DEF Gives
  <2>9. \A x \in Party : Owes(new, x, y, i, settled[y]) = 0 /\ Owes(c, x, y, i, settled[y]) = 0
    <3>1. new.at # "idle" => new.op # "accept"
      BY <2>4, <2>5
    <3> QED BY <2>5, <2>8, <3>1 DEF Owes, Visited
  <2>10. KnowsWallet(new)'
    <3>1. /\ \A x \in Party : new.at # At(x)
          /\ new.at \notin {"owner", "ownerSave", "adminSave"}
          /\ new.at = "admin" => w = "owner"
      BY <1>3, <2>6 DEF At
    <3>2. new.at # "idle" => new.op \notin {"accept", "credit"} /\ ~new.pin
      BY <1>3, <1>4, <2>4, <2>5 DEF LedgerFacts, KnowsWallet
    <3>3. new.op \in Transfers /\ new.at = "admin" => settled[new.b] = {}
      BY <1>2, <1>3, <1>4, <2>4, <3>1 DEF LedgerFacts, KnowsWallet
    <3> QED BY <1>3, <3>1, <3>2, <3>3 DEF KnowsWallet, At
  <2>11. \A x \in Party : Owes(new, x, y, income'[y], settled[y])
                            = Owes(req[r], x, y, income[y], settled[y])
    BY <1>1, <1>3, <1>7, <2>9
  <2>12. req[r].b = y /\ (new.at = "idle" \/ new.b = y)
    BY <1>1, <1>2, <2>4
  <2> QED BY <1>3, <1>12, <2>3, <2>10, <2>11, <2>12, LedgerKeeps
<1>14. CASE q # p
  <2>1. req' = [req EXCEPT ![r] = [@ EXCEPT !.at = At(w), !.buf = q]]
    BY <1>1, <1>2, <1>5, <1>6, <1>7, <1>8, <1>14 DEF ReadWallet, At
  <2>2. PICK new : new = [c EXCEPT !.at = At(w), !.buf = q]
    OBVIOUS
  <2>3. /\ req' = [req EXCEPT ![r] = new] /\ new.at = At(w) /\ new.buf = q
        /\ new.op = c.op /\ new.b = y /\ new.pin = c.pin
    BY <1>1, <1>2, <2>1, <2>2 DEF Call
  <2>4. \A x \in Party : Visited(new, x) <=> Visited(c, x)
    BY <1>3, <2>3 DEF Visited, At, Party
  <2>5. \A x \in Party : Owes(new, x, y, income'[y], settled[y])
                           = Owes(req[r], x, y, income[y], settled[y])
    BY <1>1, <1>2, <1>3, <2>3, <2>4 DEF Owes
  <2>6. KnowsWallet(new)'
    <3>1. \A x \in Party : new.at = At(x) =>
            /\ new.buf = WalletCall(new.op, wallet'[x], Added(new.op, new.b), income'[new.b] * Share[new.b])
            /\ new.buf # wallet'[x]
      <4>1. \A x \in Party : new.at = At(x) => x = w
        BY <1>3, <2>3 DEF At, Party
      <4> QED BY <1>3, <1>5, <1>6, <1>7, <1>8, <1>14, <2>3, <4>1
    <3>2. /\ new.op = "accept" /\ new.at # "idle" => income'[new.b] = 0 /\ settled'[new.b] = {}
          /\ new.at # "idle" => ~new.pin
          /\ new.op = "credit" => new.at \notin {"admin", "adminSave"}
      BY <1>2, <1>3, <1>4, <2>3 DEF LedgerFacts, KnowsWallet, At
    <3>3. new.op \in Transfers =>
            /\ new.at \in {"owner", "ownerSave"} => settled'[new.b] = {}
            /\ new.at \in {"admin", "adminSave"} => "admin" \notin settled'[new.b]
      BY <1>2, <1>3, <1>4, <2>3 DEF LedgerFacts, KnowsWallet, At
    <3> QED BY <3>1, <3>2, <3>3 DEF KnowsWallet, At
  <2>7. req[r].b = y /\ new.b = y
    BY <1>1, <1>2, <2>3
  <2> QED BY <1>3, <1>12, <2>3, <2>5, <2>6, <2>7, LedgerKeeps
<1> QED BY <1>13, <1>14
\* A cancellation goes on before it has been to a wallet, or a call ends there.
LEMMA LedgerRefunds ==
  ASSUME OneCall, TypeOK, SerialInv, RefundInv, LedgerInv, NEW r \in Request,
         LockRow(r) \/ ReleaseHold(r) \/ RefundCaptured(r) \/ NothingToRefund(r)
           \/ RefundRefused(r)
  PROVE  LedgerInv'
<1>1. PICK c \in Call : c = req[r]
  BY CallTyped
<1>2. PICK y \in Booking : y = c.b
  BY <1>1, CallTyped
<1>3. /\ c.at \in {"lock", "refund"} /\ InFlight(r)
      /\ row' = row /\ income' = income /\ wallet' = wallet /\ settled' = settled
      /\ credited' = credited
  BY <1>1 DEF LockRow, ReleaseHold, RefundCaptured, NothingToRefund, RefundRefused, InFlight
<1>4. LedgerFacts(c)
  BY <1>1, <1>3, LedgerFactsHold
<1>5. c.op \in UserCancels /\ ~c.pin
  BY <1>3, <1>4 DEF LedgerFacts, KnowsMoney, KnowsWallet
<1>6. PICK new : /\ req' = [req EXCEPT ![r] = new] /\ new.at \in {"idle", "refund", "owner"}
                 /\ new.at = "idle" \/ (new.op = c.op /\ new.b = y /\ ~new.pin)
  <2>1. CASE LockRow(r) \/ ReleaseHold(r)
    <3>1. PICK l : l = Following(c.op, c.at)
      OBVIOUS
    <3>2. PICK new : /\ req' = [req EXCEPT ![r] = new] /\ new.at = l
                     /\ l = "idle" \/ (SameCall(new, c) /\ new.pin = c.pin)
      BY <1>1, <2>1, <3>1, GotoIs DEF LockRow, ReleaseHold, Proceed
    <3>3. l \in {"refund", "owner"}
      BY <1>3, <1>5, <3>1 DEF Following, UserCancels
    <3> QED BY <1>2, <1>5, <3>2, <3>3 DEF SameCall
  <2>2. CASE RefundCaptured(r) \/ NothingToRefund(r)
    <3>1. PICK pin \in BOOLEAN :
            /\ pin => ForeignKeys
            /\ req' = [req EXCEPT ![r] =
                 [@ EXCEPT !.at = Following(req[r].op, "refund"), !.pin = pin]]
      BY <2>2 DEF RefundCaptured, NothingToRefund, RecordRefund
    <3>2. ~pin /\ Following(c.op, "refund") = "owner"
      BY <1>5, <3>1 DEF OneCall, Following, UserCancels
    <3>3. PICK new : new = [c EXCEPT !.at = "owner", !.pin = pin]
      OBVIOUS
    <3>4. req' = [req EXCEPT ![r] = new]
      BY <1>1, <3>1, <3>2, <3>3
    <3>5. new.at = "owner" /\ new.op = c.op /\ new.b = y /\ ~new.pin
      BY <1>2, <3>2, <3>3 DEF Call
    <3> QED BY <3>4, <3>5
  <2>3. CASE RefundRefused(r)
    BY <2>3, GotoIs DEF RefundRefused, Abort
  <2> QED BY <2>1, <2>2, <2>3
<1>7. \A x \in Party : ~Visited(c, x) /\ ~Visited(new, x)
  BY <1>3, <1>6 DEF Visited
<1>8. \A x \in Party : Owes(new, x, y, income'[y], settled[y])
                         = Owes(req[r], x, y, income[y], settled[y])
  BY <1>1, <1>3, <1>7 DEF Owes
<1>9. KnowsWallet(new)'
  <2>1. \A x \in Party : new.at # At(x)
    BY <1>6 DEF At
  <2>2. new.at # "idle" => new.op \notin Transfers \cup {"accept", "credit"} /\ ~new.pin
    BY <1>5, <1>6 DEF UserCancels, Transfers
  <2> QED BY <2>1, <2>2 DEF KnowsWallet, At, Transfers
<1>10. Recorded(y)'
  BY <1>3 DEF LedgerInv, Recorded
<1>11. req[r].b = y /\ (new.at = "idle" \/ new.b = y)
  BY <1>1, <1>2, <1>6
<1> QED BY <1>3, <1>6, <1>8, <1>9, <1>10, <1>11, LedgerKeeps

\* No handler makes a booking PENDING again.
LEMMA NotPendingAgain ==
  ASSUME NEW op \in Op, NEW e \in Row, Guard(op, e), e.status # "PENDING" \/ op \notin {"claim"} \cup Notices
  PROVE  Assign(op, e).status # "PENDING"
<1>1. CASE op \in {"accept", "confirm", "validate", "complete", "autoComplete", "payout"}
  BY <1>1 DEF Assign, Accepted, Validated, Row
<1>2. CASE op \in {"return", "pickup", "report"}
  BY <1>2 DEF Guard, MayReturn, MayPickUp, MayReport, Assign, Returned, PickedUp, Reported, Row
<1>3. CASE op = "claim"
  BY <1>3 DEF Assign, Claimed, Row
<1>4. CASE op \in {"depositCancel", "renterCancel", "ownerCancel", "adminCancel"}
  BY <1>4 DEF Assign, RefusedByOwner, Row
<1>5. CASE op \in Notices
  BY <1>5 DEF Assign, Notices
<1> QED BY <1>1, <1>2, <1>3, <1>4, <1>5 DEF Op, Notices

\* The revenue rows are inserted with the booking they are for.
LEMMA LedgerCommits ==
  ASSUME OneCall, TypeOK, SerialInv, RefundInv, LedgerInv, NEW r \in Request,
         CommitAccept(r) \/ CommitAdminCancel(r) \/ Commit(r)
  PROVE  LedgerInv'
<1>1. PICK c \in Call : c = req[r]
  BY CallTyped
<1>2. PICK y \in Booking : y = c.b
  BY <1>1, CallTyped
<1>3. SaveRow(r) /\ c.at = "commit" /\ InFlight(r)
  BY <1>1 DEF CommitAccept, CommitAdminCancel, Commit, InFlight
<1>4. Faithful(c) /\ ~Saved(c)
  BY <1>1, <1>3 DEF SerialInv, Saved
<1>5. row'[y] = Assign(c.op, row[y]) /\ \A v \in Booking : v # y => row'[v] = row[v]
  BY <1>1, <1>2, <1>3, <1>4, SavesRow
<1>6. Guard(c.op, row[y]) /\ row[y] \in Row /\ c.op \in Op
  BY <1>1, <1>2, <1>4, CallTyped DEF Faithful, TypeOK
<1>7. LedgerFacts(c)
  BY <1>1, <1>3, LedgerFactsHold
<1>8. c.op # "adminCancel"
  BY <1>3, <1>7 DEF LedgerFacts, KnowsMoney
<1>9. /\ Proceed(r) /\ wallet' = wallet /\ settled' = settled /\ credited' = credited
      /\ income' = IF c.op = "accept" THEN [income EXCEPT ![y] = @ + 1] ELSE income
  BY <1>1, <1>2, <1>8 DEF CommitAccept, CommitAdminCancel, Commit
<1>10. PICK l : l = Following(c.op, "commit")
  OBVIOUS
<1>11. PICK new : /\ req' = [req EXCEPT ![r] = new] /\ new.at = l
                  /\ l = "idle" \/ (SameCall(new, c) /\ new.pin = c.pin)
  BY <1>1, <1>3, <1>9, <1>10, GotoIs DEF Proceed
<1>12. new.at = "idle" \/ (new.op = c.op /\ new.b = y /\ new.pin = c.pin)
  BY <1>2, <1>11 DEF SameCall
<1>13. l = IF c.op \in UserCancels THEN "cleanup" ELSE IF c.op \in SavesFirst THEN "owner" ELSE "idle"
  BY <1>10 DEF Following, UserCancels
<1>14. PICK i \in {0, 1} : i = income[y]
  BY <1>2, <1>7 DEF LedgerFacts
<1>15. PICK j : j = income'[y]
  OBVIOUS
<1>16. /\ j = IF c.op = "accept" THEN 1 ELSE i
       /\ c.op = "accept" => i = 0 /\ settled[y] = {}
       /\ \A v \in Booking : v # y => income'[v] = income[v]
  <2>1. c.op = "accept" => i = 0 /\ settled[y] = {}
    BY <1>2, <1>3, <1>7, <1>14 DEF LedgerFacts, KnowsWallet
  <2>2. CASE c.op = "accept"
    BY <1>9, <1>14, <1>15, <2>1, <2>2 DEF TypeOK
  <2>3. CASE c.op # "accept"
    BY <1>9, <1>14, <1>15, <2>3
  <2> QED BY <2>1, <2>2, <2>3
<1>17. \A x \in Party : Owes(new, x, y, income'[y], settled[y])
                          = Owes(req[r], x, y, income[y], settled[y])
  <2>1. CASE c.op = "accept"
    <3>1. \A x \in Party : Visited(c, x) /\ ~Visited(new, x)
      BY <1>3, <1>11, <1>13, <2>1 DEF Visited, UserCancels, SavesFirst
    <3> QED BY <1>1, <1>2, <1>15, <1>16, <2>1, <3>1 DEF Owes
  <2>2. CASE c.op \in UserCancels
    <3>1. \A x \in Party : Visited(c, x) /\ Visited(new, x) /\ new.b = y
          /\ new.op # "accept" /\ c.op # "accept"
      BY <1>3, <1>11, <1>12, <1>13, <2>2 DEF Visited, UserCancels
    <3> QED BY <1>1, <1>2, <3>1 DEF Owes
  <2>3. CASE c.op # "accept" /\ c.op \notin UserCancels
    <3>1. \A x \in Party : ~Visited(c, x) /\ ~Visited(new, x)
      BY <1>11, <1>12, <1>13, <2>3 DEF Visited, UserCancels
    <3> QED BY <1>1, <1>14, <1>15, <1>16, <2>3, <3>1 DEF Owes
  <2> QED BY <2>1, <2>2, <2>3
<1>18. KnowsWallet(new)'
  <2>1. \A x \in Party : new.at # At(x)
    BY <1>11, <1>13 DEF At
  <2>2. new.at # "idle" =>
          /\ new.op # "accept" /\ ~new.pin
          /\ new.op = "credit" => new.at = "owner"
    BY <1>3, <1>7, <1>11, <1>12, <1>13
       DEF LedgerFacts, KnowsWallet, UserCancels, SavesFirst
  <2>3. new.op \in Transfers /\ new.at # "idle" => new.at = "owner" /\ settled[y] = {} /\ new.b = y
    <3>1. SUFFICES ASSUME new.op \in Transfers, new.at # "idle"
                   PROVE  new.at = "owner" /\ settled[y] = {} /\ new.b = y
      OBVIOUS
    <3>2. c.op = "validate" /\ new.b = y /\ new.at = "owner"
      BY <1>11, <1>12, <1>13, <3>1 DEF Transfers, UserCancels, SavesFirst
    <3>3. row[y].status = "ACCEPTED" /\ ~PayingOut(c, y)
      BY <1>6, <3>2 DEF Guard, MayValidate, PayingOut
    <3> QED BY <1>2, <1>7, <3>2, <3>3 DEF LedgerFacts, MoneyHolds
  <2> QED BY <1>9, <2>1, <2>2, <2>3 DEF KnowsWallet, At, Transfers
<1>19. Recorded(y)'
  <2>1. row'[y].status = "PENDING" => row[y].status = "PENDING" /\ c.op # "accept"
    <3>1. CASE c.op \in {"claim"} \cup Notices
      BY <1>5, <1>6, <3>1 DEF Assign, Claimed, Row, Notices
    <3>2. CASE c.op \notin {"claim"} \cup Notices
      BY <1>5, <1>6, <3>2, NotPendingAgain
    <3> QED BY <3>1, <3>2
  <2>2. row[y].status = "PENDING" => i = 0
    BY <1>2, <1>7, <1>14 DEF LedgerFacts
  <2> QED BY <1>14, <1>15, <1>16, <2>1, <2>2 DEF Recorded
<1>20. req[r].b = y /\ (new.at = "idle" \/ new.b = y)
  BY <1>1, <1>2, <1>12
<1> QED BY <1>5, <1>9, <1>11, <1>16, <1>17, <1>18, <1>19, <1>20, LedgerKeeps

LEMMA LedgerCleans ==
  ASSUME OneCall, TypeOK, SerialInv, RefundInv, LedgerInv, NEW r \in Request, Cleanup(r)
  PROVE  LedgerInv'
<1>1. PICK c \in Call : c = req[r]
  BY CallTyped
<1>2. PICK y \in Booking : y = c.b
  BY <1>1, CallTyped
<1>3. /\ c.at = "cleanup" /\ InFlight(r) /\ row' = row /\ wallet' = wallet /\ settled' = settled
      /\ income' = [income EXCEPT ![y] = 0] /\ credited' = credited
  BY <1>1, <1>2 DEF Cleanup, InFlight
<1>4. LedgerFacts(c)
  BY <1>1, <1>3, LedgerFactsHold
<1>5. c.op \in UserCancels
  BY <1>3, <1>4 DEF LedgerFacts, KnowsMoney
<1>6. Goto(r, "idle")
  BY <1>1, <1>3, CallTyped DEF Cleanup, Proceed, Following
<1>7. PICK new : req' = [req EXCEPT ![r] = new] /\ new.at = "idle"
  BY <1>6, GotoIs
<1>8. income'[y] = 0 /\ \A v \in Booking : v # y => row'[v] = row[v] /\ income'[v] = income[v]
  BY <1>3 DEF TypeOK
<1>9. \A x \in Party : Owes(new, x, y, income'[y], settled[y])
                         = Owes(req[r], x, y, income[y], settled[y])
  <2>1. c.op # "accept" /\ \A x \in Party : Visited(c, x) /\ ~Visited(new, x)
    BY <1>3, <1>5, <1>7 DEF Visited, UserCancels
  <2> QED BY <1>1, <1>2, <1>8, <2>1 DEF Owes
<1>10. KnowsWallet(new)'
  BY <1>7 DEF KnowsWallet, At
<1>11. Recorded(y)'
  BY <1>8 DEF Recorded
<1>12. req[r].b = y
  BY <1>1, <1>2
<1> QED BY <1>3, <1>7, <1>8, <1>9, <1>10, <1>11, <1>12, LedgerKeeps

LEMMA LedgerLoads ==
  ASSUME OneCall, TypeOK, SerialInv, RefundInv, LedgerInv, NEW r \in Request, NEW op \in Op,
         NEW b \in Booking, Load(r, op, b)
  PROVE  LedgerInv'
<1>1. PICK new : req' = [req EXCEPT ![r] = new] /\ Loaded(new, op, b)
  BY LoadIs
<1>2. new.op = op /\ new.b = b /\ new.at = First(op) /\ new.pin = FALSE
  BY <1>1 DEF Loaded
<1>3. /\ row' = row /\ income' = income /\ wallet' = wallet /\ settled' = settled
      /\ credited' = credited
      /\ Guard(op, row[b]) /\ req[r].at = "idle" /\ <<op, row[b].status>> \in Offered
  BY DEF Load, InFlight
<1>4. op = "payout" => row[b].status = "ACCEPTED"
  BY <1>3 DEF OneCall, OnScreens, TypeOK, Row
<1>5. row[b].status \in {"PENDING", "ACCEPTED"} => settled[b] = {}
  <2>1. \A q \in Request : ~PayingOut(req[q], b)
    BY <1>3, OneOnly DEF PayingOut
  <2> QED BY <2>1 DEF RefundInv
<1>6. \A x \in Party : Owes(new, x, b, income'[b], settled[b])
                         = Owes(req[r], x, b, income[b], settled[b])
  <2>1. \A x \in Party : ~Visited(new, x) /\ ~Visited(req[r], x)
    BY <1>2, <1>3 DEF Visited, First, UserCancels
  <2> QED BY <1>3, <2>1 DEF Owes
<1>7. Recorded(b)
  BY DEF LedgerInv
<1>8. KnowsWallet(new)'
  <2>1. \A x \in Party : new.at # At(x)
    BY <1>2 DEF First, At
  <2>2. op = "accept" => income[b] = 0 /\ settled[b] = {}
    BY <1>3, <1>5, <1>7 DEF Guard, MayAccept, Recorded
  <2>3. op \in Transfers => new.at # "admin" /\ (new.at = "owner" => settled[b] = {})
    BY <1>2, <1>4, <1>5 DEF First, Transfers
  <2> QED BY <1>2, <1>3, <2>1, <2>2, <2>3 DEF KnowsWallet, At, First
<1>9. Recorded(b)'
  BY <1>3, <1>7 DEF Recorded
<1> QED BY <1>1, <1>2, <1>3, <1>6, <1>8, <1>9, LedgerKeeps

\* A webhook's save is refused.
LEMMA LedgerDropped ==
  ASSUME OneCall, TypeOK, LedgerInv, NEW r \in Request, EnumRefused(r)
  PROVE  LedgerInv'
<1>1. PICK c \in Call : c = req[r]
  BY CallTyped
<1>2. PICK y \in Booking : y = c.b
  BY <1>1, CallTyped
<1>3. /\ c.op \in Notices /\ row' = row /\ income' = income
      /\ wallet' = wallet /\ settled' = settled /\ credited' = credited
  BY <1>1 DEF EnumRefused
<1>4. PICK new : req' = [req EXCEPT ![r] = new] /\ new.at = "idle"
  BY GotoIs DEF EnumRefused, Abort
<1>5. \A x \in Party : ~Visited(c, x) /\ ~Visited(new, x)
  BY <1>3, <1>4 DEF Visited, UserCancels, Notices
<1>6. \A x \in Party : Owes(new, x, y, income'[y], settled[y])
                         = Owes(req[r], x, y, income[y], settled[y])
  BY <1>1, <1>3, <1>5 DEF Owes
<1>7. KnowsWallet(new)'
  BY <1>4 DEF KnowsWallet, At
<1>8. Recorded(y)'
  BY <1>3 DEF LedgerInv, Recorded
<1> QED BY <1>1, <1>2, <1>3, <1>4, <1>6, <1>7, <1>8, LedgerKeeps

LEMMA LedgerNext ==
  ASSUME OneCall, TypeOK, SerialInv, RefundInv, LedgerInv, [Next]_vars
  PROVE  LedgerInv'
<1>1. ~(faults < MaxFaults)
  BY DEF OneCall, OnScreens, TypeOK
<1>2. ASSUME NEW r \in Request, Progress(r) PROVE LedgerInv'
  <2>1. CASE \E w \in Party : ReadWallet(r, w) \/ SaveWallet(r, w)
    BY <2>1, LedgerReads, LedgerSaves, LedgerCredits
  <2>2. CASE WalletTimeout(r)
    BY <2>2 DEF WalletTimeout, LedgerInv, KnowsWallet
  <2>3. CASE LockRow(r) \/ ReleaseHold(r) \/ RefundCaptured(r) \/ NothingToRefund(r)
               \/ RefundRefused(r)
    BY <2>3, LedgerRefunds
  <2>4. CASE CommitAccept(r) \/ CommitAdminCancel(r) \/ Commit(r)
    BY <2>4, LedgerCommits
  <2>5. CASE Cleanup(r)
    BY <2>5, LedgerCleans
  <2>6. CASE EnumRefused(r)
    BY <2>6, LedgerDropped
  <2> QED BY <1>2, <2>1, <2>2, <2>3, <2>4, <2>5, <2>6 DEF Progress
<1>3. ASSUME UNCHANGED <<row, income, wallet, settled, credited, req>> PROVE LedgerInv'
  <2>1. ASSUME NEW r \in Request PROVE KnowsWallet(req[r])' /\ \A w \in Party : Holds(req[r], w)'
    <3>1. PICK c : c = req[r]
      OBVIOUS
    <3>2. KnowsWallet(c) /\ \A w \in Party : Holds(c, w)
      BY <3>1 DEF LedgerInv
    <3>3. KnowsWallet(c)'
      BY <1>3, <3>2 DEF KnowsWallet
    <3>4. \A w \in Party : Holds(c, w)'
      BY <1>3, <3>2 DEF Holds, Owed, PaidOut, Gifts
    <3>5. req'[r] = c
      BY <1>3, <3>1
    <3> QED BY <3>3, <3>4, <3>5
  <2> QED BY <1>3, <2>1 DEF LedgerInv, Recorded
<1>4. ASSUME NEW b \in Booking, Capture(b) PROVE LedgerInv'
  BY <1>3, <1>4 DEF Capture
<1> QED BY <1>1, <1>2, <1>3, <1>4, LedgerLoads DEF Next, Fail, Crash, vars

LEMMA LedgerInit == OneCall /\ Init => LedgerInv
<1> SUFFICES ASSUME OneCall, Init PROVE LedgerInv
  OBVIOUS
<1>1. \A r \in Request : req[r] = NoCall /\ NoCall.at = "idle"
  BY NoCallTyped DEF Init
<1>2. \A r \in Request : KnowsWallet(req[r])
  BY <1>1 DEF KnowsWallet, At
<1>3. \A b \in Booking : income[b] = 0 /\ settled[b] = {}
  BY DEF Init
<1>4. \A b \in Booking : Recorded(b)
  BY <1>3 DEF Recorded
<1>5. IsFiniteSet(Booking)
  BY DEF OneCall
<1>6. ASSUME NEW w \in Party PROVE Holds(NoCall, w)
  <2>1. PICK e, f : e = Owed(NoCall, w) /\ f = PaidOut(w)
    OBVIOUS
  <2>2. ~Visited(NoCall, w)
    BY <1>1, NoCallTyped DEF Visited
  <2>3. (\A b \in Booking : e[b] = 0) /\ \A b \in Booking : f[b] = 0
    BY <1>3, <2>1, <2>2 DEF Owed, PaidOut, Owes, Paid
  <2>4. Total(e, Booking) = 0 /\ Total(f, Booking) = 0
    BY <1>5, <2>3, TotalZero
  <2>5. wallet[w].pending = 0 /\ wallet[w].available = 0
    BY DEF Init, EmptyPurse
  <2>6. Gifts(w) = 0
    <3>1. \A b \in Booking : credited[b] = 0
      BY DEF Init
    <3>2. Total(credited, Booking) = 0
      BY <1>5, <3>1, TotalZero
    <3> QED BY <3>2 DEF Gifts
  <2> QED BY <2>1, <2>4, <2>5, <2>6 DEF Holds
<1> QED BY <1>1, <1>2, <1>4, <1>6 DEF LedgerInv

LEMMA LedgerAlways == ASSUME OneCall PROVE Spec => []LedgerInv
<1>1. TypeOK /\ SerialInv /\ RefundInv /\ LedgerInv /\ [Next]_vars => LedgerInv'
  BY LedgerNext
<1>2. Spec => []SerialInv /\ []RefundInv
  BY SerialAlways, MoneyAlways DEF OneCall, OnScreens
<1>3. Init => LedgerInv
  BY LedgerInit
<1> QED BY <1>1, <1>2, <1>3, TypeCorrect, PTL DEF Spec

LEMMA LedgerAgrees == OneCall /\ TypeOK /\ LedgerInv => LedgerBalanced
<1> SUFFICES ASSUME OneCall, TypeOK, LedgerInv, \A r \in Request : ~InFlight(r), NEW w \in Party,
                    NEW paid, paid = {b \in Booking : w \in settled[b]},
                    NEW owed, owed = {b \in Booking : income[b] > 0} \ paid
             PROVE  /\ wallet[w].pending = MapThenSumSet(LAMBDA b : Share[b], owed)
                    /\ wallet[w].available = MapThenSumSet(LAMBDA b : Share[b], paid)
                         + (IF w = "owner" THEN MapThenSumSet(LAMBDA b : credited[b], Booking)
                                           ELSE 0)
  BY DEF LedgerBalanced
<1>1. PICK r \in Request : Request = {r}
  BY DEF OneCall
<1>2. PICK c : c = req[r]
  OBVIOUS
<1>3. ~Visited(c, w)
  BY <1>2 DEF InFlight, Visited
<1>4. PICK e, f : e = Owed(c, w) /\ f = PaidOut(w)
  OBVIOUS
<1>5. \A b \in Booking :
        /\ e[b] = IF income[b] > 0 /\ w \notin settled[b] THEN Share[b] ELSE 0
        /\ f[b] = IF w \in settled[b] THEN Share[b] ELSE 0
        /\ Share[b] \in Nat
  BY <1>3, <1>4, AmountAssumption DEF Owed, PaidOut, Owes, Paid
<1>6. /\ owed \in SUBSET Booking /\ \A b \in Booking : e[b] \in Int
      /\ \A b \in owed : Share[b] = e[b]
      /\ \A b \in Booking \ owed : e[b] = 0
  BY <1>5
<1>7. /\ paid \in SUBSET Booking /\ \A b \in Booking : f[b] \in Int
      /\ \A b \in paid : Share[b] = f[b]
      /\ \A b \in Booking \ paid : f[b] = 0
  BY <1>5
<1>8. IsFiniteSet(Booking)
  BY DEF OneCall
<1>9. Total(Share, owed) = Total(e, Booking)
  BY <1>6, <1>8, TotalPart
<1>10. Total(Share, paid) = Total(f, Booking)
  BY <1>7, <1>8, TotalPart
<1>11. /\ wallet[w].pending = Total(e, Booking)
       /\ wallet[w].available = Total(f, Booking) + Gifts(w)
  BY <1>2, <1>4 DEF LedgerInv, Holds
<1> QED BY <1>9, <1>10, <1>11 DEF Total, Gifts

(* The wallets agree with the records of the bookings whenever no call is  *)
(* in flight (acceptBooking, validateBookingCode, the payout, the two      *)
(* cancellations and the credit of handlePaymentIntentSucceeded), for any  *)
(* finite set of bookings and any amounts, as long as calls are made one   *)
(* at a time, none ends halfway, and the screens offer what they do.       *)
THEOREM LedgerKept == ASSUME OneCall PROVE Spec => []LedgerBalanced
<1>1. TypeOK /\ LedgerInv => LedgerBalanced
  BY LedgerAgrees
<1> QED BY <1>1, LedgerAlways, TypeCorrect, PTL
===============================================================================
