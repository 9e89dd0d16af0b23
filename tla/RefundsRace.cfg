SPECIFICATION Spec
CONSTANTS
    Payment = {p1}
    Refund = {r1, r2}
    Withdrawal = {w1}
    Income = {i1}
    Call = {c1, c2}
    NoCall = NoCall
    MaxEvents = 2
    Paid = 2
    Balance = 1
INVARIANTS OnlyPaidIsRefunded NeverDeductedAhead LocksAreHeld
CHECK_DEADLOCK FALSE
