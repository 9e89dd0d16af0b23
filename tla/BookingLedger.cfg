SPECIFICATION Spec
CONSTANTS
  b1 = b1
  b2 = b2
  Booking = {b1, b2}
  Request = {r1}
  NoRequest = NoRequest
  Share <- AmountShare
  Gross <- AmountGross
  Price <- AmountPrice
  Offered <- OfferedOnScreens
  Payments = {"none", "held", "captured"}
  Overlap = FALSE
  ForeignKeys = FALSE
  MaxIncome = 1
  MaxCredited = 1
  MaxFaults = 0
INVARIANTS LedgerBalanced RefundedNotSettled
