SPECIFICATION Spec
CONSTANTS
  b1 = b1
  b2 = b2
  Booking = {b1}
  Request = {r1}
  NoRequest = NoRequest
  Share <- AmountShare
  Gross <- AmountGross
  Price <- AmountPrice
  Offered <- OfferedAlways
  Payments = {"none", "held", "captured"}
  Overlap = FALSE
  ForeignKeys = TRUE
  MaxIncome = 1
  MaxCredited = 1
  MaxFaults = 2
INVARIANTS OngoingEarned HandoverOrder
