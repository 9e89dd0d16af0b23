SPECIFICATION FairSpec
CONSTANTS
  b1 = b1
  b2 = b2
  Booking = {b1}
  Request = {r1, r2}
  NoRequest = NoRequest
  Share <- AmountShare
  Gross <- AmountGross
  Price <- AmountPrice
  Offered <- OfferedAroundMoney
  Payments = {"captured"}
  Overlap = TRUE
  ForeignKeys = TRUE
  MaxIncome = 1
  MaxCredited = 0
  MaxFaults = 0
INVARIANTS PendingNeverNegative
PROPERTIES CallsEnd
