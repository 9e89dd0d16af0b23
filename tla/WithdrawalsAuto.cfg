SPECIFICATION Spec
CONSTANTS
  Withdrawal = {w1}
  Request = {r1, r2}
  Funds = 1
  Amounts = {1}
  Minimum = 1
  Threshold = 1
  AutoFund = TRUE
  Methods = {"wise", "stripe", "connect"}
  Finals = {"sent", "completed"}
  Orderly = FALSE
  MaxFaults = 1
INVARIANT CompletedIsBacked
SYMMETRY RequestSymmetry
