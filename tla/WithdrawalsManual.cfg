SPECIFICATION FairSpec
CONSTANTS
  Withdrawal = {w1, w2}
  Request = {r1}
  Funds = 2
  Amounts = {1, 2}
  Minimum = 1
  Threshold = 1
  AutoFund = FALSE
  Methods = {"wise"}
  Finals = {"sent", "completed"}
  Orderly = TRUE
  MaxFaults = 0
INVARIANTS NeverOverpaid DebitedAgainOnlySent BalanceAccounted OneActive
PROPERTIES PaidIsRecorded
