SPECIFICATION Spec
CONSTANTS
  Row <- MCRow
  TableOf <- MCTable
  At <- MCAt
  Leaver = "u"
  Core <- MCCore
  Optional <- MCOptional
  Editable <- MCEditable
  NoRow = NoRow
  MaxLate = 1
INVARIANT OnlyKnownObstacles
PROPERTIES ValidatedLosesNothing KeepsOthers
CHECK_DEADLOCK FALSE
