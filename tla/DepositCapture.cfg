SPECIFICATION Spec
CONSTANTS
  Job = {j1, j2}
  NoJob = NoJob
PROPERTIES DepositCaptured
CHECK_DEADLOCK FALSE
