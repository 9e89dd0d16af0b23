SPECIFICATION Spec
CONSTANTS
  Client = {c1, c2}
  Load = {l1, l2, l3}
  Targets = 2
  Fresh = 0
  Stale = 1
  LastHour = 2
  MaxClears = 1
  NoTable = NoTable
  NoLoad = NoLoad
INVARIANT OneLoad
PROPERTIES NeverBack RequestsAnswered
