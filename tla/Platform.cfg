SPECIFICATION Spec
CONSTANTS
  Window = 3
  ReadLimit = 3
  WriteLimit = 2
  ReadBlock = 3
  WriteBlock = 5
  LastTick = 12
  User = {u1, u2}
  Token = {t1, t2}
  Device = {d1}
  NoDevice = NoDevice
  NoUser = NoUser
  Call = {s1, s2}
  Rule1 = rule1
  Rule2 = rule2
  Cooldown = 2
  Poll = {s1, s2}
  LastTime = 2
  MaxUpdates = 1
  Caller = {s1, s2}
  ToolStatus = {"DRAFT"}
  LastContent = 2
  Address = {a1, a2}
  EventType = {e1, e2}
  Period = 2
  GlobalMax = 3
  AddressMax = 2
  EventMax = 2
  LastMinute = 4
  Booking = {s1, s2}
  LastDay = 7
  MaxFaults = 1
  Datum = {s1, s2}
  Span = 1
  LastDate = 2
  Item = {i1, i2, i3}
  PageSize = 1
  Review = {s1, s2}
  Subject = {x1}
  Request = {s1, s2}
  Child = {s1, s2}
  File = {s1, s2}
  NoFile = NoFile
  Editor = {s1, s2}
  Visit = {s1, s2}
  Photo = {i1, i2, i3}
INVARIANTS TypeOK OneActivePerDevice ConfirmedWasSeen NobodyForgotten ReportsAgree
INVARIANTS NoneSkipped OneReview ShownIsStored SuspensionHolds OnePrimary
PROPERTIES AdmittedWithinLimits AlertsSpaced
CHECK_DEADLOCK FALSE
SYMMETRY Symmetry
