SPECIFICATION FairSpec
CONSTANTS
  Event = {e1, e2}
  Delivery = {d1, d2}
  MaxFaults = 2
INVARIANT HandlerOwnsRow
PROPERTIES HandledOnce RowsSettle ArrivalsHandled
\* The model ends when every event is older than thirty days.
CHECK_DEADLOCK FALSE
