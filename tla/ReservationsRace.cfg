SPECIFICATION Spec
CONSTANTS
  Booking = {b1, b2}
  Tool = {t1}
  Request = {r1, r2}
  LastDay = 2
  Editable = {"PENDING"}
  Asked <- AskedDates
INVARIANTS UnpaidIsInFlight AnswersAgree
PROPERTIES KeepsCalendar
SYMMETRY RequestSymmetry
\* The model ends when every tool and every booking has been deleted.
CHECK_DEADLOCK FALSE
