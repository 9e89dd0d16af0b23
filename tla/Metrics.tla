-------------------------------- MODULE Metrics --------------------------------
(***************************************************************************)
(* What payment-monitoring.service.ts makes of the transactions it loads.  *)
(* Nothing here has a state: the checks are assumptions over all small     *)
(* lists of rows.                                                          *)
(*                                                                         *)
(* transactions.amount is a decimal column, which the driver returns as a  *)
(* string: `+` appends it, while Math.abs makes it a number.  A total that *)
(* was appended to is the list of its amounts.                             *)
(***************************************************************************)
EXTENDS Integers, Sequences, FiniteSets, FiniteSetsExt, SequencesExt

\* The number such a total is read as, if it is one: the first amount is appended
\* to a zero, where a sign is none, and two amounts have two points.
Number(amounts) ==
  IF amounts = <<>> THEN {0}
  ELSE IF Len(amounts) = 1 /\ amounts[1] >= 0 THEN {amounts[1]} ELSE {}

Filtered(rows, test(_)) == SelectSeq(rows, test)
Amounts(rows) == [i \in DOMAIN rows |-> rows[i].amount]
Abs(n) == IF n < 0 THEN -n ELSE n
Absolute(rows) == FoldSeq(LAMBDA row, sum : sum + Abs(row.amount), 0, rows)
SqlSum(rows) == FoldSeq(LAMBDA row, sum : sum + row.amount, 0, rows)

\* The common form of the distributions: an entry for each key that occurs.
Grouped(rows, key(_)) ==
  LET Of(k) == Filtered(rows, LAMBDA row : key(row) = k)
  IN [k \in {key(rows[i]) : i \in DOMAIN rows} |-> [count |-> Len(Of(k)), amount |-> Amounts(Of(k))]]
AbsoluteBy(rows, key(_)) ==
  LET Of(k) == Filtered(rows, LAMBDA row : key(row) = k)
  IN [k \in {key(rows[i]) : i \in DOMAIN rows} |-> [count |-> Len(Of(k)), amount |-> Absolute(Of(k))]]
-----------------------------------------------------------------------------
\* Days are counted from a first of January that is a Sunday, in common years.
MonthDays == <<31, 28, 31, 30, 31, 30, 31, 31, 30, 31, 30, 31>>
Year(day) == day \div 365
DayOfYear(day) == day % 365
MonthStart[month \in 1..12] == IF month = 1 THEN 0 ELSE MonthStart[month - 1] + MonthDays[month - 1]
Month(day) == CHOOSE m \in 1..12 : MonthStart[m] <= DayOfYear(day) /\ DayOfYear(day) < MonthStart[m] + MonthDays[m]
Weekday(day) == day % 7     \* getDay()

\* The week of the Thursday of the same Monday-to-Sunday week.
WeekNumber(day) ==
  LET dayNum == IF Weekday(day) = 0 THEN 7 ELSE Weekday(day)
      thursday == day + 4 - dayNum
  IN (DayOfYear(thursday) + 7) \div 7
\* The year is that of the day, not of its Thursday.
WeekString(day) == <<Year(day), WeekNumber(day)>>

PeriodStart(day, period) ==
  CASE period = "day" -> day
    [] period = "week" -> day - Weekday(day)
    [] period = "month" -> 365 * Year(day) + MonthStart[Month(day)]
PreviousPeriodStart(day, period) ==
  CASE period = "day" -> day - 1
    [] period = "week" -> PeriodStart(day, "week") - 7
    [] period = "month" -> PeriodStart(PeriodStart(day, "month") - 1, "month")

\* A fraction, numerator over denominator, if it is a number; what was not
\* created before the moment of the report is left out.
Growth(rows, today, period) ==
  LET current == Number(Amounts(Filtered(rows, LAMBDA row :
                   row.day >= PeriodStart(today, period) /\ row.day < today)))
      previous == Number(Amounts(Filtered(rows, LAMBDA row :
                    row.day >= PreviousPeriodStart(today, period) /\ row.day < PeriodStart(today, period))))
  IN IF \E p \in previous : p > 0
     THEN {<<100 * (c - p), p>> : c \in current, p \in previous}
     ELSE {<<0, 1>>}
-----------------------------------------------------------------------------
ByStatus(rows) == Grouped(rows, LAMBDA row : row.status)
\* Rows without a method are left out.
ByMethod(rows) == Grouped(Filtered(rows, LAMBDA row : row.method # "none"), LAMBDA row : row.method)
ByCurrency(rows) == Grouped(rows, LAMBDA row : "EUR")
ByReason(rows) == Grouped(rows, LAMBDA row : row.reason)
TopReasons(rows) == AbsoluteBy(rows, LAMBDA row : row.reason)
RefundTrends(rows) == AbsoluteBy(rows, LAMBDA row : row.day)
WithdrawalTrends(rows) == Grouped(rows, LAMBDA row : row.day)
\* Only what took a while: a refund's clock runs from processedAt to createdAt.
RefundTimes(rows) == Filtered(rows, LAMBDA row : row.original /\ row.created - row.processed > 0)
WithdrawalTimes(rows) == Filtered(rows, LAMBDA row : row.processed - row.created > 0)

\* Every hour has an entry.
ByHour(rows) ==
  LET found == Grouped(rows, LAMBDA row : row.hour)
  IN [hour \in 0..23 |-> IF hour \in DOMAIN found THEN found[hour] ELSE [count |-> 0, amount |-> <<>>]]
ByDay(rows) == Grouped(rows, LAMBDA row : row.day)
ByWeek(rows) == Grouped(rows, LAMBDA row : WeekString(row.day))
ByMonth(rows) == Grouped(rows, LAMBDA row : <<Year(row.day), Month(row.day)>>)
\* Rows without a sender are left out; the ten with the largest totals are shown.
TopCustomers(rows) ==
  Grouped(Filtered(rows, LAMBDA row : row.sender # "none"), LAMBDA row : row.sender)
ByCountry(rows) == Grouped(rows, LAMBDA row : row.country)
ByDevice(rows) == Grouped(rows, LAMBDA row : row.device)
ByBrowser(rows) == Grouped(rows, LAMBDA row : row.browser)

With(rows, status) == Filtered(rows, LAMBDA row : row.status = status)

\* Three queries: the sum and the mean are not computed from `rows`.
CalculateMetrics(rows, sum, mean, today) ==
  [revenue |-> sum, transactions |-> Len(rows), average |-> mean,
   successRate |-> IF rows = <<>> THEN <<0, 1>> ELSE <<100 * Len(With(rows, "COMPLETED")), Len(rows)>>,
   byCurrency |-> ByCurrency(rows), byStatus |-> ByStatus(rows), byMethod |-> ByMethod(rows),
   growth |-> [period \in {"day", "week", "month"} |-> Growth(rows, today, period)]]

Analytics(rows) ==
  [hourly |-> ByHour(rows), daily |-> ByDay(rows), weekly |-> ByWeek(rows), monthly |-> ByMonth(rows),
   customers |-> TopCustomers(rows), countries |-> ByCountry(rows),
   devices |-> ByDevice(rows), browsers |-> ByBrowser(rows)]

RefundMetrics(refunds, others) ==
  [refunds |-> Len(refunds), rate |-> IF others > 0 THEN <<100 * Len(refunds), others>> ELSE <<0, 1>>,
   total |-> Number(Amounts(refunds)),
   byReason |-> ByReason(refunds), byStatus |-> ByStatus(refunds), trends |-> RefundTrends(refunds),
   topReasons |-> TopReasons(refunds), times |-> RefundTimes(refunds)]

WithdrawalMetrics(rows) ==
  [withdrawals |-> Len(rows), total |-> Number(Amounts(rows)),
   byStatus |-> ByStatus(rows), byMethod |-> ByMethod(rows), times |-> WithdrawalTimes(rows),
   pending |-> Len(With(rows, "PENDING")), approved |-> Len(With(rows, "COMPLETED")),
   rejected |-> Len(With(rows, "FAILED")), trends |-> WithdrawalTrends(rows)]
-----------------------------------------------------------------------------
Counts(groups) == MapThenSumSet(LAMBDA k : groups[k].count, DOMAIN groups)

(* Each distribution of a report counts every row exactly once, those that *)
(* leave rows without a method or a sender out count the others, and the   *)
(* rows counted as pending, approved and rejected are in the statuses.     *)
DistributionsPartition(rows) ==
  LET all == Analytics(rows) withdrawals == WithdrawalMetrics(rows) refunds == RefundMetrics(rows, 1)
  IN /\ \A name \in DOMAIN all \ {"customers"} : Counts(all[name]) = Len(rows)
     /\ Counts(all["customers"]) = Len(Filtered(rows, LAMBDA row : row.sender # "none"))
     /\ Counts(ByMethod(rows)) = Len(Filtered(rows, LAMBDA row : row.method # "none"))
     /\ Counts(withdrawals.byStatus) = Len(rows)
     /\ withdrawals.pending + withdrawals.approved + withdrawals.rejected <= Len(rows)
     /\ Counts(refunds.topReasons) = Len(rows) /\ Counts(refunds.byReason) = Len(rows)

(* What Math.abs adds up agrees with the sum of the refunds, which are all *)
(* of one sign; a total that is appended to is a number only for one row.  *)
AmountsAddUp(rows) ==
  LET metrics == RefundMetrics(rows, 1)
      shown == MapThenSumSet(LAMBDA k : metrics.topReasons[k].amount, DOMAIN metrics.topReasons)
  IN /\ shown = MapThenSumSet(LAMBDA k : metrics.trends[k].amount, DOMAIN metrics.trends)
     /\ (\A i \in DOMAIN rows : rows[i].amount >= 0) => shown = SqlSum(rows)
     /\ metrics.total \subseteq {shown} /\ (Len(rows) > 1 => metrics.total = {})

(* A growth is that of the sums when each period has one row; it is no     *)
(* number only when the previous one has one row and the current one more, *)
(* or a negative one.                                                      *)
GrowthIsKnown(rows, today) ==
  \A period \in {"day", "week", "month"} :
    LET start == PeriodStart(today, period)
        before == PreviousPeriodStart(today, period)
        current == Filtered(rows, LAMBDA row : row.day >= start /\ row.day < today)
        previous == Filtered(rows, LAMBDA row : row.day >= before /\ row.day < start)
    IN /\ before < start /\ start <= today
       /\ Growth(rows, today, period) = {} => Len(current) > 0 /\ Len(previous) = 1
       /\ Len(current) = 1 /\ Len(previous) = 1 /\ current[1].amount > 0 /\ previous[1].amount > 0 =>
            Growth(rows, today, period) =
              {<<100 * (SqlSum(current) - SqlSum(previous)), SqlSum(previous)>>}

(* Days of one week of one year share their week; days that share it are   *)
(* of one week, or one is in the first and the other in the last days of a *)
(* year.                                                                   *)
WeeksKnown(days) ==
  \A a, b \in days : a < b =>
    LET sameWeek == (a + 6) \div 7 = (b + 6) \div 7 /\ Year(a) = Year(b)
    IN /\ sameWeek => WeekString(a) = WeekString(b)
       /\ WeekString(a) = WeekString(b) /\ ~sameWeek => DayOfYear(a) < 7 /\ DayOfYear(b) > 356
=============================================================================
