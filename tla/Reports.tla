-------------------------------- MODULE Reports --------------------------------
(***************************************************************************)
(* The reports of the administration and the statistics of users:          *)
(* admin-analytics.service.ts, admin-dashboard.service.ts,                 *)
(* admin-transactions.service.ts, the queries of                           *)
(* payment-monitoring.service.ts, and the statistics of the services that  *)
(* keep the rows.  A report is put together from several queries, some in  *)
(* parallel, some one after the other, and outside a transaction: each     *)
(* sees the tables as they are by then.                                    *)
(*                                                                         *)
(* An answer is the number of rows it is computed from: sums and averages  *)
(* are of positive amounts.  Queries by other columns (last login,         *)
(* ratings) are left out; what payment-monitoring.service.ts makes of the  *)
(* rows it loads is in Metrics.                                            *)
(***************************************************************************)
EXTENDS Integers, Sequences, FiniteSets, Functions

CONSTANTS Row,
          Span,       \* length of the period reported on, in ticks of the clock
          LastDate    \* bound: time ends there

VARIABLES asked,      \* the kind of report that is asked for
          date,       \* the clock
          stored,     \* the rows of the tables it reads
          report,     \* the report that is being put together
          answers,    \* what its queries found, as long as nothing disturbs it
          disturbed,  \* history: rows it reads were taken back meanwhile
          raised      \* history: a low success rate has been notified

vars == <<asked, date, stored, report, answers, disturbed, raised>>

\* A user is "booked" once there is a booking of theirs; the group of a user is
\* the country, of a booking the category, of a transaction the type.
Statuses ==
  [users |-> {"new", "booked"}, accounts |-> {"active", "inactive"},
   bookings |-> {"ACCEPTED", "COMPLETED", "CANCELLED"}, payments |-> {"pending", "completed"},
   disputes |-> {"PENDING", "RESOLVED"}, transactions |-> {"PENDING", "COMPLETED", "FAILED", "CANCELLED"},
   listings |-> {"DRAFT", "PUBLISHED"}, refunds |-> {"PENDING", "COMPLETED"},
   notices |-> {"unread", "read"}, requests |-> {"pending", "deleted"}, logs |-> {"open", "resolved"}]
Groups ==
  [t \in DOMAIN Statuses |->
     CASE t = "transactions" -> {"PAYMENT", "REFUND", "WITHDRAWAL", "RENTAL_INCOME"}
       [] t = "logs" -> {"critical", "other"}
       [] t \in {"users", "bookings", "payments"} -> {"known", "null"}
       [] OTHER -> {"known"}]
Gone == [of |-> "none", created |-> 0, status |-> "none", group |-> "none"]
-----------------------------------------------------------------------------
\* A query: the rows of a table with one of these statuses and groups that were
\* created in the period, in the one before, since it began or after, in the last
\* hour or at any time.
Ask(name, t, statuses, groups, period) ==
  [name |-> name, of |-> t, status |-> statuses, group |-> groups, period |-> period]
All(name, t, period) == Ask(name, t, Statuses[t], Groups[t], period)
With(name, t, status, period) == Ask(name, t, {status}, Groups[t], period)
Typed(name, types, period) == Ask(name, "transactions", Statuses["transactions"], types, period)

\* A report is a sequence of stages; the chains of a stage run in parallel.
Revenue == <<With("chart", "bookings", "COMPLETED", "period"),
             With("total", "bookings", "COMPLETED", "always")>>
RevenueReport == <<{Revenue}>>
UserReport == <<{<<All("growth", "users", "period")>>, <<All("segments", "users", "always")>>}>>
ToolReport == <<{<<All("topTools", "bookings", "period")>>,
                 <<Ask("categories", "bookings", Statuses["bookings"], {"known"}, "period")>>}>>
BookingReport == <<{<<All("trends", "bookings", "period")>>,
                    <<All("distribution", "bookings", "period")>>,
                    <<All("average", "bookings", "period")>>}>>
ByCountry == Ask("byCountry", "users", Statuses["users"], {"known"}, "always")
Geographic ==
  <<{<<ByCountry, Ask("revenueByCountry", "payments", {"completed"}, {"known"}, "always")>>}>>
UsersByCountry == <<{<<ByCountry, All("allUsers", "users", "always")>>}>>
Performance == <<{<<All("signedUp", "users", "period"), With("converted", "users", "booked", "period")>>}>>
\* The first stage also puts the user, tool and booking reports together.
Formatted ==
  <<{Revenue},
    {<<All("allUsers", "users", "always")>>, <<All("made", "bookings", "period")>>,
     <<With("current", "bookings", "COMPLETED", "period")>>},
    {<<All("usersBefore", "users", "before")>>, <<All("madeBefore", "bookings", "before")>>,
     <<With("previous", "bookings", "COMPLETED", "before")>>},
    {<<All("newUsers", "users", "period")>>}>>

Overview == <<{<<All("allUsers", "users", "always")>>, <<All("made", "bookings", "period")>>,
               <<With("paid", "payments", "completed", "period")>>,
               <<With("open", "disputes", "PENDING", "always")>>}>>
Growth(name, t) == <<All(name, t, "period"), All(name, t, "before")>>
RevenueGrowth ==
  <<With("revenue", "payments", "completed", "period"), With("revenue", "payments", "completed", "before")>>
KPIs == <<{Growth("users", "users"), RevenueGrowth, Growth("bookings", "bookings")}>>

\* A mutant: the total is counted first.
TotalFirst ==
  <<{<<All("disputes", "disputes", "always"), All("byStatus", "disputes", "always"),
       With("resolved", "disputes", "RESOLVED", "always"), All("monthly", "disputes", "since")>>}>>

Disputes ==
  <<{<<All("byStatus", "disputes", "always"), All("disputes", "disputes", "always"),
       With("resolved", "disputes", "RESOLVED", "always"), All("monthly", "disputes", "since")>>}>>

\* getTransactionStats, asked for a period and a type, which all its queries share.
Stats ==
  LET Counted(status) == With(status, "transactions", status, "period")
      Earned(period) == With("earned", "transactions", "COMPLETED", period)
  IN <<{<<All("transactions", "transactions", "period"), Counted("COMPLETED"), Counted("FAILED"),
          Counted("PENDING"), Counted("CANCELLED"), Earned("period"), Earned("before")>>}>>

\* All three are asked of one query builder, before the first has answered.
PaymentMetrics == <<{<<All("loaded", "transactions", "period")>>, <<All("sum", "transactions", "period")>>,
                     <<All("mean", "transactions", "period")>>}>>
Refunds == <<{<<Typed("refunds", {"REFUND"}, "period"), Typed("others", {"PAYMENT", "WITHDRAWAL", "RENTAL_INCOME"}, "period")>>}>>
Withdrawals == <<{<<Typed("withdrawals", {"WITHDRAWAL"}, "period")>>}>>
RealTime == <<{<<All("recent", "transactions", "always")>>,
               <<With("lastHour", "transactions", "COMPLETED", "hour")>>}>>

\* What the services count themselves.
BookingStats == <<{<<All("bookings", "bookings", "period")>>}>>
BookingsSince == <<{<<All("since", "bookings", "since")>>}>>
UserStats == <<{<<All("accounts", "accounts", "always")>>, <<With("active", "accounts", "active", "always")>>,
                <<All("newAccounts", "accounts", "after")>>}>>
ToolStats == <<{<<All("listings", "listings", "always")>>, <<With("published", "listings", "PUBLISHED", "always")>>,
                <<With("draft", "listings", "DRAFT", "always")>>}>>
RefundStats ==
  <<{<<All("refunds", "refunds", "always")>>, <<With("sum", "refunds", "COMPLETED", "always")>>,
     <<All("byStatus", "refunds", "always")>>, <<All("byReason", "refunds", "always")>>,
     <<All("thisMonth", "refunds", "since")>>, <<With("sumThisMonth", "refunds", "COMPLETED", "since")>>}>>
NotificationStats ==
  <<{<<All("notices", "notices", "always")>>, <<With("unread", "notices", "unread", "always")>>,
     <<All("byType", "notices", "always")>>}>>
RequestStats ==
  <<{<<All("requests", "requests", "always")>>, <<With("pending", "requests", "pending", "always")>>,
     <<With("deleted", "requests", "deleted", "always")>>}>>

\* getSecurityAnalytics: three counts in parallel, and then two breakdowns.
Security ==
  <<{<<All("logs", "logs", "after")>>, <<With("resolved", "logs", "resolved", "after")>>,
     <<Ask("critical", "logs", Statuses["logs"], {"critical"}, "after")>>},
    {<<All("byType", "logs", "after"), All("bySeverity", "logs", "after")>>}>>

Completed(name, types) == Ask(name, "transactions", {"COMPLETED"}, types, "always")
Balance == <<{<<Completed("income", {"RENTAL_INCOME"}), Completed("outgoing", {"WITHDRAWAL", "PAYMENT"})>>}>>
WalletStats == <<Completed("successful", {"PAYMENT", "WITHDRAWAL", "RENTAL_INCOME"})>>
PersonalStats == <<{<<With("ads", "listings", "PUBLISHED", "always"),
                      With("rentals", "bookings", "COMPLETED", "always")>> \o WalletStats}>>
UserDetail == <<{<<All("reservations", "bookings", "always")>> \o WalletStats}>>

Kinds == {"revenue", "users", "tools", "bookings", "geographic", "countries",
          "performance", "formatted", "overview", "kpis", "disputes", "stats",
          "metrics", "refunds", "withdrawals", "realTime",
          "bookingStats", "bookingsSince", "userStats", "toolStats", "refundStats",
          "notificationStats", "requestStats", "security", "balance", "personal", "detail"}

Report(kind) ==
  CASE kind = "revenue" -> RevenueReport
    [] kind = "users" -> UserReport
    [] kind = "tools" -> ToolReport
    [] kind = "bookings" -> BookingReport
    [] kind = "geographic" -> Geographic
    [] kind = "countries" -> UsersByCountry
    [] kind = "performance" -> Performance
    [] kind = "formatted" -> Formatted
    [] kind = "overview" -> Overview
    [] kind = "kpis" -> KPIs
    [] kind = "disputes" -> Disputes
    [] kind = "stats" -> Stats
    [] kind = "metrics" -> PaymentMetrics
    [] kind = "refunds" -> Refunds
    [] kind = "withdrawals" -> Withdrawals
    [] kind = "realTime" -> RealTime
    [] kind = "bookingStats" -> BookingStats
    [] kind = "bookingsSince" -> BookingsSince
    [] kind = "userStats" -> UserStats
    [] kind = "toolStats" -> ToolStats
    [] kind = "refundStats" -> RefundStats
    [] kind = "notificationStats" -> NotificationStats
    [] kind = "requestStats" -> RequestStats
    [] kind = "security" -> Security
    [] kind = "balance" -> Balance
    [] kind = "personal" -> PersonalStats
    [] kind = "detail" -> UserDetail
-----------------------------------------------------------------------------
\* In a report, the parts that a reader adds up, and the whole.  The two halves
\* of the formatted data have periods of their own.
Compared ==
  [revenue |-> <<{"chart"}, "total">>, countries |-> <<{"byCountry"}, "allUsers">>,
   performance |-> <<{"converted"}, "signedUp">>, security |-> <<{"critical"}, "bySeverity">>, disputes |-> <<{"byStatus"}, "disputes">>,
   stats |-> <<{"COMPLETED", "FAILED", "PENDING", "CANCELLED"}, "transactions">>]
Kept == IF asked \in DOMAIN Compared THEN Compared[asked][1] \cup {Compared[asked][2]} ELSE {}

Idle == [stage |-> 0, pending |-> {}, end |-> 0]
Reading == report.stage > 0
Queries == [kind \in Kinds |-> UNION {UNION {Range(chain) : chain \in stage} : stage \in Range(Report(kind))}]
Read == {q.of : q \in Queries[asked]}

\* Where no query tells the statuses or the groups of a table apart, its rows have
\* one.  The success rate of the loaded rows looks at their statuses.
Told(all, apart) == IF apart THEN all ELSE {CHOOSE x \in all : TRUE}
Rows(t) ==
  LET of == {q \in Queries[asked] : q.of = t} IN
  [of : {t}, created : 0..LastDate,
   status : Told(Statuses[t], \E q \in of : q.status # Statuses[t] \/ q.name = "loaded"),
   group : Told(Groups[t], \E q \in of : q.group # Groups[t])]

NoAnswers == [name \in Kept |-> 0]

TypeOK ==
  /\ asked \in Kinds /\ date \in 0..LastDate
  /\ stored \in [Row -> {Gone} \cup UNION {Rows(t) : t \in Read}]
  /\ report.stage \in 0..Len(Report(asked)) /\ report.end \in 0..LastDate
  /\ answers \in [Kept -> 0 .. Cardinality(Row)]
  /\ disturbed \in BOOLEAN /\ raised \in BOOLEAN

Init ==
  /\ asked \in Kinds
  /\ date = 0 /\ stored = [r \in Row |-> Gone]
  /\ report = Idle /\ answers = NoAnswers
  /\ disturbed = FALSE /\ raised = FALSE
-----------------------------------------------------------------------------
\* getDateRange: the period ends now.  Each reading of the clock is a tick, so
\* that what is stamped later is later.
Begin ==
  /\ ~Reading /\ date < LastDate
  /\ date' = date + 1
  /\ report' = [stage |-> 1, pending |-> Report(asked)[1], end |-> date]
  /\ UNCHANGED <<asked, stored, answers, disturbed, raised>>

\* The bounds of a period belong to it; many queries leave its end open.
Within(day, period) ==
  LET end == report.end IN
  CASE period = "always" -> TRUE
    [] period = "hour"   -> day >= end
    [] period = "since"  -> day >= end - Span
    [] period = "after"  -> day > end - Span
    [] period = "period" -> day \in end - Span .. end
    [] period = "before" -> day \in end - 2 * Span .. end - Span

Found(q) == {r \in Row : /\ stored[r].of = q.of
                         /\ stored[r].status \in q.status /\ stored[r].group \in q.group
                         /\ Within(stored[r].created, q.period)}

\* checkMetricsAlerts: less than 85 of a hundred rows are completed; the rate of
\* no rows at all is zero.
LowSuccess(rows) ==
  rows = {} \/ 100 * Cardinality({r \in rows : stored[r].status = "COMPLETED"}) < 85 * Cardinality(rows)

Query(chain) ==
  LET q == Head(chain) IN
  /\ chain \in report.pending
  /\ report' = [report EXCEPT !.pending = (@ \ {chain}) \cup (IF Len(chain) > 1 THEN {Tail(chain)} ELSE {})]
  /\ answers' = [name \in Kept |-> IF name = q.name /\ ~disturbed THEN Cardinality(Found(q))
                                   ELSE answers[name]]
  /\ raised' = (raised \/ (q.name = "loaded" /\ LowSuccess(Found(q))))
  /\ UNCHANGED <<asked, date, stored, disturbed>>

Answered == report.pending = {} /\ report.stage = Len(Report(asked))

\* Only the second stage of getFormattedAnalyticsData reads the clock again.
ReadsClock == asked = "formatted" /\ report.stage = 1

NextStage ==
  /\ Reading /\ report.pending = {} /\ ~Answered
  /\ ReadsClock => date < LastDate
  /\ date' = IF ReadsClock THEN date + 1 ELSE date
  /\ report' = [stage |-> report.stage + 1, pending |-> Report(asked)[report.stage + 1],
                end |-> IF ReadsClock THEN date ELSE report.end]
  /\ UNCHANGED <<asked, stored, answers, disturbed, raised>>

\* The report is sent, or a query failed and an error is.
End ==
  /\ Reading /\ report' = Idle /\ answers' = NoAnswers /\ disturbed' = FALSE
  /\ UNCHANGED <<asked, date, stored, raised>>
-----------------------------------------------------------------------------
\* Nothing is claimed of a report that is disturbed, or in which nothing is
\* compared: its answers are forgotten.
Disturb(now) ==
  /\ disturbed' = (disturbed \/ (Reading /\ Kept # {} /\ now))
  /\ answers' = IF disturbed' THEN NoAnswers ELSE answers

\* What everybody else does meanwhile.  A row may be stamped a moment before its
\* transaction commits.
Insert(r, row) ==
  /\ stored[r] = Gone /\ row.created \in {date - 1, date}
  /\ stored' = [stored EXCEPT ![r] = row]
  /\ Disturb(row.created <= report.end)
  /\ UNCHANGED <<asked, date, report, raised>>

Moves == {<<"users", "new", "booked">>, <<"bookings", "ACCEPTED", "COMPLETED">>,
          <<"bookings", "COMPLETED", "CANCELLED">>, <<"payments", "pending", "completed">>,
          <<"accounts", "active", "inactive">>, <<"accounts", "inactive", "active">>,
          <<"listings", "DRAFT", "PUBLISHED">>, <<"listings", "PUBLISHED", "DRAFT">>,
          <<"refunds", "PENDING", "COMPLETED">>, <<"notices", "unread", "read">>,
          <<"requests", "pending", "deleted">>, <<"logs", "open", "resolved">>,
          <<"disputes", "PENDING", "RESOLVED">>, <<"transactions", "PENDING", "COMPLETED">>,
          <<"transactions", "PENDING", "FAILED">>, <<"transactions", "FAILED", "PENDING">>,
          <<"transactions", "PENDING", "CANCELLED">>}

\* A completed booking that is cancelled is taken back, and a transaction that
\* changes its status may be counted under both.
Move(r, move) ==
  /\ stored[r].of = move[1] /\ stored[r].status = move[2]
  /\ [stored[r] EXCEPT !.status = move[3]] \in Rows(move[1])
  /\ stored' = [stored EXCEPT ![r].status = move[3]]
  /\ Disturb(move[1] = "transactions" \/ move[2] = "COMPLETED")
  /\ UNCHANGED <<asked, date, report, raised>>

\* The deletion of an account takes rows of every table.
Delete(r) ==
  /\ stored[r] # Gone
  /\ stored' = [stored EXCEPT ![r] = Gone]
  /\ Disturb(TRUE)
  /\ UNCHANGED <<asked, date, report, raised>>

Tick ==
  /\ date < LastDate /\ date' = date + 1
  /\ UNCHANGED <<asked, stored, report, answers, disturbed, raised>>

Next ==
  \/ Begin \/ NextStage \/ End \/ Tick
  \/ \E chain \in report.pending : Query(chain)
  \/ \E r \in Row : Delete(r) \/ (\E move \in Moves : Move(r, move))
  \/ \E r \in Row : stored[r] = Gone /\ \E t \in Read : \E row \in Rows(t) : Insert(r, row)

Spec == Init /\ [][Next]_vars
-----------------------------------------------------------------------------
Total(names) == SumFunctionOnSet(answers, names)

(* Rows that are merely created while a report is put together never make  *)
(* it contradict itself: unless something it reads is taken back, its      *)
(* parts add up to at most the whole it shows beside them.                 *)
(* (admin-analytics.service.ts, admin-dashboard.service.ts,                *)
(* admin-transactions.service.ts)                                          *)
ReportsAgree ==
  asked \in DOMAIN Compared /\ Answered /\ ~disturbed =>
    Total(Compared[asked][1]) <= answers[Compared[asked][2]]
=============================================================================
