--------------------------------- MODULE Pages ---------------------------------
(***************************************************************************)
(* The lists that are read page by page.  Each page is two queries, its    *)
(* rows and the number of all rows, and the table changes before, between  *)
(* and after them.  A reader asks for pages until a page is the last one   *)
(* by the number that came with it.                                        *)
(*                                                                         *)
(* `listed` has the rows that match the request, in the order of the list: *)
(* a row that comes to match appears, one that no longer does disappears.  *)
(***************************************************************************)
EXTENDS Integers, Sequences, SequencesExt

CONSTANTS Item,
          PageSize     \* limit

VARIABLES list,       \* which list is read
          listed,     \* the rows that match
          reader,     \* the pages read so far
          missed,     \* history: rows that appeared or moved since the first page
          shaken      \* history: rows disappeared or changed places meanwhile, or
                      \* one appeared between a count and its page

vars == <<list, listed, reader, missed, shaken>>

\* What the lists differ in: `sorts`, the columns that the order may be by, and
\* `countFirst`, which of the two queries comes first.
ListOf(sorts, countFirst) == [sorts |-> sorts, countFirst |-> countFirst]

\* The filters of all lists are conditions on single rows that must all hold,
\* with one exception: in the search for withdrawals an OR is not bracketed, so
\* that payments of a sender of that name are listed, too.
ToolReviews == ListOf({"created"}, FALSE)
AppReviews == ListOf({"created"}, FALSE)
Tools == ListOf({"created"}, FALSE)
Users == ListOf({"created", "other"}, FALSE)
Transactions == ListOf({"created"}, FALSE)
Withdrawals == ListOf({"created"}, FALSE)
PendingWithdrawals == ListOf({"created"}, FALSE)
Disputes == ListOf({"created"}, FALSE)
Articles == ListOf({"created", "other"}, FALSE)
AdminNotifications == ListOf({"created"}, FALSE)
AllNotifications == ListOf({"created"}, FALSE)
OwnNotifications == ListOf({"created"}, FALSE)
UserTransactions == ListOf({"created"}, FALSE)
UserRefunds == ListOf({"created"}, FALSE)
AllRefunds == ListOf({"created"}, FALSE)
AdminActivities == ListOf({"created"}, FALSE)
FailedLogins == ListOf({"created"}, FALSE)
Sessions == ListOf({"activity"}, FALSE)
SecurityLogs == ListOf({"created"}, TRUE)
Bookings == ListOf({"created", "other"}, TRUE)

List == {ToolReviews, AppReviews, Tools, Users, Transactions, Withdrawals, PendingWithdrawals,
         Disputes, Articles, AdminNotifications, AllNotifications, OwnNotifications,
         UserTransactions, UserRefunds, AllRefunds, AdminActivities, FailedLogins, Sessions, SecurityLogs, Bookings}

NoReader == [at |-> "idle", page |-> 0, total |-> 0, seen |-> {}, done |-> FALSE]

TypeOK ==
  /\ list \in List /\ listed \in Seq(Item) /\ IsInjective(listed)
  /\ reader.at \in {"idle", "first", "second"} /\ reader.page \in Nat /\ reader.total \in Nat
  /\ reader.seen \subseteq Item /\ reader.done \in BOOLEAN
  /\ missed \subseteq Item /\ shaken \in BOOLEAN

Init ==
  /\ list \in List /\ listed = <<>> /\ reader = NoReader /\ missed = {} /\ shaken = FALSE
-----------------------------------------------------------------------------
Reading == reader.page > 0 /\ ~reader.done

\* Page one is asked for.
Open ==
  /\ reader.page = 0
  /\ reader' = [NoReader EXCEPT !.at = "first", !.page = 1]
  /\ UNCHANGED <<list, listed, missed, shaken>>

Counting == reader.at = (IF list.countFirst THEN "first" ELSE "second")
Fetching == reader.at = (IF list.countFirst THEN "second" ELSE "first")
After(r) == IF r.at = "first" THEN "second" ELSE "idle"

Count ==
  /\ Counting
  /\ reader' = [reader EXCEPT !.total = Len(listed), !.at = After(reader)]
  /\ UNCHANGED <<list, listed, missed, shaken>>

\* A mutant: the offset is one page too far.
OnePageOn(page) == {listed[n] : n \in (page * PageSize + 1 .. (page + 1) * PageSize) \cap DOMAIN listed}

\* skip and take
Slice(page) == {listed[n] : n \in ((page - 1) * PageSize + 1 .. page * PageSize) \cap DOMAIN listed}

Fetch ==
  /\ Fetching
  /\ reader' = [reader EXCEPT !.seen = @ \cup Slice(reader.page), !.at = After(reader)]
  /\ UNCHANGED <<list, listed, missed, shaken>>

\* totalPages of the answer says whether there is another page.
TotalPages == (reader.total + PageSize - 1) \div PageSize

Turn ==
  /\ reader.at = "idle" /\ Reading
  /\ reader' = IF reader.page < TotalPages THEN [reader EXCEPT !.page = @ + 1, !.at = "first"]
               ELSE [reader EXCEPT !.done = TRUE]
  /\ UNCHANGED <<list, listed, missed, shaken>>
-----------------------------------------------------------------------------
\* A row is created, or comes to match.
Appear(i, n) ==
  /\ i \notin ToSet(listed)
  /\ listed' = InsertAt(listed, n, i)
  /\ missed' = IF Reading THEN missed \cup {i} ELSE missed
  /\ shaken' = (shaken \/ (list.countFirst /\ reader.at = "second"))
  /\ UNCHANGED <<list, reader>>

\* A row is deleted, or no longer matches.
Disappear(n) ==
  /\ listed' = RemoveAt(listed, n)
  /\ shaken' = (shaken \/ Reading)
  /\ UNCHANGED <<list, reader, missed>>

\* A session that is active goes to the front.
Touch(n) ==
  /\ "activity" \in list.sorts
  /\ listed' = <<listed[n]>> \o RemoveAt(listed, n)
  /\ missed' = IF Reading THEN missed \cup {listed[n]} ELSE missed
  /\ UNCHANGED <<list, reader, shaken>>

\* In an order by a column that changes, or in which rows are equal, two queries
\* may have two orders.
Reorder(n) ==
  /\ "other" \in list.sorts /\ n < Len(listed)
  /\ listed' = [listed EXCEPT ![n] = listed[n + 1], ![n + 1] = listed[n]]
  /\ shaken' = (shaken \/ Reading)
  /\ UNCHANGED <<list, reader, missed>>

Next ==
  \/ ~reader.done /\ \E i \in Item, n \in 1 .. Len(listed) + 1 : Appear(i, n)
  \/ ~reader.done /\ \E n \in 1 .. Len(listed) : Disappear(n) \/ Touch(n) \/ Reorder(n)
  \/ Open \/ Count \/ Fetch \/ Turn
-----------------------------------------------------------------------------
(* A row that was there when the first page was asked for is on one of the *)
(* pages, however many rows appear meanwhile: rows are pushed to later     *)
(* pages and shown twice, and none is skipped, unless another one          *)
(* disappears or changes places, or appears between the count and the page *)
(* of a list that is counted first.                                        *)
(* (admin-reviews.service.ts, admin-tools.service.ts, users.service.ts,    *)
(* admin-security.service.ts, bookings.service.ts and others)              *)
NoneSkipped ==
  reader.done /\ ~shaken => ToSet(listed) \ missed \subseteq reader.seen
=============================================================================
