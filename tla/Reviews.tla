-------------------------------- MODULE Reviews --------------------------------
(***************************************************************************)
(* Reviews of tools, of the application and the older ones of              *)
(* reviews.service.ts, with the deletions of admin-reviews.service.ts.     *)
(* Nothing in the tables keeps a booking or a user from having two         *)
(* reviews: each creation looks for one first and inserts afterwards.  An  *)
(* update loads the review and saves it whole, and save inserts a row that *)
(* it does not find.                                                       *)
(***************************************************************************)
EXTENDS Integers, FiniteSets

CONSTANTS Review,      \* ids
          Subject,     \* what is reviewed: bookings, or the users who review the application
          Request      \* calls in flight
VARIABLES review,      \* the rows
          subject,     \* the bookings or users
          request,     \* the calls
          doubled      \* history: subjects that two creations, or a creation and an update, raced for

vars == <<review, subject, request, doubled>>

\* `reviews` is the older table, one review of a booking as well.
Table == {"reviews", "tool", "app"}
NoReview == [state |-> "unused", table |-> "tool", subject |-> "none"]
Label == {"idle", "check", "insert", "select", "update", "restore", "delete"}
NoRequest == [at |-> "idle", table |-> "tool", subject |-> "none", id |-> "none"]

TypeOK ==
  /\ review \in [Review -> [state : {"unused", "live", "deleted"}, table : Table,
                            subject : Subject \cup {"none"}]]
  /\ subject \in [Subject -> {"open", "completed", "deleted"}]
  /\ request \in [Request -> [at : Label, table : Table,
                              subject : Subject \cup {"none"}, id : Review \cup {"none"}]]
  /\ doubled \subseteq Table \X Subject

Init ==
  /\ review = [i \in Review |-> NoReview]
  /\ subject = [x \in Subject |-> "open"]
  /\ request = [q \in Request |-> NoRequest]
  /\ doubled = {}
-----------------------------------------------------------------------------
Goto(q, label) == request' = [request EXCEPT ![q].at = label]
End(q) == request' = [request EXCEPT ![q] = NoRequest]

\* Users are reviewers from the start; a booking must be completed.
Reviewable(table, x) == subject[x] = "completed" \/ (table = "app" /\ subject[x] = "open")
Existing(table, x) == {i \in Review : review[i].state = "live" /\ review[i].table = table
                                      /\ review[i].subject = x}

\* create, createToolReview, createAppReview: the booking and the users are loaded.
Create(q, table, x) ==
  /\ request[q].at = "idle" /\ Reviewable(table, x)
  /\ request' = [request EXCEPT ![q] = [at |-> "check", table |-> table, subject |-> x, id |-> "none"]]
  /\ UNCHANGED <<review, subject, doubled>>

\* A mutant: the review of a tool is looked for in the older table.
LookedUpInReviews(q) == Existing(IF request[q].table = "tool" THEN "reviews" ELSE request[q].table,
                                 request[q].subject)

\* The transaction of a tool's review sees what is committed when it looks, and locks nothing.
Found(q) == Existing(request[q].table, request[q].subject)

Past(q) == {p \in Request \ {q} : request[p].at = "insert" /\ request[p].table = request[q].table
                                  /\ request[p].subject = request[q].subject}

Check(q) ==
  /\ request[q].at = "check"
  /\ IF Found(q) = {} THEN Goto(q, "insert") ELSE End(q)
  /\ doubled' = IF Found(q) = {} /\ Past(q) # {}
                THEN doubled \cup {<<request[q].table, request[q].subject>>} ELSE doubled
  /\ UNCHANGED <<review, subject>>

\* The older review has no reviewer: its column may not be null, and the creation
\* of one always fails here.  So does that of a subject deleted meanwhile.
Insert(q) ==
  /\ request[q].at = "insert"
  /\ IF request[q].table # "reviews" /\ subject[request[q].subject] # "deleted"
     THEN \E i \in Review :
            /\ review[i].state = "unused"
            /\ review' = [review EXCEPT ![i] = [state |-> "live", table |-> request[q].table,
                                                subject |-> request[q].subject]]
     ELSE UNCHANGED review
  /\ End(q)
  /\ UNCHANGED <<subject, doubled>>
-----------------------------------------------------------------------------
Load(q, i, label) ==
  /\ request[q].at = "idle" /\ review[i].state = "live"
  /\ request' = [request EXCEPT ![q] = [at |-> label, table |-> review[i].table,
                                        subject |-> review[i].subject, id |-> i]]
  /\ UNCHANGED <<review, subject, doubled>>

\* update, updateToolReview, updateAppReview: changes of the subject are refused.
Update(q, i) == Load(q, i, "select")

\* save looks whether the row is still there.
Select(q) ==
  /\ request[q].at = "select"
  /\ Goto(q, IF review[request[q].id].state = "live" THEN "update" ELSE "restore")
  /\ UNCHANGED <<review, subject, doubled>>

\* The UPDATE of rating and comment; one of a row that is gone changes none.
Write(q) ==
  /\ request[q].at = "update" /\ End(q)
  /\ UNCHANGED <<review, subject, doubled>>

\* The INSERT of the whole review under its old id.
Restore(q) ==
  /\ request[q].at = "restore" /\ End(q)
  /\ LET i == request[q].id
         inserted == review[i].state = "deleted" /\ subject[request[q].subject] # "deleted"
     IN /\ review' = IF inserted THEN [review EXCEPT ![i].state = "live"] ELSE review
        /\ doubled' = IF inserted THEN doubled \cup {<<request[q].table, request[q].subject>>} ELSE doubled
  /\ UNCHANGED subject

\* remove, removeToolReview, removeAppReview
Remove(q, i) == Load(q, i, "delete")

RemoveRow(q) ==
  /\ request[q].at = "delete" /\ End(q)
  /\ review' = [review EXCEPT ![request[q].id].state = "deleted"]
  /\ UNCHANGED <<subject, doubled>>

\* deleteToolReview, deleteAppReview of the administration: one statement.
Delete(i) ==
  /\ review[i].state = "live"
  /\ review' = [review EXCEPT ![i].state = "deleted"]
  /\ UNCHANGED <<subject, request, doubled>>
-----------------------------------------------------------------------------
Complete(x) ==
  /\ subject[x] = "open" /\ subject' = [subject EXCEPT ![x] = "completed"]
  /\ UNCHANGED <<review, request, doubled>>

\* A booking's or a user's reviews go with it (ON DELETE CASCADE).
DeleteSubject(x) ==
  /\ subject[x] # "deleted" /\ subject' = [subject EXCEPT ![x] = "deleted"]
  /\ review' = [i \in Review |-> IF review[i].subject = x /\ review[i].state = "live"
                                 THEN [review[i] EXCEPT !.state = "deleted"] ELSE review[i]]
  /\ UNCHANGED <<request, doubled>>

Next ==
  \/ \E q \in Request : Check(q) \/ Insert(q) \/ Select(q) \/ Write(q) \/ Restore(q) \/ RemoveRow(q)
  \/ \E q \in Request, i \in Review : Update(q, i) \/ Remove(q, i)
  \/ \E q \in Request, table \in Table, x \in Subject : Create(q, table, x)
  \/ \E i \in Review : Delete(i)
  \/ \E x \in Subject : Complete(x) \/ DeleteSubject(x)
-----------------------------------------------------------------------------
(* However calls interleave with deletions, a booking has one review of    *)
(* its tool and a user one of the application, unless two creations were   *)
(* both past the look for an earlier one, or an update saved a review that *)
(* had been deleted; and a review never outlives what it is about.         *)
(* (reviews.service.ts, admin-reviews.service.ts)                          *)
OneReview ==
  \A table \in Table, x \in Subject :
    /\ Cardinality(Existing(table, x)) > 1 => <<table, x>> \in doubled
    /\ Existing(table, x) # {} => table # "reviews" /\ subject[x] # "deleted"
=============================================================================
