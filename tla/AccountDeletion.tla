--------------------------- MODULE AccountDeletion ---------------------------
(***************************************************************************)
(* The deletion of an account while the application goes on.  deleteMy-    *)
(* Account runs some thirty DELETE statements one after the other, outside *)
(* a transaction, over the rows of the account and of its bookings; each   *)
(* commits by itself, the foreign keys may refuse one, and any of them may *)
(* fail.  Meanwhile users book, pay, review, bookmark and dispute, calls   *)
(* that read a row before the deletion save it after, and the validation   *)
(* that the clients ask first answers from what it sees.                   *)
(*                                                                         *)
(* A creation is one step: the services look up what the new row refers to *)
(* and insert it, and a referenced row that goes in between makes the      *)
(* insertion fail on its foreign key, which changes nothing.               *)
(***************************************************************************)
EXTENDS Schema, Sequences

CONSTANTS Leaver,    \* the user who deletes the account
          Core,      \* the rows every database holds at the start
          Optional,  \* the rows that may be there at the start besides
          Editable,  \* the rows other calls read, change and save
          NoRow,
          MaxLate    \* bound: rows that appear during one deletion

ASSUME LeaverIsUser == Leaver \in Row /\ TableOf[Leaver] = "users"
ASSUME NoRowIsNone == NoRow \notin Row

VARIABLES
  db,       \* the rows that are there
  live,     \* the bookings that are pending, accepted or ongoing
  open,     \* the disputes that are pending
  call,     \* the deletion in flight
  late,     \* the rows inserted since the deletion in flight, or last, began
  held,     \* the row an update in flight has read and will save, or NoRow
  check,    \* the validation in flight, or one that has allowed a deletion
  culprits  \* the rows that refused the last deletion

vars == <<db, live, open, call, late, held, check, culprits>>

(* A statement is a repository.delete({ by: item }) for each item of a     *)
(* list: the leaver, or rows read before.                                  *)
Delete(table, column, list) == [from |-> table, by |-> column, over |-> list]

PersonalStatements ==
  << Delete("sessions", "user", "leaver"),
     Delete("activities", "user", "leaver"),
     Delete("requests", "user", "leaver"),
     Delete("notifications", "user", "leaver"),
     Delete("bookmarks", "user", "leaver"),
     Delete("documents", "user", "leaver"),
     Delete("disputes", "initiator", "leaver"),
     Delete("disputes", "respondent", "leaver"),
     Delete("reviews", "reviewer", "leaver"),
     Delete("reviews", "reviewee", "leaver") >>

(* Mutant: the payments of the bookings of the leaver's tools are left.    *)
PaymentStatementsOfOwn ==
  << Delete("payments", "transaction", "transactions"),
     Delete("payments", "transaction", "transactionsOfRented") >>

PaymentStatements ==
  << Delete("payments", "transaction", "transactions"),
     Delete("payments", "transaction", "transactionsOfRented"),
     Delete("payments", "transaction", "transactionsOfLet") >>

TransactionStatements ==
  << Delete("transactions", "sender", "leaver"),
     Delete("transactions", "recipient", "leaver"),
     Delete("transactions", "booking", "rented"),
     Delete("transactions", "booking", "let") >>

AccountStatements ==
  << Delete("bookings", "renter", "leaver"),
     Delete("bookings", "tool", "owned"),
     Delete("tools", "owner", "leaver"),
     Delete("preferences", "user", "leaver"),
     Delete("emails", "user", "leaver"),
     Delete("emails", "admin", "leaver"),
     Delete("logs", "user", "leaver"),
     Delete("wallets", "user", "leaver"),
     Delete("users", "id", "leaver") >>

Script == PersonalStatements \o PaymentStatements \o TransactionStatements
            \o AccountStatements

(* A validation, by the query it comes to: the bookings and disputes that  *)
(* have gone on since it began, and the tools it has read.                 *)
NoCheck == [at |-> "none", steady |-> {}, tools |-> {}]

NoCall == [at |-> 0, todo |-> {}, rented |-> {}, owned |-> {}]

(* Mutant: the criterion is undefined, and an undefined criterion is none. *)
MatchedAll(s, item) == In(db, s.from)

(* The rows one DELETE matches.                                            *)
Matched(s, item) ==
  {r \in In(db, s.from) : IF s.by = "id" THEN r = item
                                         ELSE Points(r, s.by, item)}

Rented == {b \in In(db, "bookings") : Points(b, "renter", Leaver)}
Owned == {t \in In(db, "tools") : Points(t, "owner", Leaver)}
BookingsOf(tools) == {b \in In(db, "bookings") : At[b].tool \in tools}
TransactionsOf(bookings) ==
  {x \in In(db, "transactions") : \E b \in bookings : Points(x, "booking", b)}

(* The items of a statement, read when the call comes to it.               *)
Items(s, rented, owned) ==
  CASE s.over = "leaver" -> {Leaver}
    [] s.over = "transactions" ->
         {x \in In(db, "transactions") : Points(x, "sender", Leaver)
                                           \/ Points(x, "recipient", Leaver)}
    [] s.over = "transactionsOfRented" -> TransactionsOf(rented)
    [] s.over = "transactionsOfLet" -> TransactionsOf(BookingsOf(owned))
    [] s.over = "rented" -> rented
    [] s.over = "let" -> BookingsOf(owned)
    [] s.over = "owned" -> owned

Deleting == call.at # 0
-----------------------------------------------------------------------------
References == ReferencesHold(db)

TypeOK ==
  /\ db \subseteq Row /\ References
  /\ live \subseteq In(db, "bookings")
  /\ open \subseteq In(db, "disputes")
  /\ call \in [at : 0 .. Len(Script), todo : SUBSET Row,
               rented : SUBSET Row, owned : SUBSET Row]
  /\ late \in SUBSET Row
  /\ held \in Editable \cup {NoRow}
  /\ check \in [at : {"none", "renter", "tools", "owner", "disputes",
                      "unreturned", "allowed"},
                steady : SUBSET (live \cup open), tools : SUBSET RowsOf["tools"]]
  /\ culprits \subseteq Row

Init ==
  /\ \E S \in SUBSET Optional : db = Core \cup S /\ ReferencesHold(db)
  /\ live \in SUBSET In(db, "bookings")
  /\ open \in SUBSET In(db, "disputes")
  /\ call = NoCall
  /\ late = {} /\ held = NoRow /\ culprits = {}
  /\ check = NoCheck
-----------------------------------------------------------------------------
(* Changes of the database.  What comes while a deletion runs is late.     *)
Insert(r) ==
  /\ CanInsert(db, r)
  /\ Deleting => Cardinality(late \cup {r}) <= MaxLate
  /\ db' = db \cup {r}
  /\ late' = IF Deleting THEN late \cup {r} ELSE late

(* S and what cascades from it goes, unless a row that stays refers to it. *)
Erase(S) ==
  LET gone == Doomed(db, S) IN
    /\ Restrictors(db, gone) \subseteq gone
    /\ db' = db \ gone
    /\ live' = live \ gone
    /\ open' = open \ gone

Idle == UNCHANGED <<call, culprits, held>>
Steady == check' = [check EXCEPT !.steady = @ \cap (live' \cup open')]

(* A user books, POST /bookings.                                           *)
Book(b) ==
  /\ Insert(b)
  /\ live' = live \cup {b}
  /\ UNCHANGED open /\ Idle /\ Steady

(* The booking is rejected, cancelled or completed, for good.              *)
EndBooking(b) ==
  /\ b \in live
  /\ live' = live \ {b}
  /\ UNCHANGED <<db, open, late>> /\ Idle /\ Steady

(* DELETE /bookings/:id.                                                   *)
RemoveBooking(b) ==
  /\ b \in db
  /\ Erase({b})
  /\ UNCHANGED late /\ Idle /\ Steady

(* A payment intent is recorded for a booking.                             *)
Pay(x) ==
  /\ Insert(x)
  /\ UNCHANGED <<live, open>> /\ Idle /\ Steady

(* An administrator records how a provider handled a transaction.          *)
RecordPayment(p) ==
  /\ Insert(p)
  /\ UNCHANGED <<live, open>> /\ Idle /\ Steady

(* A refund request of a transaction; a refund row is never deleted.       *)
RequestRefund(f) ==
  /\ Insert(f)
  /\ UNCHANGED <<live, open>> /\ Idle /\ Steady

(* A party to a booking opens a dispute unless it has one open; it is      *)
(* settled; an administrator removes it.                                   *)
OpenDispute(d) ==
  /\ Insert(d)
  /\ \A o \in open : \E c \in {"booking", "initiator"} : At[o][c] # At[d][c]
  /\ open' = open \cup {d}
  /\ UNCHANGED live /\ Idle /\ Steady
SettleDispute(d) ==
  /\ d \in open
  /\ open' = open \ {d}
  /\ UNCHANGED <<db, live, late>> /\ Idle /\ Steady
RemoveDispute(d) ==
  /\ d \in db
  /\ Erase({d})
  /\ UNCHANGED late /\ Idle /\ Steady

(* The review of a booking that is over, one for each booking.             *)
CreateToolReview(v) ==
  /\ Insert(v)
  /\ At[v].booking \notin live
  /\ \A w \in In(db, "toolReviews") : At[w].booking # At[v].booking
  /\ UNCHANGED <<live, open>> /\ Idle /\ Steady
RemoveToolReview(v) ==
  /\ v \in db
  /\ Erase({v})
  /\ UNCHANGED late /\ Idle /\ Steady

(* A tool among the favourites, once.                                      *)
Bookmark(k) ==
  /\ Insert(k)
  /\ \A l \in In(db, "bookmarks") : At[l] # At[k]
  /\ UNCHANGED <<live, open>> /\ Idle /\ Steady
RemoveByUserAndTool(k) ==
  /\ k \in db
  /\ Erase({k})
  /\ UNCHANGED late /\ Idle /\ Steady

(* Any service may notify a user at any time.                              *)
Notify(n) ==
  /\ Insert(n)
  /\ UNCHANGED <<live, open>> /\ Idle /\ Steady
RemoveNotification(n) ==
  /\ n \in db
  /\ Erase({n})
  /\ UNCHANGED late /\ Idle /\ Steady

(* An update reads a row and saves it later; the save of a row that was    *)
(* deleted in between inserts it again, if its foreign keys allow.         *)
Read(r) ==
  /\ held = NoRow /\ r \in db
  /\ held' = r
  /\ UNCHANGED <<db, live, open, call, late, culprits>> /\ Steady
Save ==
  /\ held # NoRow
  /\ held' = NoRow
  /\ \/ (held \in db \/ ~CanInsert(db, held)) /\ UNCHANGED <<db, late>>
     \/ Insert(held)
  /\ UNCHANGED <<live, open, call, culprits>> /\ Steady
-----------------------------------------------------------------------------
(* GET /users/:id/deletion-validation: queries one after the other, which  *)
(* change nothing.                                                         *)
ReadsOnly == UNCHANGED <<db, live, open, call, late, held, culprits>>

StartValidation ==
  /\ check.at \in {"none", "allowed"} /\ Leaver \in db
  /\ check' = [at |-> "renter", steady |-> live \cup open, tools |-> {}]
  /\ ReadsOnly

Ask(from, to, tools) ==
  /\ check.at = from
  /\ check' = [check EXCEPT !.at = to, !.tools = tools]
  /\ ReadsOnly

AskAsRenter ==
  /\ \A b \in live : At[b].renter # Leaver
  /\ Ask("renter", "tools", {})

AskTools == Ask("tools", "owner", Owned)

(* Mutant: an error of this query is swallowed, too.                       *)
AskAsOwnerOrSwallow == Ask("owner", "disputes", {})

AskAsOwner ==
  /\ \A b \in live : At[b].tool \notin check.tools
  /\ Ask("owner", "disputes", {})

(* A pending dispute forbids the deletion, but an error of this query      *)
(* counts as none.                                                         *)
AskDisputes == Ask("disputes", "unreturned", {})

(* So does an error of the last, the count of the renter's ongoing bookings*)
(* that he has not returned; the answer is TRUE.                           *)
AskUnreturned == Ask("unreturned", "allowed", {})

(* The answer FALSE: something blocks, or a query fails whose error is not *)
(* swallowed.  What the queries left would see makes no difference.        *)
Forbid ==
  /\ check.at \notin {"none", "allowed"}
  /\ check' = NoCheck
  /\ ReadsOnly

Validation ==
  \/ StartValidation \/ AskAsRenter \/ AskTools \/ AskAsOwner
  \/ AskDisputes \/ AskUnreturned \/ Forbid

(* DELETE /users/account.  The server asks for no validation.              *)
StartDeletion ==
  /\ ~Deleting /\ Leaver \in db
  /\ call' = [NoCall EXCEPT !.at = 1, !.todo = {Leaver}]
  /\ late' = {} /\ culprits' = {}
  /\ UNCHANGED <<db, live, open, held>> /\ Steady

(* What the call does once the items `left` of its statement remain: it    *)
(* goes on to the next statement when there are none.  The bookings and    *)
(* the tools are read once, when the payments of the leaver's own          *)
(* transactions are gone.                                                  *)
Continue(left) ==
  IF left # {} THEN [call EXCEPT !.todo = left]
  ELSE IF call.at = Len(Script) THEN NoCall
  ELSE LET next == Script[call.at + 1]
           reads == next.over = "transactionsOfRented"
           rented == IF reads THEN Rented ELSE call.rented
           owned == IF reads THEN Owned ELSE call.owned
       IN  [at |-> call.at + 1, todo |-> Items(next, rented, owned),
            rented |-> rented, owned |-> owned]

(* One DELETE commits.                                                     *)
Statement ==
  /\ Deleting
  /\ \E item \in call.todo :
       /\ Erase(Matched(Script[call.at], item))
       /\ call' = Continue(call.todo \ {item})
  /\ UNCHANGED <<late, held, culprits>> /\ Steady

(* A list that was read empty.                                             *)
Nothing ==
  /\ Deleting /\ call.todo = {}
  /\ call' = Continue({})
  /\ UNCHANGED <<db, live, open, late, held, culprits>> /\ Steady

(* A foreign key refuses a DELETE: the call ends with an error and what it *)
(* deleted stays deleted.                                                  *)
Refused ==
  /\ Deleting
  /\ \E item \in call.todo :
       LET gone == Doomed(db, Matched(Script[call.at], item)) IN
         /\ Restrictors(db, gone) # {}
         /\ culprits' = Restrictors(db, gone)
  /\ call' = NoCall
  /\ UNCHANGED <<db, live, open, late, held>> /\ Steady

(* A query fails, or the process dies.                                     *)
Interrupted ==
  /\ Deleting
  /\ call' = NoCall
  /\ UNCHANGED <<db, live, open, late, held, culprits>> /\ Steady

(* POST /users/bulk-action with "delete": one DELETE on the user.          *)
Remove ==
  /\ Leaver \in db
  /\ Erase({Leaver})
  /\ UNCHANGED late /\ Idle /\ Steady

Next ==
  \/ \E b \in RowsOf["bookings"] : Book(b) \/ EndBooking(b) \/ RemoveBooking(b)
  \/ \E x \in RowsOf["transactions"] : Pay(x)
  \/ \E p \in RowsOf["payments"] : RecordPayment(p)
  \/ \E f \in RowsOf["refunds"] : RequestRefund(f)
  \/ \E d \in RowsOf["disputes"] : OpenDispute(d) \/ SettleDispute(d)
                                     \/ RemoveDispute(d)
  \/ \E v \in RowsOf["toolReviews"] : CreateToolReview(v) \/ RemoveToolReview(v)
  \/ \E k \in RowsOf["bookmarks"] : Bookmark(k) \/ RemoveByUserAndTool(k)
  \/ \E n \in RowsOf["notifications"] : Notify(n) \/ RemoveNotification(n)
  \/ \E r \in Editable : Read(r)
  \/ Save \/ Validation \/ StartDeletion \/ Statement \/ Nothing \/ Refused
  \/ Interrupted \/ Remove

Spec == Init /\ [][Next]_vars
-----------------------------------------------------------------------------
(* The statements are "in the correct order to avoid foreign key           *)
(* constraints": all that refuses a deletion is a refund of one of the     *)
(* account's transactions, which no statement deletes, or a row that       *)
(* appeared after the deletion began.                                      *)
OnlyKnownObstacles == culprits \subseteq late \cup RowsOf["refunds"]

(* A step of the deletion itself.                                          *)
DeletionSteps == Deleting /\ call' # call

(* The validation protects what goes on: a deletion takes away no booking  *)
(* that has gone on since before a validation that allowed it began, though*)
(* its queries run one after the other and errors of the last two are      *)
(* swallowed.                                                              *)
ValidatedLosesNothing ==
  [][DeletionSteps /\ check.at = "allowed" =>
       \A b \in check.steady \cap live : b \in db']_vars

(* A deletion touches nobody else: what it removes belongs to the account, *)
(* or exists because of one of its tools, bookings or transactions.        *)
KeepsOthers ==
  [][DeletionSteps => db \ db' \subseteq Dependents(db, {Leaver})]_vars
=============================================================================
