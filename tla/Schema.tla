------------------------------- MODULE Schema -------------------------------
(***************************************************************************)
(* The tables an account is spread over and the foreign keys between them, *)
(* as the entities declare them.  A table is the function from its         *)
(* referencing columns to what the deletion of the referenced row does to  *)
(* the referencing one: "cascade" deletes it, "restrict" (what a relation  *)
(* without onDelete gets) refuses the deletion.  The other columns of the  *)
(* tables are abstracted.  A row has an identity, a table and the rows its *)
(* columns point to; a column that is null is not in the row's domain.     *)
(***************************************************************************)
EXTENDS Integers, FiniteSets

CONSTANTS Row,     \* the identities of rows
          TableOf, \* the table of each row
          At       \* for each row, the rows its columns refer to

(* No chain of references between tables is longer (payment, transaction,  *)
(* dispute, booking, tool, user).                                          *)
Depth == 5

Cascade == "cascade"
Restrict == "restrict"

Users == [none \in {} |-> Cascade]
Tools == [owner |-> Cascade]
ToolPhotos == [tool |-> Cascade]
Bookings == [tool |-> Cascade, renter |-> Cascade, owner |-> Cascade]
DepositJobs == [booking |-> Cascade]
Wallets == [user |-> Cascade]
Transactions == [sender |-> Restrict, recipient |-> Restrict,
                 wallet |-> Cascade, booking |-> Restrict, dispute |-> Restrict]
PaymentTransactions == [transaction |-> Restrict]
Refunds == [transaction |-> Restrict, booking |-> Restrict]
Disputes == [initiator |-> Cascade, respondent |-> Cascade,
             tool |-> Cascade, booking |-> Cascade, moderator |-> Restrict]
Reviews == [reviewer |-> Cascade, reviewee |-> Cascade,
            tool |-> Cascade, booking |-> Cascade]
ToolReviews == [reviewer |-> Cascade, reviewee |-> Cascade,
                tool |-> Cascade, booking |-> Cascade]
AppReviews == [reviewer |-> Cascade]
Bookmarks == [user |-> Cascade, tool |-> Cascade]
Documents == [user |-> Cascade, verifiedBy |-> Restrict, tool |-> Restrict]
Notifications == [user |-> Restrict]
Preferences == [user |-> Restrict]
Activities == [user |-> Restrict]
Sessions == [user |-> Restrict]
Emails == [user |-> Restrict, admin |-> Restrict]
SecurityLogs == [user |-> Restrict]
DeletionRequests == [user |-> Cascade]

Table == [users |-> Users, tools |-> Tools, photos |-> ToolPhotos,
          bookings |-> Bookings, jobs |-> DepositJobs, wallets |-> Wallets,
          transactions |-> Transactions, payments |-> PaymentTransactions,
          refunds |-> Refunds, disputes |-> Disputes, reviews |-> Reviews,
          toolReviews |-> ToolReviews, appReviews |-> AppReviews,
          bookmarks |-> Bookmarks, documents |-> Documents,
          notifications |-> Notifications, preferences |-> Preferences,
          activities |-> Activities, sessions |-> Sessions, emails |-> Emails,
          logs |-> SecurityLogs, requests |-> DeletionRequests]

ASSUME RowsFitTables ==
  \A r \in Row : /\ TableOf[r] \in DOMAIN Table
                 /\ DOMAIN At[r] \subseteq DOMAIN Table[TableOf[r]]
                 /\ \A c \in DOMAIN At[r] : At[r][c] \in Row

RowsOf == [table \in DOMAIN Table |-> {r \in Row : TableOf[r] = table}]
In(db, table) == db \cap RowsOf[table]

Points(r, column, p) == column \in DOMAIN At[r] /\ At[r][column] = p

(* The rows that refer to p by a column with this onDelete.                *)
Referring(p, onDelete) ==
  {r \in Row : \E c \in DOMAIN At[r] : /\ At[r][c] = p
                                     /\ Table[TableOf[r]][c] = onDelete}
Cascading == [p \in Row |-> Referring(p, Cascade)]
Restricting == [p \in Row |-> Referring(p, Restrict)]
Related == [p \in Row |-> Cascading[p] \cup Restricting[p]]

(* The rows that p leads to, over and over.                                *)
Closure(next) ==
  LET after[n \in 0 .. Depth] ==
        IF n = 0 THEN [p \in Row |-> {p}]
        ELSE [p \in Row |-> UNION {{q} \cup next[q] : q \in after[n - 1][p]}]
  IN  after[Depth]
AllCascading == Closure(Cascading)
AllRelated == Closure(Related)

(* What goes when the rows S go: S and, again and again, what cascades.    *)
(* What a row refers to is there, and so is the chain that leads to it.    *)
Doomed(db, S) == S \cup (db \cap UNION {AllCascading[p] : p \in S})

(* What refuses the deletion of rows `gone`: rows that are to stay refuse  *)
(* it, rows that are to go as well may: the storage engine checks the keys *)
(* of a row in an order of its own.                                        *)
Restrictors(db, gone) == db \cap UNION {Restricting[p] : p \in gone}

(* The rows that are there because of the rows S.                          *)
Dependents(db, S) == S \cup (db \cap UNION {AllRelated[p] : p \in S})

CanInsert(db, r) == r \notin db /\ \A c \in DOMAIN At[r] : At[r][c] \in db

ReferencesHold(db) == \A r \in db : \A c \in DOMAIN At[r] : At[r][c] \in db
=============================================================================
