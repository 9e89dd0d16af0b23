------------------------------- MODULE Platform -------------------------------
(***************************************************************************)
(* The services beside the money paths.  They share no row and no object   *)
(* that their properties are about, so that running them side by side      *)
(* reaches nothing that one of them does not reach alone: `focus` is the   *)
(* one that runs, and v1 .. v8 are its variables.                          *)
(***************************************************************************)
EXTENDS Integers, FiniteSets

CONSTANTS Window, ReadLimit, WriteLimit, ReadBlock, WriteBlock, LastTick,
          User, Token, Device, NoDevice, NoUser, Call,
          Rule1, Rule2, Cooldown, Poll, LastTime, MaxUpdates,
          Caller, ToolStatus, LastContent,
          Address, EventType, Period, GlobalMax, AddressMax, EventMax, LastMinute,
          Booking, LastDay, MaxFaults,
          Datum, Span, LastDate,
          Item, PageSize,
          Review, Subject, Request,
          Child, File, NoFile, Editor,
          Visit,
          Photo

ASSUME PlatformAssumption ==
  /\ {Window, ReadLimit, WriteLimit, ReadBlock, WriteBlock} \subseteq Nat \ {0}
  /\ WriteLimit <= ReadLimit
  /\ NoUser \notin User /\ NoDevice \notin Device /\ NoFile \notin File /\ "main" \notin Child
  /\ Cooldown \in Nat \ {0} /\ "DRAFT" \in ToolStatus
  /\ {Period, GlobalMax, AddressMax, EventMax, Span, PageSize} \subseteq Nat \ {0}
  /\ Address \cap EventType = {} /\ "global" \notin Address \cup EventType
  /\ LastDay \in Nat /\ LastDay >= 6 /\ MaxFaults \in Nat
  /\ {LastTick, LastMinute, LastDate} \subseteq Nat /\ IsFiniteSet(Datum)
  /\ LastContent \in Nat \ {0} /\ {LastTime, MaxUpdates} \subseteq Nat /\ Token # {}

VARIABLES focus, v1, v2, v3, v4, v5, v6, v7, v8

Limits == INSTANCE RequestLimits WITH clock <- v1, record <- v2, passed <- v3, barred <- v4
Push == INSTANCE PushTokens WITH row <- v1, call <- v2, blurred <- v3
Alerting == INSTANCE Alerts WITH Rules <- <<Rule1, Rule2>>, Check <- Poll, time <- v1, rules <- v2,
                                 check <- v3, sent <- v4, excused <- v5
Moderating == INSTANCE Listings WITH tool <- v1, caller <- v2, reviewed <- v3
Deliveries == INSTANCE WebhookLimits WITH minute <- v1, entry <- v2, through <- v3
Reminding == INSTANCE Reminders WITH now <- v1, booking <- v2, run <- v3, early <- v4,
                                     told <- v5, faults <- v6
Reporting == INSTANCE Reports WITH Row <- Datum, asked <- v1, date <- v2, stored <- v3, report <- v4,
                                   answers <- v5, disturbed <- v6, raised <- v7
Paging == INSTANCE Pages WITH list <- v1, listed <- v2, reader <- v3, missed <- v4,
                              shaken <- v5
Reviewing == INSTANCE Reviews WITH review <- v1, subject <- v2, request <- v3, doubled <- v4
Editing == INSTANCE Editorial WITH kind <- v1, parent <- v2, main <- v3, child <- v4,
                                   file <- v5, lost <- v6, edit <- v7, excused <- v8
Account == INSTANCE Accounts WITH account <- v1, owned <- v2, visit <- v3, held <- v4,
                                  blended <- v5
Photographing == INSTANCE Gallery WITH tool <- v1, photo <- v2, primary <- v3, lost <- v4,
                                       job <- v5, crossed <- v6, excused <- v7

vars == <<focus, v1, v2, v3, v4, v5, v6, v7, v8>>

TypeOK ==
  /\ focus = "limits" => Limits!TypeOK
  /\ focus = "push" => Push!TypeOK
  /\ focus = "alerts" => Alerting!TypeOK
  /\ focus = "listings" => Moderating!TypeOK
  /\ focus = "deliveries" => Deliveries!TypeOK
  /\ focus = "reminders" => Reminding!TypeOK
  /\ focus = "reports" => Reporting!TypeOK
  /\ focus = "lists" => Paging!TypeOK
  /\ focus = "reviews" => Reviewing!TypeOK
  /\ focus = "editorial" => Editing!TypeOK
  /\ focus = "accounts" => Account!TypeOK
  /\ focus = "gallery" => Photographing!TypeOK

\* A variable that the service has no use for.
Unused(v) == v = 0

Init ==
  \/ focus = "limits" /\ Limits!Init /\ Unused(v5) /\ Unused(v6) /\ Unused(v7) /\ Unused(v8)
  \/ focus = "push" /\ Push!Init /\ Unused(v4) /\ Unused(v5) /\ Unused(v6) /\ Unused(v7) /\ Unused(v8)
  \/ focus = "alerts" /\ Alerting!Init /\ Unused(v6) /\ Unused(v7) /\ Unused(v8)
  \/ focus = "listings" /\ Moderating!Init /\ Unused(v4) /\ Unused(v5) /\ Unused(v6) /\ Unused(v7) /\ Unused(v8)
  \/ focus = "deliveries" /\ Deliveries!Init /\ Unused(v4) /\ Unused(v5) /\ Unused(v6) /\ Unused(v7) /\ Unused(v8)
  \/ focus = "reminders" /\ Reminding!Init /\ Unused(v7) /\ Unused(v8)
  \/ focus = "reports" /\ Reporting!Init /\ Unused(v8)
  \/ focus = "lists" /\ Paging!Init /\ Unused(v6) /\ Unused(v7) /\ Unused(v8)
  \/ focus = "reviews" /\ Reviewing!Init /\ Unused(v5) /\ Unused(v6) /\ Unused(v7) /\ Unused(v8)
  \/ focus = "editorial" /\ Editing!Init
  \/ focus = "accounts" /\ Account!Init /\ Unused(v6) /\ Unused(v7) /\ Unused(v8)
  \/ focus = "gallery" /\ Photographing!Init /\ Unused(v8)

Next ==
  \/ focus = "limits" /\ Limits!Next /\ UNCHANGED <<focus, v5, v6, v7, v8>>
  \/ focus = "push" /\ Push!Next /\ UNCHANGED <<focus, v4, v5, v6, v7, v8>>
  \/ focus = "alerts" /\ Alerting!Next /\ UNCHANGED <<focus, v6, v7, v8>>
  \/ focus = "listings" /\ Moderating!Next /\ UNCHANGED <<focus, v4, v5, v6, v7, v8>>
  \/ focus = "deliveries" /\ Deliveries!Next /\ UNCHANGED <<focus, v4, v5, v6, v7, v8>>
  \/ focus = "reminders" /\ Reminding!Next /\ UNCHANGED <<focus, v7, v8>>
  \/ focus = "reports" /\ Reporting!Next /\ UNCHANGED <<focus, v8>>
  \/ focus = "lists" /\ Paging!Next /\ UNCHANGED <<focus, v6, v7, v8>>
  \/ focus = "reviews" /\ Reviewing!Next /\ UNCHANGED <<focus, v5, v6, v7, v8>>
  \/ focus = "editorial" /\ Editing!Next /\ UNCHANGED <<focus>>
  \/ focus = "accounts" /\ Account!Next /\ UNCHANGED <<focus, v6, v7, v8>>
  \/ focus = "gallery" /\ Photographing!Next /\ UNCHANGED <<focus, v8>>

Spec == Init /\ [][Next]_vars
-----------------------------------------------------------------------------
\* No request is let through while its key is blocked, and no window sees more
\* than twice its limit (rate-limit.middleware.ts); in a stretch of time as long
\* as a window, at most twice the limit of Stripe's deliveries gets through under
\* each key (webhook-rate-limit.service.ts).
AdmittedWithinLimits ==
  [][/\ focus = "limits" => Limits!AdmittedStep
     /\ focus = "deliveries" => Deliveries!DeliveriesWithinLimits']_vars

\* A user has one active token on a device when all registrations have ended
\* (registerPushToken of notifications.service.ts).
OneActivePerDevice == focus = "push" => Push!OneActivePerDevice

\* Two alerts that the checks send of a rule are its cooldown apart, whatever an
\* administrator changes or tests (payment-alerting.service.ts).
AlertsSpaced == [][focus = "alerts" => Alerting!SpacedStep]_vars

\* No stale save confirms content that nobody looked at (admin-tools.service.ts).
ConfirmedWasSeen == focus = "listings" => Moderating!ConfirmedWasSeen

\* A booking accepted in time is not forgotten when one run is lost or one notice
\* fails: reminders, the overdue notice and its completion (booking-scheduler.service.ts).
NobodyForgotten == focus = "reminders" => Reminding!NobodyForgotten

\* Rows that are created while a report is put together do not make it contradict
\* itself (admin-analytics.service.ts, admin-dashboard.service.ts and others).
ReportsAgree == focus = "reports" => Reporting!ReportsAgree

\* Rows that appear while a list is read page by page hide none that was there
\* (admin-reviews.service.ts, users.service.ts, bookings.service.ts and others).
NoneSkipped == focus = "lists" => Paging!NoneSkipped

\* A booking has one review of its tool, a user one of the application, but for
\* the races that `doubled` names (reviews.service.ts).
OneReview == focus = "reviews" => Reviewing!OneReview

\* An image that is shown is in the store, but for failures and stale saves
\* (news.service.ts, sections.service.ts, tools.service.ts).
ShownIsStored ==
  /\ focus = "editorial" => Editing!ShownIsStored
  /\ focus = "gallery" => Photographing!ShownIsStored

\* A tool has one primary photo, unless two calls that make one primary overlap
\* (tools.service.ts).
OnePrimary == focus = "gallery" => Photographing!OnePrimary

\* A suspension is felt by every way in until an activation or a stale save, and
\* nobody is suspended and active (users.service.ts, auth.service.ts).
SuspensionHolds == focus = "accounts" => Account!SuspensionHolds
=============================================================================
