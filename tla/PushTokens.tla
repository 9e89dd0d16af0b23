------------------------------ MODULE PushTokens ------------------------------
(***************************************************************************)
(* The devices a user is notified on: registerPushToken,                   *)
(* deduplicateActiveTokensForUser and unregisterPushToken of               *)
(* notifications.service.ts, and what notification-dispatcher.service.ts   *)
(* makes of the errors Expo reports.                                       *)
(*                                                                         *)
(* A registration looks its token up, saves it, reads the user's other     *)
(* active tokens and disables those of the same device: each a query of    *)
(* its own, with other calls in between.  save() of a loaded row selects   *)
(* it again and updates the columns that differ.                           *)
(***************************************************************************)
EXTENDS FiniteSets

CONSTANTS User, Token, Device,
          NoDevice,   \* a registration without a device id
          NoUser,     \* the user of a token that is not stored
          Call        \* the slots of registrations in flight

VARIABLES row,     \* push_device_tokens, by token
          call,    \* the registrations in flight
          blurred  \* history: the tokens that two registrations were saving at once,
                   \* or whose de-duplication failed

vars == <<row, call, blurred>>

Row == [user : User \cup {NoUser}, device : Device \cup {NoDevice}, active : BOOLEAN]
Column == {"user", "device", "active"}
Absent == [user |-> NoUser, device |-> NoDevice, active |-> FALSE]
Label == {"idle", "find", "insert", "select", "update", "siblings", "disable"}
NoCall == [at |-> "idle", token |-> CHOOSE t \in Token : TRUE, ent |-> Absent,
           diff |-> {}, rivals |-> {}]

TypeOK ==
  /\ row \in [Token -> Row]
  /\ call \in [Call -> [at : Label, token : Token, ent : Row,
                        diff : SUBSET Column, rivals : SUBSET Token]]
  /\ blurred \subseteq Token

Init ==
  /\ row = [t \in Token |-> Absent]
  /\ call = [c \in Call |-> NoCall]
  /\ blurred = {}
-----------------------------------------------------------------------------
Stored(t) == row[t].user # NoUser
Saving(t) == {c \in Call : call[c].at \in {"select", "update"} /\ call[c].token = t}
Goto(c, label) ==
  call' = [call EXCEPT ![c] = IF label = "idle" THEN NoCall ELSE [@ EXCEPT !.at = label]]

\* The registration is saved; its user and its token are all that is needed now.
ToSiblings(c) ==
  call' = [call EXCEPT ![c] = [NoCall EXCEPT !.at = "siblings", !.token = call[c].token,
                                             !.ent.user = call[c].ent.user]]

Register(c, u, t, d) ==
  /\ call[c] = NoCall
  /\ call' = [call EXCEPT ![c] = [NoCall EXCEPT !.at = "find", !.token = t,
                !.ent = [user |-> u, device |-> d, active |-> TRUE]]]
  /\ UNCHANGED <<row, blurred>>

\* A device id that is left out stays what it was.
Find(c) ==
  LET t == call[c].token IN
  /\ call[c].at = "find"
  /\ call' = [call EXCEPT ![c] =
       IF Stored(t)
       THEN [@ EXCEPT !.at = "select",
                      !.ent.device = IF call[c].ent.device = NoDevice THEN row[t].device
                                     ELSE call[c].ent.device]
       ELSE [@ EXCEPT !.at = "insert"]]
  /\ UNCHANGED <<row, blurred>>

\* The token is unique: the second of two first registrations fails.
Insert(c) ==
  LET t == call[c].token IN
  /\ call[c].at = "insert"
  /\ IF Stored(t) THEN Goto(c, "idle") /\ UNCHANGED row
     ELSE ToSiblings(c) /\ row' = [row EXCEPT ![t] = call[c].ent]
  /\ UNCHANGED blurred

Select(c) ==
  /\ call[c].at = "select"
  /\ call' = [call EXCEPT ![c] = [@ EXCEPT !.at = "update",
       !.diff = {k \in Column : call[c].ent[k] # row[call[c].token][k]}]]
  /\ UNCHANGED <<row, blurred>>

\* A mutant: a token that is stored already is not de-duplicated.
UpdateOnly(c) ==
  LET t == call[c].token IN
  /\ call[c].at = "update"
  /\ row' = [row EXCEPT ![t] =
       [k \in Column |-> IF k \in call[c].diff THEN call[c].ent[k] ELSE @[k]]]
  /\ blurred' = IF Saving(t) = {c} THEN blurred ELSE blurred \cup {t}
  /\ Goto(c, "idle")

Update(c) ==
  LET t == call[c].token IN
  /\ call[c].at = "update"
  /\ row' = [row EXCEPT ![t] =
       [k \in Column |-> IF k \in call[c].diff THEN call[c].ent[k] ELSE @[k]]]
  /\ blurred' = IF Saving(t) = {c} THEN blurred ELSE blurred \cup {t}
  /\ ToSiblings(c)

(* The other active tokens of the user that `kept` replaces: those of its  *)
(* device, or all when it has none.                                        *)
Superseded(u, kept) ==
  {s \in Token \ {kept} : /\ row[s].user = u /\ row[s].active
                          /\ row[kept].device \in {NoDevice, row[s].device}}

Siblings(c) ==
  LET u == call[c].ent.user
      kept == call[c].token
      there == row[kept].user = u /\ row[kept].active
  IN  /\ call[c].at = "siblings"
      /\ IF there /\ Superseded(u, kept) # {}
         THEN call' = [call EXCEPT ![c] = [@ EXCEPT !.at = "disable",
                                             !.rivals = Superseded(u, kept)]]
         ELSE Goto(c, "idle")
      /\ UNCHANGED <<row, blurred>>

Disable(c) ==
  /\ call[c].at = "disable"
  /\ row' = [t \in Token |-> IF t \in call[c].rivals
                             THEN [row[t] EXCEPT !.active = FALSE] ELSE row[t]]
  /\ Goto(c, "idle")
  /\ UNCHANGED blurred

\* A query of the de-duplication fails: a warning, and the token is registered.
DeduplicationFails(c) ==
  /\ call[c].at \in {"siblings", "disable"}
  /\ blurred' = blurred \cup {call[c].token}
  /\ Goto(c, "idle")
  /\ UNCHANGED row

Disabled(t) ==
  /\ row[t].active
  /\ row' = [row EXCEPT ![t].active = FALSE]
  /\ UNCHANGED <<call, blurred>>

\* unregisterPushToken, whoever the token belongs to.
Unregister(t) == Disabled(t)

\* sendRemotePush: Expo's ticket says that the device, or the message, is no good.
\* The user's active tokens were read before; the token may have changed hands.
DeviceGone(t) == Disabled(t)

\* lookupExpoPushReceipts, twelve seconds later: the device may have registered again.
ReceiptFails(t) == Disabled(t)

Progress(c) ==
  \/ Find(c) \/ Insert(c) \/ Select(c) \/ Update(c) \/ Siblings(c) \/ Disable(c)
  \/ DeduplicationFails(c)

Next ==
  \/ \E c \in Call :
       \/ Progress(c)
       \/ \E u \in User, t \in Token, d \in Device \cup {NoDevice} : Register(c, u, t, d)
  \/ \E t \in Token : Unregister(t) \/ DeviceGone(t) \/ ReceiptFails(t)
-----------------------------------------------------------------------------
(* "So we never dispatch to a duplicated / superseded token": when all     *)
(* registrations have ended, a user has one active token on a device, in   *)
(* whatever order overlapping registrations found, saved, read and         *)
(* disabled.  A token without a device id may stay beside one that has     *)
(* one: the registration with a device does not look at it.  Left out are  *)
(* a token whose de-duplication failed, and one that two registrations     *)
(* were saving at once: the columns of their rows may be mixed, and the    *)
(* later save may bring back what the earlier one's user has replaced.     *)
OneActivePerDevice ==
  (\A c \in Call : call[c] = NoCall) =>
    \A u \in User, s, t \in Token \ blurred :
      (/\ s # t /\ row[s].user = u /\ row[t].user = u
       /\ row[s].active /\ row[t].active)
        => row[s].device = NoDevice \/ row[s].device # row[t].device
=============================================================================
