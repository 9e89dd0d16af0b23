---------------------------- MODULE Platform_proofs ----------------------------
(***************************************************************************)
(* Theorems about the services that Platform puts side by side.  Each      *)
(* service has an inductive invariant of its own, which speaks of the      *)
(* states in which the focus is on it; the focus never moves.              *)
(***************************************************************************)
EXTENDS Platform, Sequences, FiniteSets, FiniteSetTheorems, SequenceTheorems, Sums, TLAPS

LEMMA FocusStays == [Next]_vars => focus' = focus
BY DEF Next, vars
-----------------------------------------------------------------------------
(***************************************************************************)
(* Listings: ConfirmedWasSeen is not inductive, for it says nothing of the *)
(* confirmations that calls hold in memory.  What a call is going to save  *)
(* or insert was reviewed too, and so is the row that its update leaves,   *)
(* as long as nobody wrote the row since the call selected it.             *)
(***************************************************************************)
ListingTypes ==
  /\ v1 \in Moderating!Tool \cup {Moderating!Gone}
  /\ v2 \in [Caller -> [at : {"idle", "select", "update", "insert"},
                        ent : [content : 0 .. LastContent, status : Moderating!Status,
                               moderation : Moderating!Moderation],
                        diff : SUBSET Moderating!Field, mixed : BOOLEAN]]
  /\ v3 \subseteq Moderating!Content
  /\ \A c \in Caller :
       /\ v2[c].at \in {"select", "insert"} => v2[c].ent.content \in Moderating!Content
       /\ v2[c].at = "update" /\ "content" \in v2[c].diff
            => v2[c].ent.content \in Moderating!Content

SeenInMemory(c) ==
  /\ v2[c].at \in {"select", "insert"} /\ v2[c].ent.moderation = "Confirmed"
       => v2[c].ent.content \in v3
  /\ v2[c].at = "update" /\ ~v2[c].mixed /\ v1 # Moderating!Gone
     /\ Moderating!Merged(c).moderation = "Confirmed"
       => Moderating!Merged(c).content \in v3

ListingInv ==
  /\ ListingTypes
  /\ Moderating!ConfirmedWasSeen
  /\ \A c \in Caller : SeenInMemory(c)

LEMMA ListingInit == Moderating!Init => ListingInv
<1> SUFFICES ASSUME Moderating!Init PROVE ListingInv
  OBVIOUS
<1>1. ListingTypes
  BY PlatformAssumption DEF Moderating!Init, ListingTypes, Moderating!Gone, Moderating!NoCaller,
         Moderating!Status, Moderating!Moderation, Moderating!Field
<1>2. Moderating!ConfirmedWasSeen
  BY DEF Moderating!Init, Moderating!ConfirmedWasSeen, Moderating!Gone
<1>3. ASSUME NEW c \in Caller PROVE SeenInMemory(c)
  BY DEF Moderating!Init, SeenInMemory, Moderating!NoCaller
<1> QED BY <1>1, <1>2, <1>3 DEF ListingInv

USE DEF Moderating!Content, Moderating!Status, Moderating!Moderation, Moderating!Field

\* The row after an update is a row, or there is none.
LEMMA MergedIsTool ==
  ASSUME ListingTypes, NEW c \in Caller, v2[c].at = "update", v1 # Moderating!Gone
  PROVE  Moderating!Merged(c) \in Moderating!Tool
BY DEF ListingTypes, Moderating!Merged, Moderating!Tool

\* A call that loads the row.
LEMMA ListingLoad ==
  ASSUME ListingInv, NEW c \in Caller, NEW guard, NEW status \in Moderating!Status,
         NEW moderation \in Moderating!Moderation,
         Moderating!Load(c, guard, status, moderation)
  PROVE  ListingInv'
<1> DEFINE ent == [content |-> v1.content, status |-> status, moderation |-> moderation]
           loaded == [Moderating!NoCaller EXCEPT !.at = "select", !.ent = ent]
<1>1. /\ v2' = [v2 EXCEPT ![c] = loaded] /\ v1' = v1 /\ v1 \in Moderating!Tool
      /\ v3' = IF moderation = "Confirmed" THEN v3 \cup {v1.content} ELSE v3
  BY DEF ListingInv, ListingTypes, Moderating!Load
<1>2. /\ ent \in [content : 0 .. LastContent, status : Moderating!Status,
                  moderation : Moderating!Moderation]
      /\ ent.content = v1.content /\ ent.moderation = moderation /\ v1.content \in Moderating!Content
  BY <1>1, PlatformAssumption DEF Moderating!Tool
<1> HIDE DEF ent
<1>3. /\ loaded.at = "select" /\ loaded.ent = ent
      /\ loaded \in [at : {"idle", "select", "update", "insert"},
                     ent : [content : 0 .. LastContent, status : Moderating!Status,
                            moderation : Moderating!Moderation],
                     diff : SUBSET Moderating!Field, mixed : BOOLEAN]
  BY <1>2 DEF Moderating!NoCaller
<1> HIDE DEF loaded
<1>4. ListingTypes'
  BY <1>1, <1>2, <1>3 DEF ListingInv, ListingTypes
<1>5. Moderating!ConfirmedWasSeen'
  BY <1>1 DEF ListingInv, Moderating!ConfirmedWasSeen
<1>6. ASSUME NEW d \in Caller PROVE SeenInMemory(d)'
  BY <1>1, <1>2, <1>3 DEF ListingInv, ListingTypes, SeenInMemory, Moderating!Merged
<1> QED BY <1>4, <1>5, <1>6 DEF ListingInv

(***************************************************************************)
(* A step that leaves the calls of `done` idle and marks the updates of    *)
(* the others, unless the row stays as it is.                              *)
(***************************************************************************)
LEMMA ListingTouched ==
  ASSUME ListingInv, NEW done, Moderating!Touched(done), v3 \subseteq v3', v3' \subseteq Moderating!Content,
         v1' \in Moderating!Tool \cup {Moderating!Gone},
         v1'.moderation = "Confirmed" => v1'.content \in v3'
  PROVE  ListingInv'
<1>1. /\ Moderating!NoCaller.at = "idle"
      /\ Moderating!NoCaller \in [at : {"idle", "select", "update", "insert"},
                     ent : [content : 0 .. LastContent, status : Moderating!Status,
                            moderation : Moderating!Moderation],
                     diff : SUBSET Moderating!Field, mixed : BOOLEAN]
  BY PlatformAssumption DEF Moderating!NoCaller, Moderating!Gone
<1>2. ListingTypes'
  BY <1>1 DEF ListingInv, ListingTypes, Moderating!Touched
<1>3. Moderating!ConfirmedWasSeen'
  BY DEF Moderating!ConfirmedWasSeen
<1>4. ASSUME NEW d \in Caller PROVE SeenInMemory(d)'
  BY <1>1 DEF ListingInv, ListingTypes, SeenInMemory, Moderating!Touched, Moderating!Merged
<1> QED BY <1>2, <1>3, <1>4 DEF ListingInv

LEMMA ListingSelect ==
  ASSUME ListingInv, NEW c \in Caller, Moderating!Select(c)
  PROVE  ListingInv'
<1> DEFINE ent == v2[c].ent
           diff == {f \in Moderating!Field : ent[f] # v1[f]}
           saved == [f \in Moderating!Field |-> IF f \in diff THEN ent[f] ELSE Moderating!Gone[f]]
           Calls == [at : {"idle", "select", "update", "insert"},
                     ent : [content : 0 .. LastContent, status : Moderating!Status,
                            moderation : Moderating!Moderation],
                     diff : SUBSET Moderating!Field, mixed : BOOLEAN]
<1>1. /\ v1' = v1 /\ v3' = v3 /\ v2[c].at = "select" /\ v2[c] \in Calls
      /\ ent \in Moderating!Tool /\ diff \subseteq Moderating!Field
  BY DEF Moderating!Select, ListingInv, ListingTypes, Moderating!Tool
<1>2. CASE v1 = Moderating!Gone
  <2> DEFINE new == [v2[c] EXCEPT !.at = "insert"]
  <2>1. v2' = [v2 EXCEPT ![c] = new]
    BY <1>2 DEF Moderating!Select
  <2>2. new \in Calls /\ new.at = "insert" /\ new.ent = ent
    BY <1>1
  <2> HIDE DEF new
  <2>3. ListingTypes'
    BY <1>1, <2>1, <2>2 DEF ListingInv, ListingTypes, Moderating!Tool
  <2>4. ASSUME NEW d \in Caller PROVE SeenInMemory(d)'
    BY <1>1, <1>2, <2>1, <2>2 DEF ListingInv, ListingTypes, SeenInMemory, Moderating!Merged
  <2> QED BY <1>1, <2>3, <2>4 DEF ListingInv, Moderating!ConfirmedWasSeen
<1>3. CASE v1 # Moderating!Gone
  <2> DEFINE new == [Moderating!NoCaller EXCEPT !.at = "update", !.diff = diff, !.ent = saved]
  <2>1. v2' = [v2 EXCEPT ![c] = new]
    BY <1>3 DEF Moderating!Select
  <2>2. /\ v1 \in Moderating!Tool
        /\ saved \in [content : 0 .. LastContent, status : Moderating!Status,
                      moderation : Moderating!Moderation]
        /\ "content" \in diff => saved.content \in Moderating!Content
    BY <1>1, <1>3, PlatformAssumption DEF ListingInv, ListingTypes, Moderating!Tool, Moderating!Gone
  <2>3. \A f \in Moderating!Field : (IF f \in diff THEN saved[f] ELSE v1[f]) = ent[f]
    BY <1>1, <2>2
  <2> HIDE DEF saved, diff
  <2>4. new \in Calls /\ new.at = "update" /\ new.ent = saved /\ new.diff = diff
    BY <1>1, <2>2 DEF Moderating!NoCaller
  <2> HIDE DEF new
  <2>5. ListingTypes'
    BY <1>1, <2>1, <2>2, <2>4 DEF ListingInv, ListingTypes
  <2>6. Moderating!Merged(c)'.moderation = ent.moderation /\ Moderating!Merged(c)'.content = ent.content
    BY <1>1, <2>1, <2>2, <2>3, <2>4 DEF ListingInv, ListingTypes, Moderating!Merged, Moderating!Tool
  <2>7. ASSUME NEW d \in Caller PROVE SeenInMemory(d)'
    <3>1. CASE d = c
      BY <1>1, <2>1, <2>4, <2>6, <3>1 DEF ListingInv, ListingTypes, SeenInMemory
    <3>2. CASE d # c
      BY <1>1, <2>1, <3>2 DEF ListingInv, ListingTypes, SeenInMemory, Moderating!Merged
    <3> QED BY <3>1, <3>2
  <2> QED BY <1>1, <2>5, <2>7 DEF ListingInv, Moderating!ConfirmedWasSeen
<1> QED BY <1>2, <1>3

LEMMA ListingSteps ==
  ASSUME ListingInv, Moderating!Next
  PROVE  ListingInv'
<1>1. ASSUME NEW status \in Moderating!Status, Moderating!Create(status) PROVE ListingInv'
  BY <1>1, PlatformAssumption
  DEF Moderating!Create, ListingInv, ListingTypes, Moderating!ConfirmedWasSeen, SeenInMemory,
      Moderating!Tool, Moderating!NoCaller
<1>2. ASSUME NEW content \in Moderating!Content, NEW status \in Moderating!Status,
             Moderating!Edit(content, status)
      PROVE  ListingInv'
  <2>1. /\ v1' \in Moderating!Tool /\ v1'.moderation = "Pending"
        /\ Moderating!Touched({}) /\ v3' = v3 /\ v3 \subseteq Moderating!Content
    BY <1>2 DEF Moderating!Edit, Moderating!Tool, ListingInv, ListingTypes
  <2> QED BY <2>1, ListingTouched
<1>3. CASE Moderating!Delete
  <2>1. /\ v1' = Moderating!Gone /\ v1'.moderation = "Pending"
        /\ Moderating!Touched({}) /\ v3' = v3 /\ v3 \subseteq Moderating!Content
    BY <1>3 DEF Moderating!Delete, Moderating!Gone, ListingInv, ListingTypes
  <2> QED BY <2>1, ListingTouched
<1>4. ASSUME NEW c \in Caller,
             \/ Moderating!ApproveTool(c) \/ Moderating!RejectTool(c)
             \/ Moderating!ArchiveTool(c) \/ Moderating!RestoreTool(c)
             \/ \E s \in Moderating!Status : Moderating!AdminStatus(c, s) \/ Moderating!UpdateToolStatus(c, s)
             \/ \E m \in Moderating!Moderation : Moderating!UpdateModerationStatus(c, m)
             \/ Moderating!UpdateAvailability(c)
      PROVE  ListingInv'
  <2>1. v1 # Moderating!Gone
    BY <1>4, Zenon DEF Moderating!ApproveTool, Moderating!RejectTool, Moderating!ArchiveTool,
       Moderating!RestoreTool, Moderating!AdminStatus, Moderating!UpdateToolStatus,
       Moderating!UpdateModerationStatus, Moderating!UpdateAvailability, Moderating!Load
  <2>2. v1.status \in Moderating!Status /\ v1.moderation \in Moderating!Moderation
    BY <2>1 DEF ListingInv, ListingTypes, Moderating!Tool
  <2>3. PICK guard \in BOOLEAN, status \in Moderating!Status, moderation \in Moderating!Moderation :
          Moderating!Load(c, guard, status, moderation)
    BY <1>4, <2>2, PlatformAssumption
    DEF Moderating!ApproveTool, Moderating!RejectTool, Moderating!ArchiveTool,
       Moderating!RestoreTool, Moderating!AdminStatus, Moderating!UpdateToolStatus,
       Moderating!UpdateModerationStatus, Moderating!UpdateAvailability
  <2> QED BY <2>3, ListingLoad
<1>5. ASSUME NEW c \in Caller, Moderating!Update(c) PROVE ListingInv'
  <2>1. Moderating!Touched({c}) /\ v2[c].at = "update"
    BY <1>5 DEF Moderating!Update
  <2>2. CASE v1 = Moderating!Gone
    BY <1>5, <2>1, <2>2, ListingTouched DEF Moderating!Update, Moderating!Gone, ListingInv, ListingTypes
  <2>3. CASE v1 # Moderating!Gone
    <3>1. v1' = Moderating!Merged(c) /\ v1' \in Moderating!Tool
      BY <1>5, <2>1, <2>3, MergedIsTool DEF Moderating!Update, ListingInv
    <3>2. v1'.content \in Moderating!Content
      BY <3>1 DEF Moderating!Tool
    <3>3. v3' = IF v2[c].mixed THEN v3 \cup {v1'.content} ELSE v3
      BY <1>5, <2>3 DEF Moderating!Update
    <3>4. v1'.moderation = "Confirmed" => v1'.content \in v3'
      BY <2>1, <2>3, <3>1, <3>3 DEF ListingInv, SeenInMemory
    <3> QED BY <2>1, <3>1, <3>2, <3>3, <3>4, ListingTouched DEF ListingInv, ListingTypes
  <2> QED BY <2>2, <2>3
<1>6. ASSUME NEW c \in Caller, Moderating!Insert(c) PROVE ListingInv'
  <2>1. Moderating!Touched({c}) /\ v2[c].at = "insert" /\ v3' = v3
        /\ v1' = IF v1 = Moderating!Gone THEN v2[c].ent ELSE v1
    BY <1>6 DEF Moderating!Insert
  <2>2. v2[c].ent \in Moderating!Tool
    BY <2>1 DEF ListingInv, ListingTypes, Moderating!Tool
  <2>3. v1'.moderation = "Confirmed" => v1'.content \in v3'
    BY <2>1 DEF ListingInv, SeenInMemory, Moderating!ConfirmedWasSeen
  <2> QED BY <2>1, <2>2, <2>3, ListingTouched DEF ListingInv, ListingTypes
<1>7. ASSUME NEW c \in Caller, Moderating!SaveFails(c) PROVE ListingInv'
  <2>1. /\ Moderating!NoCaller.at = "idle"
        /\ Moderating!NoCaller \in [at : {"idle", "select", "update", "insert"},
                       ent : [content : 0 .. LastContent, status : Moderating!Status,
                              moderation : Moderating!Moderation],
                       diff : SUBSET Moderating!Field, mixed : BOOLEAN]
    BY PlatformAssumption DEF Moderating!NoCaller, Moderating!Gone
  <2>2. v2' = [v2 EXCEPT ![c] = Moderating!NoCaller] /\ v1' = v1 /\ v3' = v3
    BY <1>7 DEF Moderating!SaveFails
  <2>3. ListingTypes'
    BY <2>1, <2>2 DEF ListingInv, ListingTypes
  <2>4. ASSUME NEW d \in Caller PROVE SeenInMemory(d)'
    BY <2>1, <2>2 DEF ListingInv, ListingTypes, SeenInMemory, Moderating!Merged
  <2> QED BY <2>2, <2>3, <2>4 DEF ListingInv, Moderating!ConfirmedWasSeen
<1> QED
  BY <1>1, <1>2, <1>3, <1>4, <1>5, <1>6, <1>7, ListingSelect DEF Moderating!Next

LEMMA ListingAlways == Spec => [](focus = "listings" => ListingInv)
<1> DEFINE Inv == focus = "listings" => ListingInv
<1>1. Init => Inv
  BY ListingInit DEF Init
<1>2. Inv /\ [Next]_vars => Inv'
  <2> SUFFICES ASSUME Inv, [Next]_vars, focus' = "listings" PROVE ListingInv'
    OBVIOUS
  <2>1. focus = "listings" /\ ListingInv
    BY FocusStays
  <2>2. CASE Moderating!Next
    BY <2>1, <2>2, ListingSteps
  <2>3. CASE UNCHANGED <<v1, v2, v3>>
    BY <2>1, <2>3 DEF ListingInv, ListingTypes, SeenInMemory, Moderating!ConfirmedWasSeen, Moderating!Merged
  <2> QED BY <2>1, <2>2, <2>3 DEF Next, vars
<1> QED BY <1>1, <1>2, PTL DEF Spec

\* The theorem: no confirmation is brought together with content nobody looked at
\* (admin-tools.service.ts, tools.service.ts), for any number of calls and edits.
THEOREM ConfirmedSeen == Spec => []ConfirmedWasSeen
<1>1. (focus = "listings" => ListingInv) => ConfirmedWasSeen
  BY DEF ListingInv, ConfirmedWasSeen
<1> QED BY <1>1, ListingAlways, PTL
-----------------------------------------------------------------------------
(***************************************************************************)
(* Push tokens: two active tokens of a user on one device are answered by  *)
(* a registration that is still going to look for the other one, or has    *)
(* found it and is going to disable it.  A save that leaves the user alone *)
(* did so because the row had the user already, and still has, unless      *)
(* another registration of the token was saving too.                       *)
(***************************************************************************)
PushCall == [at : Push!Label, token : Token, ent : Push!Row,
             diff : SUBSET Push!Column, rivals : SUBSET Token]

PushTypes ==
  /\ Push!TypeOK
  /\ \A c \in Call : v2[c].at # "idle" => v2[c].ent.user \in User

SavesItsUser(c) ==
  /\ v2[c].at \in {"select", "update"} => Push!Stored(v2[c].token)
  /\ v2[c].at = "update" /\ v2[c].token \notin v3 /\ "user" \notin v2[c].diff
       => v1[v2[c].token].user = v2[c].ent.user

Clash(s, t) ==
  /\ s # t /\ v1[s].user \in User /\ v1[t].user = v1[s].user
  /\ v1[s].active /\ v1[t].active
  /\ v1[s].device # NoDevice /\ v1[t].device = v1[s].device

Answers(c, s, t) ==
  /\ v2[c].token = t
  /\ \/ v2[c].at = "siblings" /\ v2[c].ent.user = v1[t].user
     \/ v2[c].at = "disable" /\ s \in v2[c].rivals

ClashesAnswered ==
  \A s, t \in Token \ v3 : Clash(s, t) => \E c \in Call : Answers(c, s, t) \/ Answers(c, t, s)

PushInv ==
  /\ PushTypes
  /\ \A c \in Call : SavesItsUser(c)
  /\ ClashesAnswered

LEMMA NoCallTyped == Push!NoCall \in PushCall /\ Push!NoCall.at = "idle"
<1>1. (CHOOSE t \in Token : TRUE) \in Token
  BY PlatformAssumption
<1>2. Push!Absent \in Push!Row
  BY DEF Push!Absent, Push!Row
<1> QED BY <1>1, <1>2 DEF PushCall, Push!NoCall, Push!Label

LEMMA PushInit == Push!Init => PushInv
<1> SUFFICES ASSUME Push!Init PROVE PushInv
  OBVIOUS
<1>1. /\ v1 = [t \in Token |-> Push!Absent] /\ v2 = [c \in Call |-> Push!NoCall] /\ v3 = {}
      /\ Push!Absent \in Push!Row /\ ~Push!Absent.active
  BY DEF Push!Init, Push!Absent, Push!Row
<1>2. PushTypes
  BY <1>1, NoCallTyped DEF PushTypes, Push!TypeOK, PushCall
<1>3. \A c \in Call : SavesItsUser(c)
  BY <1>1, NoCallTyped DEF SavesItsUser
<1>4. ClashesAnswered
  BY <1>1 DEF ClashesAnswered, Clash
<1> QED BY <1>2, <1>3, <1>4 DEF PushInv

(***************************************************************************)
(* What the invariant owes to the types: a call is replaced by another,    *)
(* and rows stay rows.                                                     *)
(***************************************************************************)
LEMMA PushTypesKept ==
  ASSUME PushTypes, NEW c \in Call, NEW new \in PushCall, v2' = [v2 EXCEPT ![c] = new],
         new.at # "idle" => new.ent.user \in User, v1' \in [Token -> Push!Row], v3' \subseteq Token
  PROVE  PushTypes'
BY DEF PushTypes, Push!TypeOK, PushCall

LEMMA PushGoto ==
  ASSUME PushTypes, NEW c \in Call, NEW label \in Push!Label, Push!Goto(c, label)
  PROVE  \E new \in PushCall :
           /\ v2' = [v2 EXCEPT ![c] = new] /\ new.at = label
           /\ label # "idle" => new = [v2[c] EXCEPT !.at = label]
<1>1. v2[c] \in PushCall
  BY DEF PushTypes, Push!TypeOK, PushCall
<1>2. CASE label = "idle"
  BY <1>2, NoCallTyped DEF Push!Goto, PushTypes, Push!TypeOK
<1>3. CASE label # "idle"
  <2> DEFINE new == [v2[c] EXCEPT !.at = label]
  <2>1. v2' = [v2 EXCEPT ![c] = new]
    BY <1>3 DEF Push!Goto
  <2>2. new \in PushCall /\ new.at = label
    BY <1>1 DEF PushCall
  <2> QED BY <2>1, <2>2
<1> QED BY <1>2, <1>3

LEMMA PushToSiblings ==
  ASSUME PushTypes, NEW c \in Call, v2[c].at # "idle", Push!ToSiblings(c)
  PROVE  \E new \in PushCall :
           /\ v2' = [v2 EXCEPT ![c] = new] /\ new.at = "siblings"
           /\ new.token = v2[c].token /\ new.ent.user = v2[c].ent.user
<1> DEFINE ent == [Push!NoCall.ent EXCEPT !.user = v2[c].ent.user]
           new == [Push!NoCall EXCEPT !.at = "siblings", !.token = v2[c].token, !.ent = ent]
<1>1. v2' = [v2 EXCEPT ![c] = new]
  BY DEF Push!ToSiblings
<1>2. /\ v2[c].token \in Token /\ v2[c].ent.user \in User
      /\ Push!NoCall.ent \in Push!Row
  BY NoCallTyped DEF PushTypes, Push!TypeOK, PushCall
<1>3. ent \in Push!Row /\ ent.user = v2[c].ent.user
  BY <1>2 DEF Push!Row
<1> HIDE DEF ent
<1>4. new \in PushCall /\ new.at = "siblings" /\ new.token = v2[c].token /\ new.ent = ent
  BY <1>2, <1>3, NoCallTyped DEF PushCall, Push!Label
<1> HIDE DEF new
<1> QED BY <1>1, <1>3, <1>4
\* Calls that wait or look: rows and blurred tokens stay, no answer is lost.
LEMMA PushCallOnly ==
  ASSUME PushInv, NEW c \in Call, NEW new \in PushCall, v2' = [v2 EXCEPT ![c] = new],
         v1' = v1, v3 \subseteq v3', v3' \subseteq Token,
         new.at # "idle" => new.ent.user \in User,
         new.at \in {"select", "update"} => Push!Stored(new.token),
         new.at = "update" /\ "user" \notin new.diff => v1[new.token].user = new.ent.user,
         \A s, t \in Token \ v3' :
           (Clash(s, t) \/ Clash(t, s)) /\ Answers(c, s, t) => Answers(c, s, t)'
  PROVE  PushInv'
<1>1. PushTypes'
  BY PushTypesKept DEF PushInv, PushTypes, Push!TypeOK
<1>2. ASSUME NEW d \in Call PROVE SavesItsUser(d)'
  BY DEF PushInv, PushTypes, Push!TypeOK, PushCall, SavesItsUser, Push!Stored
<1>3. ASSUME NEW s \in Token \ v3', NEW t \in Token \ v3', Clash(s, t)'
      PROVE  \E d \in Call : Answers(d, s, t)' \/ Answers(d, t, s)'
  <2>1. Clash(s, t) /\ s \in Token \ v3 /\ t \in Token \ v3
    BY <1>3 DEF Clash
  <2>2. PICK d \in Call : Answers(d, s, t) \/ Answers(d, t, s)
    BY <2>1 DEF PushInv, ClashesAnswered
  <2>3. CASE d = c
    BY <1>3, <2>1, <2>2, <2>3
  <2>4. CASE d # c
    BY <2>2, <2>4 DEF Answers, PushInv, PushTypes, Push!TypeOK
  <2> QED BY <2>3, <2>4
<1>4. ClashesAnswered'
  BY <1>3 DEF ClashesAnswered
<1> QED BY <1>1, <1>2, <1>4 DEF PushInv

\* Rows that stop being active clash no more.
LEMMA PushFewerActive ==
  ASSUME PushInv, v1' \in [Token -> Push!Row],
         \A t \in Token : /\ v1'[t].user = v1[t].user /\ v1'[t].device = v1[t].device
                          /\ v1'[t].active => v1[t].active
  PROVE  /\ \A s, t \in Token : Clash(s, t)' => Clash(s, t)
         /\ \A t \in Token : Push!Stored(t)' <=> Push!Stored(t)
BY DEF Clash, Push!Stored

LEMMA PushDisabled ==
  ASSUME PushInv, NEW t \in Token, Push!Disabled(t)
  PROVE  PushInv'
<1>1. /\ v2' = v2 /\ v3' = v3 /\ v1' \in [Token -> Push!Row]
      /\ \A s \in Token : /\ v1'[s].user = v1[s].user /\ v1'[s].device = v1[s].device
                          /\ v1'[s].active => v1[s].active
  BY DEF Push!Disabled, PushInv, PushTypes, Push!TypeOK, Push!Row
<1>2. PushTypes'
  BY <1>1 DEF PushInv, PushTypes, Push!TypeOK
<1>3. ASSUME NEW d \in Call PROVE SavesItsUser(d)'
  BY <1>1, PushFewerActive DEF PushInv, PushTypes, Push!TypeOK, SavesItsUser, Push!Stored
<1>4. ClashesAnswered'
  BY <1>1, PushFewerActive DEF PushInv, ClashesAnswered, Answers
<1> QED BY <1>2, <1>3, <1>4 DEF PushInv
\* A registration has saved its token: from here to the disabling it answers for it.
LEMMA PushSaved ==
  ASSUME PushInv, NEW c \in Call, NEW t \in Token, NEW saved \in Push!Row, NEW new \in PushCall,
         v2[c].at \in {"insert", "update"}, v2[c].token = t,
         v1' = [v1 EXCEPT ![t] = saved], v2' = [v2 EXCEPT ![c] = new],
         v3 \subseteq v3', v3' \subseteq Token,
         new.at = "siblings", new.token = t, new.ent.user = v2[c].ent.user,
         saved.user \in User, t \notin v3' => saved.user = v2[c].ent.user,
         \A d \in Call \ {c} : v2[d].at \in {"select", "update"} /\ v2[d].token = t => t \in v3'
  PROVE  PushInv'
<1>1. PushTypes'
  <2>1. v1' \in [Token -> Push!Row] /\ new.ent.user \in User
    BY DEF PushInv, PushTypes, Push!TypeOK
  <2> QED BY <2>1, PushTypesKept DEF PushInv
<1>2. ASSUME NEW d \in Call PROVE SavesItsUser(d)'
  <2>1. CASE d = c
    BY <2>1 DEF PushInv, PushTypes, Push!TypeOK, SavesItsUser
  <2>2. CASE d # c
    BY <2>2, PlatformAssumption DEF PushInv, PushTypes, Push!TypeOK, SavesItsUser, Push!Stored
  <2> QED BY <2>1, <2>2
<1>3. ASSUME NEW r \in Token \ v3', NEW s \in Token \ v3', Clash(r, s)'
      PROVE  \E d \in Call : Answers(d, r, s)' \/ Answers(d, s, r)'
  <2>1. CASE r = t
    BY <1>3, <2>1 DEF Answers, Clash, PushInv, PushTypes, Push!TypeOK
  <2>2. CASE s = t
    BY <1>3, <2>2 DEF Answers, Clash, PushInv, PushTypes, Push!TypeOK
  <2>3. CASE r # t /\ s # t
    <3>1. Clash(r, s) /\ v1'[r] = v1[r] /\ v1'[s] = v1[s]
      BY <1>3, <2>3 DEF Clash, PushInv, PushTypes, Push!TypeOK
    <3>2. PICK d \in Call : Answers(d, r, s) \/ Answers(d, s, r)
      BY <3>1 DEF PushInv, ClashesAnswered
    <3>3. d # c
      BY <2>3, <3>2 DEF Answers
    <3> QED BY <3>1, <3>2, <3>3 DEF Answers, PushInv, PushTypes, Push!TypeOK
  <2> QED BY <2>1, <2>2, <2>3
<1>4. ClashesAnswered'
  BY <1>3 DEF ClashesAnswered
<1> QED BY <1>1, <1>2, <1>4 DEF PushInv

LEMMA PushInsert ==
  ASSUME PushInv, NEW c \in Call, Push!Insert(c)
  PROVE  PushInv'
<1> DEFINE t == v2[c].token
<1>1. v2[c] \in PushCall /\ v2[c].at = "insert" /\ t \in Token /\ v2[c].ent.user \in User /\ v3' = v3
      /\ v2[c].ent \in Push!Row
  BY DEF Push!Insert, PushInv, PushTypes, Push!TypeOK, PushCall
<1>2. CASE Push!Stored(t)
  <2>1. Push!Goto(c, "idle") /\ v1' = v1
    BY <1>2 DEF Push!Insert
  <2>2. PICK new \in PushCall : v2' = [v2 EXCEPT ![c] = new] /\ new.at = "idle"
    BY <2>1, PushGoto DEF PushInv, Push!Label
  <2> QED BY <1>1, <2>1, <2>2, PushCallOnly DEF Answers, PushInv, PushTypes, Push!TypeOK
<1>3. CASE ~Push!Stored(t)
  <2>1. Push!ToSiblings(c) /\ v1' = [v1 EXCEPT ![t] = v2[c].ent]
    BY <1>3 DEF Push!Insert
  <2>2. PICK new \in PushCall : /\ v2' = [v2 EXCEPT ![c] = new] /\ new.at = "siblings"
                                /\ new.token = t /\ new.ent.user = v2[c].ent.user
    BY <1>1, <2>1, PushToSiblings DEF PushInv
  <2>3. \A d \in Call \ {c} : v2[d].at \in {"select", "update"} /\ v2[d].token = t => t \in v3'
    BY <1>3 DEF PushInv, SavesItsUser
  <2> HIDE DEF t
  <2> QED BY <1>1, <2>1, <2>2, <2>3, PushSaved DEF t, PushInv, PushTypes, Push!TypeOK
<1> QED BY <1>2, <1>3

LEMMA PushUpdate ==
  ASSUME PushInv, NEW c \in Call, Push!Update(c)
  PROVE  PushInv'
<1> DEFINE t == v2[c].token
           saved == [k \in Push!Column |-> IF k \in v2[c].diff THEN v2[c].ent[k] ELSE v1[t][k]]
<1>1. /\ v2[c] \in PushCall /\ v2[c].at = "update" /\ t \in Token /\ v2[c].ent.user \in User
      /\ v2[c].ent \in Push!Row /\ v1[t] \in Push!Row
      /\ Push!Stored(t) /\ (t \notin v3 /\ "user" \notin v2[c].diff => v1[t].user = v2[c].ent.user)
  BY DEF Push!Update, PushInv, PushTypes, Push!TypeOK, PushCall, SavesItsUser
<1>2. /\ v1' = [v1 EXCEPT ![t] = saved]
      /\ v3' = IF Push!Saving(t) = {c} THEN v3 ELSE v3 \cup {t}
      /\ Push!ToSiblings(c)
  BY DEF Push!Update, PushInv, PushTypes, Push!TypeOK
<1>3. /\ saved \in Push!Row
      /\ saved.user = IF "user" \in v2[c].diff THEN v2[c].ent.user ELSE v1[t].user
  BY <1>1 DEF Push!Row, Push!Column
<1>4. saved.user \in User /\ (t \notin v3' => saved.user = v2[c].ent.user)
  BY <1>1, <1>2, <1>3 DEF Push!Stored, Push!Row
<1>5. \A d \in Call \ {c} : v2[d].at \in {"select", "update"} /\ v2[d].token = t => t \in v3'
  BY <1>2 DEF Push!Saving
<1>6. PICK new \in PushCall : /\ v2' = [v2 EXCEPT ![c] = new] /\ new.at = "siblings"
                              /\ new.token = t /\ new.ent.user = v2[c].ent.user
  BY <1>1, <1>2, PushToSiblings DEF PushInv
<1>7. v3 \subseteq v3' /\ v3' \subseteq Token
  BY <1>1, <1>2 DEF PushInv, PushTypes, Push!TypeOK
<1> HIDE DEF saved
<1> QED BY <1>1, <1>2, <1>3, <1>4, <1>5, <1>6, <1>7, PushSaved
\* The calls that look, or have nothing to write yet.
LEMMA PushLook ==
  ASSUME PushInv, NEW c \in Call,
         \/ \E u \in User, t \in Token, d \in Device \cup {NoDevice} : Push!Register(c, u, t, d)
         \/ Push!Find(c) \/ Push!Select(c)
  PROVE  PushInv'
<1> DEFINE t == v2[c].token
<1>1. v2[c] \in PushCall /\ v1[t] \in Push!Row /\ (v2[c].at # "idle" => v2[c].ent.user \in User)
  BY DEF PushInv, PushTypes, Push!TypeOK, PushCall
<1>2. v3 \subseteq Token
  BY DEF PushInv, PushTypes, Push!TypeOK
<1>3. ASSUME NEW u \in User, NEW r \in Token, NEW d \in Device \cup {NoDevice}, Push!Register(c, u, r, d)
      PROVE  PushInv'
  <2> DEFINE ent == [user |-> u, device |-> d, active |-> TRUE]
             new == [Push!NoCall EXCEPT !.at = "find", !.token = r, !.ent = ent]
  <2>1. v2[c] = Push!NoCall /\ v2' = [v2 EXCEPT ![c] = new] /\ v1' = v1 /\ v3' = v3
    BY <1>3, Zenon DEF Push!Register
  <2>2. ent \in Push!Row /\ ent.user \in User
    BY DEF Push!Row
  <2> HIDE DEF ent
  <2>3. new \in PushCall /\ new.at = "find" /\ new.ent = ent
    BY <2>2, NoCallTyped DEF PushCall, Push!Label
  <2>4. v2[c].at = "idle"
    BY <2>1, NoCallTyped
  <2> HIDE DEF new
  <2> QED BY <1>2, <2>1, <2>2, <2>3, <2>4, PushCallOnly DEF Answers
<1>4. CASE Push!Find(c) /\ Push!Stored(t)
  <2> DEFINE ent == [v2[c].ent EXCEPT !.device = IF @ = NoDevice THEN v1[t].device ELSE @]
             new == [[v2[c] EXCEPT !.at = "select"] EXCEPT !.ent = ent]
  <2>1. v2[c].at = "find" /\ v1' = v1 /\ v3' = v3
    BY <1>4 DEF Push!Find
  <2>2. v2' = [v2 EXCEPT ![c] = [v2[c] EXCEPT !.at = "select",
                    !.ent.device = IF v2[c].ent.device = NoDevice THEN v1[t].device
                                   ELSE v2[c].ent.device]]
    BY <1>4 DEF Push!Find, PushInv, PushTypes, Push!TypeOK
  <2>3. ent \in Push!Row /\ ent.user = v2[c].ent.user
    BY <1>1 DEF PushCall, Push!Row
  <2>4. v2' = [v2 EXCEPT ![c] = new]
    BY <1>1, <2>2 DEF PushCall
  <2> HIDE DEF ent
  <2>5. new \in PushCall /\ new.at = "select" /\ new.ent = ent /\ new.token = t
    BY <1>1, <2>3 DEF PushCall, Push!Label
  <2> HIDE DEF new
  <2> QED BY <1>1, <1>2, <1>4, <2>1, <2>3, <2>4, <2>5, PushCallOnly DEF Answers
<1>5. CASE Push!Find(c) /\ ~Push!Stored(t)
  <2> DEFINE new == [v2[c] EXCEPT !.at = "insert"]
  <2>1. v2[c].at = "find" /\ v2' = [v2 EXCEPT ![c] = new] /\ v1' = v1 /\ v3' = v3
    BY <1>5 DEF Push!Find, PushInv, PushTypes, Push!TypeOK
  <2>2. new \in PushCall /\ new.at = "insert" /\ new.ent = v2[c].ent
    BY <1>1 DEF PushCall, Push!Label
  <2> HIDE DEF new
  <2> QED BY <1>1, <1>2, <2>1, <2>2, PushCallOnly DEF Answers
<1>6. CASE Push!Select(c)
  <2> DEFINE diff == {k \in Push!Column : v2[c].ent[k] # v1[t][k]}
             new == [v2[c] EXCEPT !.at = "update", !.diff = diff]
  <2>1. v2[c].at = "select" /\ v2' = [v2 EXCEPT ![c] = new] /\ v1' = v1 /\ v3' = v3
    BY <1>6 DEF Push!Select, PushInv, PushTypes, Push!TypeOK
  <2>2. diff \subseteq Push!Column /\ ("user" \notin diff => v1[t].user = v2[c].ent.user)
    BY <1>1 DEF Push!Column, PushCall, Push!Row
  <2> HIDE DEF diff
  <2>3. new \in PushCall /\ new.at = "update" /\ new.ent = v2[c].ent /\ new.token = t /\ new.diff = diff
    BY <1>1, <2>2 DEF PushCall, Push!Label
  <2>4. Push!Stored(t)
    BY <2>1 DEF PushInv, SavesItsUser
  <2> HIDE DEF new
  <2> QED BY <1>1, <1>2, <2>1, <2>2, <2>3, <2>4, PushCallOnly DEF Answers
<1> QED BY <1>3, <1>4, <1>5, <1>6

LEMMA PushSiblings ==
  ASSUME PushInv, NEW c \in Call, Push!Siblings(c)
  PROVE  PushInv'
<1> DEFINE u == v2[c].ent.user
           kept == v2[c].token
           there == v1[kept].user = u /\ v1[kept].active
           rivals == Push!Superseded(u, kept)
<1>1. /\ v2[c] \in PushCall /\ v2[c].at = "siblings" /\ u \in User /\ kept \in Token
      /\ v1' = v1 /\ v3' = v3 /\ v3 \subseteq Token /\ rivals \subseteq Token
  BY DEF Push!Siblings, PushInv, PushTypes, Push!TypeOK, PushCall, Push!Superseded
\* A clash that the call answers is among what it finds.
<1>2. ASSUME NEW s \in Token, NEW t \in Token, Clash(s, t) \/ Clash(t, s), Answers(c, s, t)
      PROVE  there /\ s \in rivals /\ t = kept
  BY <1>1, <1>2 DEF Clash, Answers, Push!Superseded
<1>3. CASE there /\ rivals # {}
  <2> DEFINE new == [v2[c] EXCEPT !.at = "disable", !.rivals = rivals]
  <2>1. v2' = [v2 EXCEPT ![c] = new]
    BY <1>3 DEF Push!Siblings
  <2> HIDE DEF rivals
  <2>2. /\ new \in PushCall /\ new.at = "disable" /\ new.ent = v2[c].ent
        /\ new.token = kept /\ new.rivals = rivals
    BY <1>1 DEF PushCall, Push!Label
  <2> HIDE DEF new, there
  <2>3. \A s, t \in Token \ v3' :
           (Clash(s, t) \/ Clash(t, s)) /\ Answers(c, s, t) => Answers(c, s, t)'
    BY <1>1, <1>2, <2>1, <2>2 DEF Answers, PushInv, PushTypes, Push!TypeOK
  <2> QED BY <1>1, <2>1, <2>2, <2>3, PushCallOnly
<1>4. CASE ~(there /\ rivals # {})
  <2>1. Push!Goto(c, "idle")
    BY <1>4 DEF Push!Siblings
  <2>2. PICK new \in PushCall : v2' = [v2 EXCEPT ![c] = new] /\ new.at = "idle"
    BY <2>1, PushGoto DEF PushInv, Push!Label
  <2> HIDE DEF there, rivals
  <2> QED BY <1>1, <1>2, <1>4, <2>2, PushCallOnly
<1> QED BY <1>3, <1>4

LEMMA PushDisable ==
  ASSUME PushInv, NEW c \in Call, Push!Disable(c)
  PROVE  PushInv'
<1>1. /\ v2[c].at = "disable" /\ v3' = v3 /\ Push!Goto(c, "idle")
      /\ v1' = [t \in Token |-> IF t \in v2[c].rivals THEN [v1[t] EXCEPT !.active = FALSE] ELSE v1[t]]
  BY DEF Push!Disable
<1>2. /\ v1' \in [Token -> Push!Row]
      /\ \A t \in Token : /\ v1'[t].user = v1[t].user /\ v1'[t].device = v1[t].device
                          /\ v1'[t].active => v1[t].active /\ t \notin v2[c].rivals
  BY <1>1 DEF PushInv, PushTypes, Push!TypeOK, Push!Row
<1>3. PICK new \in PushCall : v2' = [v2 EXCEPT ![c] = new] /\ new.at = "idle"
  BY <1>1, PushGoto DEF PushInv, Push!Label
<1>4. PushTypes'
  BY <1>1, <1>2, <1>3, PushTypesKept DEF PushInv, PushTypes, Push!TypeOK
<1>5. ASSUME NEW d \in Call PROVE SavesItsUser(d)'
  BY <1>1, <1>2, <1>3, PushFewerActive DEF PushInv, PushTypes, Push!TypeOK, SavesItsUser, Push!Stored
<1>6. ASSUME NEW s \in Token \ v3', NEW t \in Token \ v3', Clash(s, t)'
      PROVE  \E d \in Call : Answers(d, s, t)' \/ Answers(d, t, s)'
  <2>1. Clash(s, t) /\ s \notin v2[c].rivals /\ t \notin v2[c].rivals /\ s \in Token \ v3 /\ t \in Token \ v3
    BY <1>1, <1>2, <1>6 DEF Clash
  <2>2. PICK d \in Call : Answers(d, s, t) \/ Answers(d, t, s)
    BY <2>1 DEF PushInv, ClashesAnswered
  <2>3. d # c
    BY <1>1, <2>1, <2>2 DEF Answers
  <2> QED BY <1>2, <1>3, <2>2, <2>3 DEF Answers, PushInv, PushTypes, Push!TypeOK
<1>7. ClashesAnswered'
  BY <1>6 DEF ClashesAnswered
<1> QED BY <1>4, <1>5, <1>7 DEF PushInv

LEMMA PushSteps ==
  ASSUME PushInv, Push!Next
  PROVE  PushInv'
<1>1. ASSUME NEW c \in Call, Push!DeduplicationFails(c) PROVE PushInv'
  <2>1. /\ v3' = v3 \cup {v2[c].token} /\ v1' = v1 /\ Push!Goto(c, "idle")
        /\ v2[c].token \in Token /\ v3 \subseteq Token
    BY <1>1 DEF Push!DeduplicationFails, PushInv, PushTypes, Push!TypeOK
  <2>2. PICK new \in PushCall : v2' = [v2 EXCEPT ![c] = new] /\ new.at = "idle"
    BY <2>1, PushGoto DEF PushInv, Push!Label
  <2> QED BY <2>1, <2>2, PushCallOnly DEF Answers
<1>2. ASSUME NEW t \in Token, Push!Unregister(t) \/ Push!DeviceGone(t) \/ Push!ReceiptFails(t)
      PROVE  PushInv'
  BY <1>2, PushDisabled DEF Push!Unregister, Push!DeviceGone, Push!ReceiptFails
<1> QED
  BY <1>1, <1>2, PushLook, PushInsert, PushUpdate, PushSiblings, PushDisable DEF Push!Next, Push!Progress

LEMMA PushAlways == Spec => [](focus = "push" => PushInv)
<1> DEFINE Inv == focus = "push" => PushInv
<1>1. Init => Inv
  BY PushInit DEF Init
<1>2. Inv /\ [Next]_vars => Inv'
  <2> SUFFICES ASSUME Inv, [Next]_vars, focus' = "push" PROVE PushInv'
    OBVIOUS
  <2>1. focus = "push" /\ PushInv
    BY FocusStays
  <2>2. CASE Push!Next
    BY <2>1, <2>2, PushSteps
  <2>3. CASE UNCHANGED <<v1, v2, v3>>
    BY <2>1, <2>3 DEF PushInv, PushTypes, Push!TypeOK, SavesItsUser, ClashesAnswered, Clash, Answers, Push!Stored
  <2> QED BY <2>1, <2>2, <2>3 DEF Next, vars
<1> QED BY <1>1, <1>2, PTL DEF Spec

\* The theorem: when all registrations have ended, a user has one active token on a
\* device (notifications.service.ts), for any number of tokens, devices and calls.
THEOREM OneDevice == Spec => []OneActivePerDevice
<1>1. (focus = "push" => PushInv) => OneActivePerDevice
  <2> SUFFICES ASSUME PushInv, \A c \in Call : v2[c] = Push!NoCall PROVE Push!OneActivePerDevice
    BY DEF OneActivePerDevice, Push!OneActivePerDevice
  <2>1. \A c \in Call, s, t \in Token : ~Answers(c, s, t)
    BY NoCallTyped DEF Answers
  <2>2. \A s, t \in Token \ v3 : ~Clash(s, t)
    BY <2>1 DEF PushInv, ClashesAnswered
  <2> QED BY <2>2 DEF Clash, Push!OneActivePerDevice
<1> QED BY <1>1, PushAlways, PTL
-----------------------------------------------------------------------------
(***************************************************************************)
(* Alerts: what makes two alerts of a rule a cooldown apart is that a rule *)
(* that is not excused has one check alerting on it, which found the       *)
(* cooldown over when it began, and that no other alert can be sent before *)
(* that check has noted its own.                                           *)
(***************************************************************************)
PollState == [at : Alerting!Label, index : 1 .. 3, version : 0 .. MaxUpdates]
RuleState == [enabled : BOOLEAN, cooldown : 1 .. Cooldown, last : Alerting!Moment,
              version : 0 .. MaxUpdates]

Alerts(c, r) == v3[c].at \in {"alert", "note"} /\ Alerting!At(c) = r

AlertTypes ==
  /\ v1 \in 0 .. LastTime
  /\ v2 \in [Alerting!Rule -> RuleState]
  /\ v3 \in [Poll -> PollState]
  /\ v4 \in [Alerting!Rule -> Alerting!Moment]
  /\ v5 \subseteq Alerting!Rule
  /\ \A c \in Poll : v3[c].at \in {"alert", "note"} => v3[c].index \in 1 .. 2

AlertedInTime(r) ==
  /\ \A c, d \in Poll : Alerts(c, r) /\ Alerts(d, r) => c = d
  /\ \A c \in Poll : Alerts(c, r) /\ v3[c].at = "alert" => v1 >= v4[r] + v2[r].cooldown
  /\ (\A c \in Poll : Alerts(c, r) => v3[c].at = "alert") => v4[r] <= v2[r].last

AlertInv ==
  /\ AlertTypes
  /\ \A r \in Alerting!Rule : v4[r] <= v1
  /\ \A r \in Alerting!Rule \ v5 : AlertedInTime(r)

LEMMA AlertRules ==
  /\ Rule1 \in Alerting!Rule /\ Rule2 \in Alerting!Rule
  /\ Len(<<Rule1, Rule2>>) = 2
  /\ \A c \in Poll : v3[c].index \in 1 .. 2 => Alerting!At(c) \in Alerting!Rule
<1>1. /\ DOMAIN <<Rule1, Rule2>> = 1 .. 2 /\ Len(<<Rule1, Rule2>>) = 2
      /\ <<Rule1, Rule2>>[1] = Rule1 /\ <<Rule1, Rule2>>[2] = Rule2
  OBVIOUS
<1>2. \A i \in 1 .. 2 : <<Rule1, Rule2>>[i] \in Alerting!Rule
  BY <1>1 DEF Alerting!Rule
<1> QED BY <1>1, <1>2 DEF Alerting!At

LEMMA AlertMoments ==
  /\ Cooldown \in Nat \ {0} /\ LastTime \in Nat /\ MaxUpdates \in Nat
  /\ Alerting!Never \in Int /\ Alerting!Never + Cooldown = 0 /\ Alerting!Never \in Alerting!Moment
  /\ 0 .. LastTime \subseteq Alerting!Moment /\ Alerting!Moment \subseteq Int
BY PlatformAssumption DEF Alerting!Moment, Alerting!Never

LEMMA AlertNumbers ==
  ASSUME AlertTypes
  PROVE  /\ v1 \in Int /\ v1 >= 0 /\ v1 <= LastTime
         /\ \A r \in Alerting!Rule :
              /\ v4[r] \in Int /\ v2[r].last \in Int
              /\ v2[r].cooldown \in Int /\ v2[r].cooldown <= Cooldown
<1>1. v1 \in Int /\ v1 >= 0 /\ v1 <= LastTime
  BY AlertMoments DEF AlertTypes
<1>2. ASSUME NEW r \in Alerting!Rule
      PROVE  /\ v4[r] \in Int /\ v2[r].last \in Int
             /\ v2[r].cooldown \in Int /\ v2[r].cooldown <= Cooldown
  <2>1. v2[r] \in RuleState /\ v4[r] \in Alerting!Moment
    BY DEF AlertTypes
  <2>2. v2[r].last \in Alerting!Moment /\ v2[r].cooldown \in 1 .. Cooldown
    BY <2>1 DEF RuleState
  <2>3. v4[r] \in Int /\ v2[r].last \in Int
    BY <2>1, <2>2, AlertMoments
  <2>4. v2[r].cooldown \in Int /\ v2[r].cooldown <= Cooldown
    BY <2>2, AlertMoments
  <2> QED BY <2>3, <2>4
<1> QED BY <1>1, <1>2

LEMMA AlertInit == Alerting!Init => AlertInv
<1> SUFFICES ASSUME Alerting!Init PROVE AlertInv
  OBVIOUS
<1>1. AlertTypes
  BY AlertMoments DEF Alerting!Init, AlertTypes, PollState, RuleState, Alerting!NoCheck, Alerting!Label
<1>2. \A r \in Alerting!Rule : v4[r] <= v1
  BY AlertMoments DEF Alerting!Init
<1>3. ASSUME NEW r \in Alerting!Rule PROVE AlertedInTime(r)
  BY AlertMoments DEF Alerting!Init, AlertedInTime, Alerts, Alerting!NoCheck
<1> QED BY <1>1, <1>2, <1>3 DEF AlertInv

\* A check that goes on without alerting.
LEMMA AlertGoesOn ==
  ASSUME AlertInv, NEW c \in Poll, NEW new \in PollState, v3' = [v3 EXCEPT ![c] = new],
         UNCHANGED <<v1, v2, v4, v5>>, v3[c].at \notin {"alert", "note"}, new.at \notin {"alert", "note"}
  PROVE  AlertInv'
<1>1. AlertTypes'
  BY DEF AlertInv, AlertTypes
<1>2. \A d \in Poll : v3'[d].at \in {"alert", "note"} \/ v3[d].at \in {"alert", "note"} => v3'[d] = v3[d]
  BY DEF AlertInv, AlertTypes
<1>3. ASSUME NEW r \in Alerting!Rule \ v5' PROVE AlertedInTime(r)'
  <2>1. \A d \in Poll : Alerts(d, r)' <=> Alerts(d, r)
    BY <1>2 DEF Alerts, Alerting!At
  <2> QED BY <1>2, <2>1 DEF AlertInv, AlertedInTime, Alerts
<1> QED BY <1>1, <1>3 DEF AlertInv
\* The rule's turn: it alerts, or the check goes on to the next one.
LEMMA AlertBegins ==
  ASSUME AlertInv, NEW c \in Poll, NEW beyond \in BOOLEAN, Alerting!CheckAlertRule(c, beyond)
  PROVE  AlertInv'
<1> DEFINE r == Alerting!At(c)
<1>1. /\ v3[c] \in PollState /\ v3[c].at = "rule" /\ v3[c].index \in 1 .. 2 /\ r \in Alerting!Rule
      /\ UNCHANGED <<v1, v2, v4>>
  BY AlertRules DEF Alerting!CheckAlertRule, AlertInv, AlertTypes, PollState
<1>2. CASE v2[r].enabled /\ ~Alerting!InCooldown(r) /\ beyond
  <2> DEFINE new == [v3[c] EXCEPT !.at = "alert", !.version = v2[r].version]
  <2>1. /\ v3' = [v3 EXCEPT ![c] = new]
        /\ v5' = IF Alerting!AlertingOn(r) # {} THEN v5 \cup {r} ELSE v5
    BY <1>2 DEF Alerting!CheckAlertRule, AlertInv, AlertTypes
  <2>2. new \in PollState /\ new.at = "alert" /\ new.index = v3[c].index
    BY <1>1 DEF PollState, Alerting!Label, AlertInv, AlertTypes, RuleState
  <2>3. v1 \in Int /\ v4[r] \in Int /\ v2[r].last \in Int
        /\ v2[r].cooldown \in Int /\ v2[r].cooldown <= Cooldown /\ Cooldown \in Int /\ v1 >= 0
        /\ (v2[r].last = Alerting!Never \/ v1 >= v2[r].last + v2[r].cooldown)
    BY <1>1, <1>2, AlertMoments, AlertNumbers DEF Alerting!InCooldown, AlertInv
  <2> HIDE DEF new
  <2>4. AlertTypes'
    BY <1>1, <2>1, <2>2 DEF AlertInv, AlertTypes
  <2>5. ASSUME NEW s \in Alerting!Rule \ v5' PROVE AlertedInTime(s)'
    <3>1. \A d \in Poll \ {c} : (Alerts(d, s)' <=> Alerts(d, s)) /\ v3'[d] = v3[d]
      BY <2>1 DEF Alerts, Alerting!At, AlertInv, AlertTypes
    <3>2. Alerts(c, s)' <=> s = r
      BY <2>1, <2>2 DEF Alerts, Alerting!At, AlertInv, AlertTypes
    <3>3. s \in Alerting!Rule \ v5 /\ ~Alerts(c, s)
      BY <1>1, <2>1 DEF Alerts
    <3>4. CASE s # r
      BY <1>1, <3>1, <3>2, <3>3, <3>4 DEF AlertInv, AlertedInTime
    <3>5. CASE s = r
      <4>1. \A d \in Poll : ~Alerts(d, r)
        BY <2>1, <3>5 DEF Alerts, Alerting!AlertingOn
      <4>2. v4[r] <= v2[r].last
        BY <3>3, <3>5, <4>1 DEF AlertInv, AlertedInTime
      <4>3. v1 >= v4[r] + v2[r].cooldown
        BY <2>3, <4>2, AlertMoments DEF AlertInv, AlertTypes
      <4> QED BY <1>1, <3>1, <3>5, <4>1, <4>2, <4>3 DEF AlertedInTime
    <3> QED BY <3>4, <3>5
  <2> QED BY <1>1, <2>4, <2>5 DEF AlertInv
<1>3. CASE ~(v2[r].enabled /\ ~Alerting!InCooldown(r) /\ beyond)
  <2> DEFINE new == [v3[c] EXCEPT !.index = v3[c].index + 1]
  <2>1. v3' = [v3 EXCEPT ![c] = new] /\ v5' = v5
    BY <1>3 DEF Alerting!CheckAlertRule, AlertInv, AlertTypes
  <2>2. new \in PollState /\ new.at = "rule"
    BY <1>1 DEF PollState
  <2> HIDE DEF new
  <2> QED BY <1>1, <2>1, <2>2, AlertGoesOn
<1> QED BY <1>2, <1>3

LEMMA AlertSent ==
  ASSUME AlertInv, NEW c \in Poll, Alerting!TriggerAlert(c)
  PROVE  AlertInv'
<1> DEFINE r == Alerting!At(c)
           new == [v3[c] EXCEPT !.at = "note"]
<1>1. /\ v3[c] \in PollState /\ v3[c].at = "alert" /\ v3[c].index \in 1 .. 2 /\ r \in Alerting!Rule
      /\ v3' = [v3 EXCEPT ![c] = new] /\ UNCHANGED <<v1, v2, v5>>
      /\ (v4' = [v4 EXCEPT ![r] = v1] \/ v4' = v4)
  BY AlertRules DEF Alerting!TriggerAlert, AlertInv, AlertTypes, PollState
<1>2. new \in PollState /\ new.at = "note" /\ new.index = v3[c].index
  BY <1>1 DEF PollState, Alerting!Label
<1> HIDE DEF new
<1>3. AlertTypes'
  BY <1>1, <1>2, AlertMoments DEF AlertInv, AlertTypes
<1>4. \A s \in Alerting!Rule : v4'[s] <= v1'
  BY <1>1, AlertMoments DEF AlertInv, AlertTypes
<1>5. ASSUME NEW s \in Alerting!Rule \ v5' PROVE AlertedInTime(s)'
  <2>1. \A d \in Poll : Alerts(d, s)' <=> Alerts(d, s)
    BY <1>1, <1>2 DEF Alerts, Alerting!At, AlertInv, AlertTypes
  <2>2. \A d \in Poll \ {c} : v3'[d] = v3[d]
    BY <1>1 DEF AlertInv, AlertTypes
  <2>3. Alerts(c, r) /\ v3'[c].at = "note"
    BY <1>1, <1>2 DEF Alerts, AlertInv, AlertTypes
  <2>4. CASE s = r
    BY <1>1, <2>1, <2>2, <2>3, <2>4 DEF AlertInv, AlertedInTime
  <2>5. CASE s # r
    <3>1. ~Alerts(c, s) /\ v4'[s] = v4[s]
      BY <1>1, <2>5 DEF Alerts, AlertInv, AlertTypes
    <3> QED BY <1>1, <2>1, <2>2, <3>1 DEF AlertInv, AlertedInTime
  <2> QED BY <2>4, <2>5
<1> QED BY <1>3, <1>4, <1>5 DEF AlertInv

LEMMA AlertNoted ==
  ASSUME AlertInv, NEW c \in Poll, Alerting!NoteAlert(c)
  PROVE  AlertInv'
<1> DEFINE r == Alerting!At(c)
           new == [v3[c] EXCEPT !.at = "rule", !.index = v3[c].index + 1, !.version = 0]
<1>1. /\ v3[c] \in PollState /\ v3[c].at = "note" /\ v3[c].index \in 1 .. 2 /\ r \in Alerting!Rule
      /\ v3' = [v3 EXCEPT ![c] = new] /\ UNCHANGED <<v1, v4>>
  BY AlertRules DEF Alerting!NoteAlert, AlertInv, AlertTypes, PollState
<1>2. new \in PollState /\ new.at = "rule"
  <2>1. 0 \in 0 .. MaxUpdates /\ v3[c].index + 1 \in 1 .. 3
    BY <1>1, AlertMoments
  <2> QED BY <1>1, <2>1 DEF PollState, Alerting!Label
<1> HIDE DEF new
<1>3. v2' \in [Alerting!Rule -> RuleState] /\ v5' \subseteq Alerting!Rule
  BY <1>1, AlertMoments DEF Alerting!NoteAlert, AlertInv, AlertTypes, RuleState
<1>4. AlertTypes'
  BY <1>1, <1>2, <1>3 DEF AlertInv, AlertTypes
<1>5. ASSUME NEW s \in Alerting!Rule \ v5' PROVE AlertedInTime(s)'
  <2>1. \A d \in Poll \ {c} : (Alerts(d, s)' <=> Alerts(d, s)) /\ v3'[d] = v3[d]
    BY <1>1 DEF Alerts, Alerting!At, AlertInv, AlertTypes
  <2>2. ~Alerts(c, s)' /\ Alerts(c, r)
    BY <1>1, <1>2 DEF Alerts, AlertInv, AlertTypes
  <2>3. CASE s = r
    <3>1. v2[r].version = v3[c].version
      BY <1>1, <2>3 DEF Alerting!NoteAlert
    <3>2. v2' = [v2 EXCEPT ![r].last = v1]
      BY <3>1 DEF Alerting!NoteAlert
    <3>3. v2'[r].last = v1
      BY <1>1, <3>2 DEF AlertInv, AlertTypes, RuleState
    <3>4. \A d \in Poll : Alerts(d, r) => d = c
      <4>1. CASE Alerting!AlertingOn(r) = {c}
        BY <4>1 DEF Alerts, Alerting!AlertingOn
      <4>2. CASE Alerting!AlertingOn(r) # {c}
        <5>1. r \notin v5
          BY <2>3, <3>1, <4>2 DEF Alerting!NoteAlert
        <5> QED BY <1>1, <2>2, <5>1 DEF AlertInv, AlertedInTime
      <4> QED BY <4>1, <4>2
    <3> QED BY <1>1, <2>1, <2>2, <2>3, <3>3, <3>4 DEF AlertInv, AlertedInTime
  <2>4. CASE s # r
    <3>1. s \notin v5 /\ v2'[s] = v2[s] /\ ~Alerts(c, s)
      BY <1>1, <2>4 DEF Alerting!NoteAlert, AlertInv, AlertTypes, Alerts
    <3> QED BY <1>1, <2>1, <2>2, <3>1 DEF AlertInv, AlertedInTime
  <2> QED BY <2>3, <2>4
<1> QED BY <1>1, <1>4, <1>5 DEF AlertInv

\* An administrator's change leaves the time of the last alert as it is.
LEMMA AlertRuleChanged ==
  ASSUME AlertInv, NEW r \in Alerting!Rule, NEW new \in RuleState, new.last = v2[r].last,
         v2' = [v2 EXCEPT ![r] = new], UNCHANGED <<v1, v3, v4>>,
         v5 \subseteq v5', v5' \subseteq Alerting!Rule,
         new.cooldown = v2[r].cooldown \/ Alerting!AlertingOn(r) = {} \/ r \in v5'
  PROVE  AlertInv'
<1>1. AlertTypes'
  BY DEF AlertInv, AlertTypes
<1>2. ASSUME NEW s \in Alerting!Rule \ v5' PROVE AlertedInTime(s)'
  <2>1. v2'[s].last = v2[s].last /\ \A d \in Poll : Alerts(d, s)' <=> Alerts(d, s)
    BY DEF Alerts, Alerting!At, AlertInv, AlertTypes
  <2>2. v2'[s].cooldown = v2[s].cooldown \/ \A d \in Poll : ~Alerts(d, s)
    BY DEF Alerts, Alerting!AlertingOn, AlertInv, AlertTypes
  <2> QED BY <2>1, <2>2 DEF AlertInv, AlertedInTime
<1> QED BY <1>1, <1>2 DEF AlertInv

LEMMA AlertSteps ==
  ASSUME AlertInv, Alerting!Next
  PROVE  AlertInv'
<1>1. ASSUME NEW c \in Poll,
             Alerting!CheckAlerts(c) \/ Alerting!GetCurrentMetrics(c) \/ Alerting!CheckEnds(c)
      PROVE  AlertInv'
  <2>1. v3[c] \in PollState /\ Alerting!NoCheck \in PollState /\ Alerting!NoCheck.at = "idle"
    BY AlertMoments DEF AlertInv, AlertTypes, Alerting!NoCheck, PollState, Alerting!Label
  <2>2. PICK new \in PollState : /\ v3' = [v3 EXCEPT ![c] = new]
                                 /\ new.at \notin {"alert", "note"}
    <3>1. CASE Alerting!CheckAlerts(c)
      <4>1. /\ v3' = [v3 EXCEPT ![c] = [v3[c] EXCEPT !.at = "metrics"]]
            /\ [v3[c] EXCEPT !.at = "metrics"] \in PollState
            /\ [v3[c] EXCEPT !.at = "metrics"].at = "metrics"
        BY <2>1, <3>1 DEF Alerting!CheckAlerts, PollState, Alerting!Label, AlertInv, AlertTypes
      <4> QED BY <4>1
    <3>2. CASE Alerting!GetCurrentMetrics(c)
      <4>1. /\ v3' = [v3 EXCEPT ![c] = [v3[c] EXCEPT !.at = "rule"]]
            /\ [v3[c] EXCEPT !.at = "rule"] \in PollState
            /\ [v3[c] EXCEPT !.at = "rule"].at = "rule"
        BY <2>1, <3>2 DEF Alerting!GetCurrentMetrics, PollState, Alerting!Label, AlertInv, AlertTypes
      <4> QED BY <4>1
    <3>3. CASE Alerting!CheckEnds(c)
      BY <2>1, <3>3 DEF Alerting!CheckEnds
    <3> QED BY <1>1, <3>1, <3>2, <3>3
  <2>3. UNCHANGED <<v1, v2, v4, v5>> /\ v3[c].at \notin {"alert", "note"}
    BY <1>1 DEF Alerting!CheckAlerts, Alerting!GetCurrentMetrics, Alerting!CheckEnds
  <2> QED BY <2>2, <2>3, AlertGoesOn
<1>2. ASSUME NEW r \in Alerting!Rule, NEW enabled \in BOOLEAN, Alerting!ToggleAlertRule(r, enabled)
      PROVE  AlertInv'
  <2> DEFINE new == [v2[r] EXCEPT !.enabled = enabled]
  <2>1. v2' = [v2 EXCEPT ![r] = new] /\ UNCHANGED <<v1, v3, v4, v5>>
    BY <1>2 DEF Alerting!ToggleAlertRule
  <2>2. new \in RuleState /\ new.last = v2[r].last /\ new.cooldown = v2[r].cooldown
        /\ v5 \subseteq v5' /\ v5' \subseteq Alerting!Rule
    BY <2>1 DEF RuleState, AlertInv, AlertTypes
  <2> HIDE DEF new
  <2> QED BY <2>1, <2>2, AlertRuleChanged
<1>3. ASSUME NEW r \in Alerting!Rule, Alerting!UpdateAlertRule(r) PROVE AlertInv'
  <2>1. PICK enabled \in BOOLEAN, cooldown \in 1 .. Cooldown :
          v2' = [v2 EXCEPT ![r] = [v2[r] EXCEPT !.enabled = enabled, !.cooldown = cooldown,
                                                !.version = v2[r].version + 1]]
    BY <1>3, Zenon DEF Alerting!UpdateAlertRule, AlertInv, AlertTypes
  <2> DEFINE new == [v2[r] EXCEPT !.enabled = enabled, !.cooldown = cooldown,
                                  !.version = v2[r].version + 1]
  <2>2. /\ v2[r] \in RuleState /\ v2[r].version < MaxUpdates /\ UNCHANGED <<v1, v3, v4>>
        /\ v5' = IF Alerting!AlertingOn(r) # {} THEN v5 \cup {r} ELSE v5
        /\ v5 \subseteq Alerting!Rule
    BY <1>3 DEF Alerting!UpdateAlertRule, AlertInv, AlertTypes
  <2>3. new \in RuleState /\ new.last = v2[r].last
    <3>1. v2[r].version + 1 \in 0 .. MaxUpdates
      BY <2>2, AlertMoments DEF RuleState
    <3> QED BY <2>2, <3>1 DEF RuleState
  <2>4. v2' = [v2 EXCEPT ![r] = new]
    BY <2>1
  <2>5. v5 \subseteq v5' /\ v5' \subseteq Alerting!Rule /\ (Alerting!AlertingOn(r) = {} \/ r \in v5')
    BY <2>2
  <2> HIDE DEF new
  <2> QED BY <2>2, <2>3, <2>4, <2>5, AlertRuleChanged
<1>4. CASE Alerting!Advance
  <2>1. v1' = v1 + 1 /\ v1' \in 0 .. LastTime /\ UNCHANGED <<v2, v3, v4, v5>>
    BY <1>4, AlertMoments DEF Alerting!Advance, AlertInv, AlertTypes
  <2>2. AlertTypes'
    BY <2>1, AlertMoments DEF AlertInv, AlertTypes
  <2>3. \A r \in Alerting!Rule : v4'[r] <= v1'
    BY <2>1, AlertMoments, AlertNumbers DEF AlertInv
  <2>4. ASSUME NEW r \in Alerting!Rule \ v5' PROVE AlertedInTime(r)'
    <3>1. \A d \in Poll : Alerts(d, r)' <=> Alerts(d, r)
      BY <2>1 DEF Alerts, Alerting!At
    <3> QED BY <2>1, <3>1, AlertMoments, AlertNumbers DEF AlertInv, AlertedInTime
  <2> QED BY <2>2, <2>3, <2>4 DEF AlertInv
<1>5. ASSUME NEW r \in Alerting!Rule, Alerting!TestAlertRule(r) PROVE AlertInv'
  BY <1>5 DEF Alerting!TestAlertRule, Alerting!vars, AlertInv, AlertTypes, AlertedInTime, Alerts,
              Alerting!At
<1> QED BY <1>1, <1>2, <1>3, <1>4, <1>5, AlertBegins, AlertSent, AlertNoted DEF Alerting!Next

LEMMA AlertsAlways == Spec => [](focus = "alerts" => AlertInv)
<1> DEFINE Inv == focus = "alerts" => AlertInv
<1>1. Init => Inv
  BY AlertInit DEF Init
<1>2. Inv /\ [Next]_vars => Inv'
  <2> SUFFICES ASSUME Inv, [Next]_vars, focus' = "alerts" PROVE AlertInv'
    OBVIOUS
  <2>1. focus = "alerts" /\ AlertInv
    BY FocusStays
  <2>2. CASE Alerting!Next
    BY <2>1, <2>2, AlertSteps
  <2>3. CASE UNCHANGED <<v1, v2, v3, v4, v5>>
    BY <2>1, <2>3 DEF AlertInv, AlertTypes, AlertedInTime, Alerts, Alerting!At
  <2> QED BY <2>1, <2>2, <2>3 DEF Next, vars
<1> QED BY <1>1, <1>2, PTL DEF Spec

\* The theorem: two alerts that the checks send of a rule are its cooldown apart
\* (payment-alerting.service.ts), for any number of checks, changes, tests and ticks.
THEOREM SpacedAlerts == Spec => AlertsSpaced
<1> DEFINE Inv == focus = "alerts" => AlertInv
           Step == focus = "alerts" => Alerting!SpacedStep
<1>1. Inv /\ [Next]_vars => [Step]_vars
  <2> SUFFICES ASSUME AlertInv, Alerting!Next, NEW r \in Alerting!Rule, v4'[r] # v4[r], r \notin v5
               PROVE  v1 >= v4[r] + v2[r].cooldown
    BY DEF Next, Alerting!SpacedStep
  <2>1. PICK c \in Poll : Alerting!TriggerAlert(c)
    BY Zenon DEF Alerting!Next, Alerting!CheckAlerts, Alerting!GetCurrentMetrics, Alerting!CheckEnds,
           Alerting!CheckAlertRule, Alerting!NoteAlert, Alerting!UpdateAlertRule,
           Alerting!ToggleAlertRule, Alerting!TestAlertRule, Alerting!vars, Alerting!Advance
  <2>2. v3[c].at = "alert" /\ Alerting!At(c) = r
    BY <2>1 DEF Alerting!TriggerAlert, AlertInv, AlertTypes
  <2> QED BY <2>2 DEF AlertInv, AlertedInTime, Alerts
<1> QED BY <1>1, AlertsAlways, PTL DEF Spec, AlertsSpaced
-----------------------------------------------------------------------------
(***************************************************************************)
(* Accounts: a suspension outlives the saves of others because a call that *)
(* loads a suspended user carries the suspension, and because a save makes *)
(* stale every call that had loaded the user before.  What a save leaves   *)
(* behind is known while the row is as its select found it: then it is the *)
(* user the call holds.                                                    *)
(***************************************************************************)
VisitState == [at : {"idle", "create", "wallet", "preferences", "select", "update", "insert"},
               kind : Account!Kind, user : SUBSET Account!Flag, diff : SUBSET Account!Flag,
               stale : BOOLEAN, mixed : BOOLEAN]

\* The flags that a call's save leaves in the row.
Left(r) == IF r.at = "update" THEN (v1.flags \ r.diff) \cup r.user ELSE r.user
Known(r) == r.at \in {"select", "insert"} \/ (r.at = "update" /\ ~r.mixed)

Shut(flags) == "suspended" \in flags /\ "active" \notin flags
Torn(flags) == "suspended" \in flags /\ "active" \in flags

Carries(r) ==
  /\ r.mixed => r.stale
  /\ v1.here = "unknown" => r.at \in {"idle", "create"}
  /\ r.at = "create" => "suspended" \notin r.user
  /\ r.at \in {"select", "update", "insert"} => r.kind # "register"
  /\ Known(r) /\ Torn(Left(r)) => v5
  /\ Known(r) /\ r.kind = "suspend" => Shut(Left(r))
  /\ r.at \in {"select", "update"} /\ v4 /\ ~r.stale /\ r.kind = "other" => Shut(Left(r))

AccountTypes ==
  /\ v1 \in [here : {"unknown", "live", "deleted"}, flags : SUBSET Account!Flag]
  /\ v3 \in [Visit -> VisitState]
  /\ v4 \in BOOLEAN /\ v5 \in BOOLEAN

RowHolds ==
  /\ v4 => v1.here = "live" /\ Shut(v1.flags)
  /\ Torn(v1.flags) => v5

AccountInv ==
  /\ AccountTypes
  /\ RowHolds
  /\ \A v \in Visit : Carries(v3[v])

LEMMA NoVisitTyped == Account!NoVisit \in VisitState /\ Account!NoVisit.at = "idle" /\ ~Account!NoVisit.mixed
BY DEF Account!NoVisit, VisitState, Account!Kind

LEMMA AccountInit == Account!Init => AccountInv
<1> SUFFICES ASSUME Account!Init PROVE AccountInv
  OBVIOUS
<1>1. AccountTypes
  BY NoVisitTyped DEF Account!Init, AccountTypes
<1>2. RowHolds
  BY DEF Account!Init, RowHolds, Torn
<1>3. \A v \in Visit : Carries(v3[v])
  BY NoVisitTyped DEF Account!Init, Carries, Known
<1> QED BY <1>1, <1>2, <1>3 DEF AccountInv

\* A call goes on, and the row stays as it is.
LEMMA AccountVisits ==
  ASSUME AccountInv, NEW c \in Visit, NEW new \in VisitState, v3' = [v3 EXCEPT ![c] = new],
         UNCHANGED <<v1, v4, v5>>, Carries(new)
  PROVE  AccountInv'
<1>1. AccountTypes'
  BY DEF AccountInv, AccountTypes
<1>2. RowHolds'
  BY DEF AccountInv, RowHolds
<1>3. ASSUME NEW d \in Visit PROVE Carries(v3[d])'
  <2>1. v3'[d] = IF d = c THEN new ELSE v3[d]
    BY DEF AccountInv, AccountTypes
  <2>2. Carries(v3[d])
    BY DEF AccountInv
  <2> QED BY <2>1, <2>2 DEF Carries, Known, Left
<1> QED BY <1>1, <1>2, <1>3 DEF AccountInv

\* A call writes the row: what the others hold is stale.
LEMMA AccountOvertaken ==
  ASSUME AccountInv, NEW c \in Visit, Account!Overtaken(c),
         v1' \in [here : {"live", "deleted"}, flags : SUBSET Account!Flag],
         v4' \in BOOLEAN, v5' \in BOOLEAN, v5 => v5', RowHolds'
  PROVE  AccountInv'
<1>1. ASSUME NEW d \in Visit PROVE v3'[d] \in VisitState /\ Carries(v3[d])'
  <2>1. CASE d = c \/ v3[d].at = "idle"
    <3>1. v3'[d] \in VisitState /\ v3'[d].at = "idle" /\ (v3'[d].mixed => v3'[d].stale)
      BY <2>1, NoVisitTyped, Zenon DEF Account!Overtaken, AccountInv, AccountTypes, Carries
    <3> QED BY <3>1 DEF Carries, Known
  <2>2. CASE ~(d = c \/ v3[d].at = "idle")
    <3> DEFINE old == v3[d]
               new == [old EXCEPT !.stale = TRUE, !.mixed = old.mixed \/ old.at = "update"]
    <3>1. v3'[d] = new
      BY <2>2, Zenon DEF Account!Overtaken
    <3>2. old \in VisitState /\ Carries(old) /\ (old.mixed \/ old.at = "update") \in BOOLEAN
      BY DEF AccountInv, AccountTypes
    <3>3. /\ new \in VisitState /\ new.at = old.at /\ new.kind = old.kind /\ new.user = old.user
          /\ new.stale /\ (old.at = "update" => new.mixed)
      BY <3>2 DEF VisitState
    <3> HIDE DEF new, old
    <3>4. v1'.here # "unknown" /\ v3'[d] \in VisitState
      BY <3>1, <3>3
    <3>5. CASE old.at = "update"
      BY <3>1, <3>2, <3>3, <3>4, <3>5 DEF Carries, Known
    <3>6. CASE old.at # "update"
      <4>1. Left(v3[d])' = old.user /\ Left(old) = old.user
        BY <3>1, <3>3, <3>6 DEF Left
      <4>2. v3'[d].stale /\ v3'[d].at = old.at /\ v3'[d].kind = old.kind /\ v3'[d].user = old.user
        BY <3>1, <3>3
      <4>6. Known(v3[d])' => Known(old)
        BY <3>6, <4>2 DEF Known
      <4>3. Known(old) /\ Torn(old.user) => v5
        BY <3>2, <4>1 DEF Carries
      <4>4. Known(old) /\ old.kind = "suspend" => Shut(old.user)
        BY <3>2, <4>1 DEF Carries
      <4>5. /\ old.at = "create" => "suspended" \notin old.user
            /\ old.at \in {"select", "update", "insert"} => old.kind # "register"
        BY <3>2 DEF Carries
      <4> HIDE DEF old
      <4> QED BY <3>4, <3>6, <4>1, <4>2, <4>3, <4>4, <4>5, <4>6 DEF Carries, Torn, Shut
    <3> QED BY <3>4, <3>5, <3>6
  <2> QED BY <2>1, <2>2
<1>2. AccountTypes'
  BY <1>1, Zenon DEF AccountTypes, Account!Overtaken
<1> QED BY <1>1, <1>2 DEF AccountInv
\* A call loads the user: it carries a suspension on, unless it is there to end it.
LEMMA AccountLoad ==
  ASSUME AccountInv, NEW c \in Visit, NEW kind \in {"suspend", "activate", "other"},
         NEW user \in SUBSET Account!Flag, Account!Load(c, kind, user),
         Torn(user) => Torn(v1.flags), kind = "suspend" => Shut(user),
         kind = "other" /\ Shut(v1.flags) => Shut(user)
  PROVE  AccountInv'
<1> DEFINE new == [Account!NoVisit EXCEPT !.at = "select", !.kind = kind, !.user = user]
<1>1. v3' = [v3 EXCEPT ![c] = new] /\ UNCHANGED <<v1, v4, v5>> /\ v1.here = "live"
  BY DEF Account!Load
<1>2. /\ new \in VisitState /\ new.at = "select" /\ new.kind = kind /\ new.user = user
      /\ new.mixed = FALSE
  BY DEF VisitState, Account!NoVisit, Account!Kind
<1> HIDE DEF new
<1>3. Left(new) = user
  BY <1>2 DEF Left
<1>4. Carries(new)
  BY <1>1, <1>2, <1>3 DEF Carries, AccountInv, RowHolds
<1> QED BY <1>1, <1>2, <1>4, AccountVisits

LEMMA AccountChange ==
  ASSUME AccountInv, NEW c \in Visit, Account!Change(c)
  PROVE  AccountInv'
<1> DEFINE flags == v1.flags
<1>1. flags \in SUBSET Account!Flag
  BY DEF AccountInv, AccountTypes
<1>2. CASE Account!Update(c)
  <2>1. PICK verified \in SUBSET {"verified"} :
          Account!Load(c, "other", (flags \ {"verified"}) \cup verified)
    BY <1>2 DEF Account!Update
  <2>2. (flags \ {"verified"}) \cup verified \in SUBSET Account!Flag
    BY <1>1 DEF Account!Flag
  <2> QED BY <2>1, <2>2, AccountLoad DEF Torn, Shut
<1>3. CASE Account!Load(c, "other", flags)
  BY <1>1, <1>3, AccountLoad
<1>4. CASE Account!VerifyEmail(c)
  <2>1. flags \cup {"verified"} \in SUBSET Account!Flag
    BY <1>1 DEF Account!Flag
  <2> QED BY <1>4, <2>1, AccountLoad DEF Account!VerifyEmail, Torn, Shut
<1>5. CASE Account!VerifyResetCode(c)
  <2>1. flags \cup {"token"} \in SUBSET Account!Flag
    BY <1>1 DEF Account!Flag
  <2> QED BY <1>5, <2>1, AccountLoad DEF Account!VerifyResetCode, Torn, Shut
<1>6. CASE Account!ActivateUser(c)
  <2>1. Account!Activated(flags) \in SUBSET Account!Flag /\ ~Torn(Account!Activated(flags))
    BY <1>1 DEF Account!Flag, Account!Activated, Torn
  <2> QED BY <1>6, <2>1, AccountLoad DEF Account!ActivateUser
<1>7. CASE Account!DeactivateUser(c)
  <2>1. flags \ {"active"} \in SUBSET Account!Flag
    BY <1>1
  <2> QED BY <1>7, <2>1, AccountLoad DEF Account!DeactivateUser, Torn, Shut
<1>8. CASE Account!SuspendUser(c)
  <2>1. /\ Account!Suspended(flags) \in SUBSET Account!Flag
        /\ ~Torn(Account!Suspended(flags)) /\ Shut(Account!Suspended(flags))
    BY <1>1 DEF Account!Flag, Account!Suspended, Torn, Shut
  <2> QED BY <1>8, <2>1, AccountLoad DEF Account!SuspendUser
<1> QED
  BY <1>2, <1>3, <1>4, <1>5, <1>6, <1>7, <1>8
  DEF Account!Change, Account!UpdateProfile, Account!UploadProfilePicture, Account!ResetPassword,
      Account!ChangePassword, Account!VerifyIdentity

\* Registration: a row that is new is neither suspended nor held.
LEMMA AccountRegistration ==
  ASSUME AccountInv, NEW c \in Visit,
         \/ Account!Register(c) \/ Account!CreateRow(c)
         \/ \E belonging \in Account!Belonging : Account!AddBelonging(c, belonging)
  PROVE  AccountInv'
<1>1. v3[c] \in VisitState /\ Carries(v3[c])
  BY DEF AccountInv, AccountTypes
<1>2. CASE Account!Register(c)
  <2>1. PICK verified \in BOOLEAN :
          v3' = [v3 EXCEPT ![c] = [Account!NoVisit EXCEPT !.at = "create", !.kind = "register",
                   !.user = {"active"} \cup (IF verified THEN {"verified"} ELSE {})]]
    BY <1>2, Zenon DEF Account!Register
  <2> DEFINE user == {"active"} \cup (IF verified THEN {"verified"} ELSE {})
             new == [Account!NoVisit EXCEPT !.at = "create", !.kind = "register", !.user = user]
  <2>2. v3' = [v3 EXCEPT ![c] = new] /\ UNCHANGED <<v1, v4, v5>>
    BY <1>2, <2>1, Zenon DEF Account!Register
  <2>3. user \in SUBSET Account!Flag /\ "suspended" \notin user
    BY DEF Account!Flag
  <2> HIDE DEF user
  <2>4. new \in VisitState /\ new.at = "create" /\ new.user = user /\ new.mixed = FALSE
    BY <2>3 DEF VisitState, Account!NoVisit, Account!Kind
  <2> HIDE DEF new
  <2>5. Carries(new)
    BY <2>3, <2>4 DEF Carries, Known
  <2> QED BY <2>2, <2>4, <2>5, AccountVisits
<1>3. CASE Account!CreateRow(c) /\ v1.here = "unknown"
  <2> DEFINE new == [v3[c] EXCEPT !.at = "wallet"]
  <2>1. /\ v1' = [here |-> "live", flags |-> v3[c].user] /\ v3' = [v3 EXCEPT ![c] = new]
        /\ UNCHANGED <<v4, v5>> /\ v3[c].at = "create"
    BY <1>3 DEF Account!CreateRow, Account!Step
  <2>2. /\ new \in VisitState /\ new.at = "wallet" /\ new.mixed = v3[c].mixed /\ new.stale = v3[c].stale
        /\ v3[c].user \in SUBSET Account!Flag /\ "suspended" \notin v3[c].user
    BY <1>1, <2>1 DEF VisitState, Carries
  <2> HIDE DEF new
  <2>3. AccountTypes'
    BY <2>1, <2>2 DEF AccountInv, AccountTypes
  <2>4. RowHolds'
    BY <1>3, <2>1, <2>2 DEF AccountInv, RowHolds, Torn
  <2>5. ASSUME NEW d \in Visit PROVE Carries(v3[d])'
    <3>1. CASE d = c
      <4>1. v3'[c] = new
        BY <2>1 DEF AccountInv, AccountTypes
      <4>2. v1'.here = "live" /\ (v3'[c].mixed => v3'[c].stale) /\ v3'[c].at = "wallet"
        BY <1>1, <2>1, <2>2, <4>1 DEF Carries
      <4> QED BY <3>1, <4>2 DEF Carries, Known
    <3>2. CASE d # c
      <4>1. v3'[d] = v3[d] /\ Carries(v3[d]) /\ v3[d].at \in {"idle", "create"}
        BY <1>3, <2>1, <3>2 DEF AccountInv, AccountTypes, Carries
      <4>2. /\ v1'.here = "live" /\ (v3'[d].mixed => v3'[d].stale)
            /\ v3'[d].at = "create" => "suspended" \notin v3'[d].user
        BY <2>1, <4>1 DEF Carries
      <4> QED BY <4>1, <4>2 DEF Carries, Known
    <3> QED BY <3>1, <3>2
  <2> QED BY <2>3, <2>4, <2>5 DEF AccountInv
<1>4. CASE Account!CreateRow(c) /\ v1.here # "unknown"
  <2>1. v3' = [v3 EXCEPT ![c] = Account!NoVisit] /\ UNCHANGED <<v1, v4, v5>>
    BY <1>4 DEF Account!CreateRow, Account!End
  <2> QED BY <2>1, NoVisitTyped, AccountVisits DEF Carries, Known
<1>5. ASSUME NEW belonging \in Account!Belonging, Account!AddBelonging(c, belonging) PROVE AccountInv'
  <2>1. UNCHANGED <<v1, v4, v5>> /\ v3[c].at = belonging
    BY <1>5 DEF Account!AddBelonging
  <2>2. CASE belonging = "wallet"
    <3> DEFINE new == [v3[c] EXCEPT !.at = "preferences"]
    <3>1. v3' = [v3 EXCEPT ![c] = new]
      BY <1>5, <2>2 DEF Account!AddBelonging, Account!Step
    <3>2. /\ new \in VisitState /\ new.at = "preferences"
          /\ new.mixed = v3[c].mixed /\ new.stale = v3[c].stale
      BY <1>1 DEF VisitState
    <3> HIDE DEF new
    <3>3. v1.here # "unknown" /\ (new.mixed => new.stale)
      BY <1>1, <2>1, <2>2, <3>2 DEF Carries
    <3>4. Carries(new)
      BY <3>2, <3>3 DEF Carries, Known
    <3> QED BY <2>1, <3>1, <3>2, <3>4, AccountVisits
  <2>3. CASE belonging # "wallet"
    <3>1. v3' = [v3 EXCEPT ![c] = Account!NoVisit]
      BY <1>5, <2>3 DEF Account!AddBelonging, Account!End
    <3> QED BY <2>1, <3>1, NoVisitTyped, AccountVisits DEF Carries, Known
  <2> QED BY <2>2, <2>3
<1> QED BY <1>2, <1>3, <1>4, <1>5
\* save: while the row is as its select found it, the update leaves the user the call holds.
LEMMA AccountSelect ==
  ASSUME AccountInv, NEW c \in Visit, Account!Select(c)
  PROVE  AccountInv'
<1>1. /\ v3[c] \in VisitState /\ Carries(v3[c]) /\ v3[c].at = "select"
      /\ UNCHANGED <<v1, v4, v5>> /\ v1.flags \in SUBSET Account!Flag /\ v3[c].user \in SUBSET Account!Flag
  BY DEF AccountInv, AccountTypes, Account!Select, VisitState
<1>2. CASE v1.here = "live"
  <2> DEFINE diff == Account!Differing(c)
             user == v3[c].user \cap diff
             new == [v3[c] EXCEPT !.at = "update", !.diff = diff, !.user = user]
  <2>1. v3' = [v3 EXCEPT ![c] = new]
    BY <1>1, <1>2 DEF Account!Select, AccountInv, AccountTypes, VisitState
  <2>2. diff \in SUBSET Account!Flag /\ user \in SUBSET Account!Flag
    BY <1>1 DEF Account!Differing
  <2>3. (v1.flags \ diff) \cup user = v3[c].user
    BY <1>1 DEF Account!Differing
  <2> HIDE DEF diff, user
  <2>4. /\ new \in VisitState /\ new.at = "update" /\ new.kind = v3[c].kind /\ new.diff = diff
        /\ new.user = user /\ new.stale = v3[c].stale /\ new.mixed = v3[c].mixed
    BY <1>1, <2>2 DEF VisitState
  <2> HIDE DEF new
  <2>5. Left(new) = v3[c].user /\ Left(v3[c]) = v3[c].user
    BY <1>1, <2>3, <2>4 DEF Left
  <2>6. Carries(new)
    BY <1>1, <1>2, <2>4, <2>5 DEF Carries, Known
  <2> QED BY <1>1, <2>1, <2>4, <2>6, AccountVisits
<1>3. CASE v1.here # "live"
  <2> DEFINE new == [v3[c] EXCEPT !.at = "insert"]
  <2>1. v3' = [v3 EXCEPT ![c] = new]
    BY <1>3 DEF Account!Select
  <2>2. /\ new \in VisitState /\ new.at = "insert" /\ new.kind = v3[c].kind /\ new.user = v3[c].user
        /\ new.stale = v3[c].stale /\ new.mixed = v3[c].mixed
    BY <1>1 DEF VisitState
  <2> HIDE DEF new
  <2>3. Left(new) = v3[c].user /\ Left(v3[c]) = v3[c].user
    BY <1>1, <2>2 DEF Left
  <2>4. Carries(new)
    BY <1>1, <1>3, <2>2, <2>3 DEF Carries, Known
  <2> QED BY <1>1, <2>1, <2>2, <2>4, AccountVisits
<1> QED BY <1>2, <1>3

LEMMA AccountWrite ==
  ASSUME AccountInv, NEW c \in Visit, Account!Write(c)
  PROVE  AccountInv'
<1>1. v3[c] \in VisitState /\ Carries(v3[c]) /\ v3[c].at = "update"
  BY DEF AccountInv, AccountTypes, Account!Write
<1>2. CASE v1.here = "live"
  <2>1. /\ v1' = [v1 EXCEPT !.flags = (v1.flags \ v3[c].diff) \cup v3[c].user]
        /\ v4' = Account!Holds(c) /\ v5' = (v5 \/ v3[c].mixed) /\ Account!Overtaken(c)
    BY <1>2 DEF Account!Write
  <2>2. /\ v1'.here = "live" /\ v1'.flags = Left(v3[c])
        /\ v1' \in [here : {"live", "deleted"}, flags : SUBSET Account!Flag]
    BY <1>1, <1>2, <2>1 DEF AccountInv, AccountTypes, Left, VisitState
  <2>3. v5' \in BOOLEAN /\ (v5 => v5')
    BY <2>1
  <2>4. Torn(v1'.flags) => v5'
    BY <1>1, <2>1, <2>2 DEF Carries, Known
  <2>5. CASE v3[c].kind = "suspend"
    <3>1. v4' = ~v3[c].mixed
      BY <2>1, <2>5 DEF Account!Holds
    <3>2. v4' \in BOOLEAN /\ (v4' => Shut(v1'.flags))
      BY <1>1, <2>2, <2>5, <3>1 DEF Carries, Known
    <3> QED BY <2>1, <2>2, <2>3, <2>4, <3>2, AccountOvertaken DEF RowHolds
  <2>6. CASE v3[c].kind = "activate"
    <3>1. v4' = FALSE
      BY <2>1, <2>6 DEF Account!Holds
    <3> QED BY <2>1, <2>2, <2>3, <2>4, <3>1, AccountOvertaken DEF RowHolds
  <2>7. CASE v3[c].kind = "other"
    <3>1. v4' = (v4 /\ ~v3[c].stale)
      BY <2>1, <2>7 DEF Account!Holds
    <3>2. v4' \in BOOLEAN /\ (v4' => Shut(v1'.flags))
      BY <1>1, <2>2, <2>7, <3>1 DEF Carries
    <3> QED BY <2>1, <2>2, <2>3, <2>4, <3>2, AccountOvertaken DEF RowHolds
  <2> QED BY <1>1, <2>5, <2>6, <2>7 DEF VisitState, Account!Kind, Carries
<1>3. CASE v1.here # "live"
  <2>1. v3' = [v3 EXCEPT ![c] = Account!NoVisit] /\ UNCHANGED <<v1, v4, v5>>
    BY <1>3 DEF Account!Write, Account!End
  <2> QED BY <2>1, NoVisitTyped, AccountVisits DEF Carries, Known
<1> QED BY <1>2, <1>3

LEMMA AccountSteps ==
  ASSUME AccountInv, Account!Next
  PROVE  AccountInv'
<1>1. ASSUME NEW c \in Visit, Account!Insert(c) PROVE AccountInv'
  <2>1. CASE v1.here = "deleted"
    <3>1. /\ v1' = [here |-> "live", flags |-> v3[c].user] /\ Account!Overtaken(c)
          /\ UNCHANGED <<v4, v5>> /\ v3[c].at = "insert"
      BY <1>1, <2>1 DEF Account!Insert
    <3>2. v3[c].user \in SUBSET Account!Flag /\ v4 \in BOOLEAN /\ v5 \in BOOLEAN
      BY DEF AccountInv, AccountTypes, VisitState
    <3>3. ~v4 /\ (Torn(v3[c].user) => v5)
      BY <2>1, <3>1 DEF AccountInv, RowHolds, Carries, Known, Left
    <3> QED BY <3>1, <3>2, <3>3, AccountOvertaken DEF RowHolds
  <2>2. CASE v1.here # "deleted"
    <3>1. v3' = [v3 EXCEPT ![c] = Account!NoVisit] /\ UNCHANGED <<v1, v4, v5>>
      BY <1>1, <2>2 DEF Account!Insert, Account!End
    <3> QED BY <3>1, NoVisitTyped, AccountVisits DEF Carries, Known
  <2> QED BY <2>1, <2>2
<1>2. ASSUME NEW c \in Visit, Account!Remove(c) PROVE AccountInv'
  <2>1. /\ v1' = [here |-> "deleted", flags |-> {}] /\ v4' = FALSE /\ v5' = v5
        /\ Account!Overtaken(c) /\ v5 \in BOOLEAN
    BY <1>2 DEF Account!Remove, AccountInv, AccountTypes
  <2> QED BY <2>1, AccountOvertaken DEF RowHolds, Torn
<1>3. ASSUME NEW c \in Visit, Account!Abandon(c) PROVE AccountInv'
  <2>1. v3' = [v3 EXCEPT ![c] = Account!NoVisit] /\ UNCHANGED <<v1, v4, v5>>
    BY <1>3 DEF Account!Abandon, Account!End
  <2> QED BY <2>1, NoVisitTyped, AccountVisits DEF Carries, Known
<1> QED
  BY <1>1, <1>2, <1>3, AccountRegistration, AccountChange, AccountSelect, AccountWrite DEF Account!Next

\* What a registration adds, and nothing else.
LEMMA AccountOwned == v2 \subseteq Account!Belonging /\ Account!Next => v2' \subseteq Account!Belonging
<1> SUFFICES ASSUME v2 \subseteq Account!Belonging, Account!Next PROVE v2' \subseteq Account!Belonging
  OBVIOUS
<1>1. ASSUME NEW c \in Visit, NEW b \in Account!Belonging, Account!AddBelonging(c, b)
      PROVE  v2' \subseteq Account!Belonging
  BY <1>1 DEF Account!AddBelonging
<1>2. ASSUME NEW c \in Visit, Account!Change(c) PROVE v2' = v2
  BY <1>2, Zenon DEF Account!Change, Account!Update, Account!UpdateProfile, Account!UploadProfilePicture,
     Account!ResetPassword, Account!ChangePassword, Account!VerifyEmail, Account!VerifyIdentity,
     Account!VerifyResetCode, Account!ActivateUser, Account!DeactivateUser, Account!SuspendUser, Account!Load
<1>3. ASSUME NEW c \in Visit,
             \/ Account!Register(c) \/ Account!CreateRow(c) \/ Account!Select(c)
             \/ Account!Write(c) \/ Account!Insert(c) \/ Account!Abandon(c)
      PROVE  v2' = v2
  BY <1>3, Zenon DEF Account!Register, Account!CreateRow, Account!Select, Account!Write, Account!Insert,
     Account!Abandon
<1>4. ASSUME NEW c \in Visit, Account!Remove(c) PROVE v2' = {}
  BY <1>4 DEF Account!Remove
<1> QED BY <1>1, <1>2, <1>3, <1>4 DEF Account!Next

LEMMA AccountAlways == Spec => [](focus = "accounts" => AccountInv /\ v2 \subseteq Account!Belonging)
<1> DEFINE Inv == focus = "accounts" => AccountInv /\ v2 \subseteq Account!Belonging
<1>1. Init => Inv
  BY AccountInit DEF Init, Account!Init
<1>2. Inv /\ [Next]_vars => Inv'
  <2> SUFFICES ASSUME Inv, [Next]_vars, focus' = "accounts" PROVE AccountInv' /\ (v2 \subseteq Account!Belonging)'
    OBVIOUS
  <2>1. focus = "accounts" /\ AccountInv /\ v2 \subseteq Account!Belonging
    BY FocusStays
  <2>2. CASE Account!Next
    BY <2>1, <2>2, AccountSteps, AccountOwned
  <2>3. CASE UNCHANGED <<v1, v2, v3, v4, v5>>
    BY <2>1, <2>3 DEF AccountInv, AccountTypes, RowHolds, Carries, Known, Left
  <2> QED BY <2>1, <2>2, <2>3 DEF Next, vars
<1> QED BY <1>1, <1>2, PTL DEF Spec

\* The theorem: a suspended user stays out until an activation or a stale save, and
\* nobody is suspended and active (users.service.ts, auth.service.ts), for any number
\* of calls.
THEOREM SuspensionLasts == Spec => []SuspensionHolds
<1>1. (focus = "accounts" => AccountInv) => SuspensionHolds
  BY DEF AccountInv, RowHolds, Shut, Torn, SuspensionHolds, Account!SuspensionHolds, Account!Admitted,
         Account!Login, Account!Refresh, Account!Validate
<1> QED BY <1>1, AccountAlways, PTL
-----------------------------------------------------------------------------
(***************************************************************************)
(* Reviews: a creation that is past its look is alone, as long as the      *)
(* subject is not doubled: no review of the subject has appeared since,    *)
(* and no other creation is past its look.  A review that a call has       *)
(* loaded keeps its table and its subject whatever becomes of it, so that  *)
(* the row an update brings back is of the subject that it doubles.        *)
(***************************************************************************)
ReviewRow == [state : {"unused", "live", "deleted"}, table : Reviewing!Table,
              subject : Subject \cup {"none"}]
ReviewCall == [at : Reviewing!Label, table : Reviewing!Table,
               subject : Subject \cup {"none"}, id : Review \cup {"none"}]

Live(i, t, x) == v1[i].state = "live" /\ v1[i].table = t /\ v1[i].subject = x
Past(q, t, x) == v3[q].at = "insert" /\ v3[q].table = t /\ v3[q].subject = x

ReviewTypes ==
  /\ v1 \in [Review -> ReviewRow]
  /\ v2 \in [Subject -> {"open", "completed", "deleted"}]
  /\ v3 \in [Request -> ReviewCall]
  /\ v4 \subseteq Reviewing!Table \X Subject

RowsHaveSubjects ==
  \A i \in Review : v1[i].state = "live" =>
    v1[i].subject \in Subject /\ v1[i].table # "reviews" /\ v2[v1[i].subject] # "deleted"

CallsKnowTheirReview ==
  \A q \in Request :
    /\ v3[q].at # "idle" => v3[q].subject \in Subject
    /\ v3[q].at \in {"select", "update", "restore", "delete"} =>
         /\ v3[q].id \in Review /\ v1[v3[q].id].state # "unused"
         /\ v1[v3[q].id].table = v3[q].table /\ v1[v3[q].id].subject = v3[q].subject
         /\ v3[q].table # "reviews"

DoubledOnlyKnown ==
  \A t \in Reviewing!Table, x \in Subject : <<t, x>> \notin v4 =>
    /\ \A i, j \in Review : Live(i, t, x) /\ Live(j, t, x) => i = j
    /\ \A i \in Review, q \in Request : ~(Live(i, t, x) /\ Past(q, t, x))
    /\ \A p, q \in Request : Past(p, t, x) /\ Past(q, t, x) => p = q

ReviewInv ==
  /\ ReviewTypes
  /\ RowsHaveSubjects
  /\ CallsKnowTheirReview
  /\ DoubledOnlyKnown

LEMMA ReviewInit == Reviewing!Init => ReviewInv
<1> SUFFICES ASSUME Reviewing!Init PROVE ReviewInv
  OBVIOUS
<1>1. ReviewTypes
  BY DEF Reviewing!Init, ReviewTypes, ReviewRow, ReviewCall, Reviewing!NoReview, Reviewing!NoRequest,
         Reviewing!Table, Reviewing!Label
<1> QED
  BY <1>1 DEF ReviewInv, Reviewing!Init, RowsHaveSubjects, CallsKnowTheirReview, DoubledOnlyKnown,
              Live, Past, Reviewing!NoReview, Reviewing!NoRequest

\* A call goes on; nothing else changes but, perhaps, what is doubled.
LEMMA ReviewCalls ==
  ASSUME ReviewInv, NEW c \in Request, NEW new \in ReviewCall, v3' = [v3 EXCEPT ![c] = new],
         v1' = v1, v2' = v2, v4 \subseteq v4', v4' \subseteq Reviewing!Table \X Subject,
         new.at # "idle" => new.subject \in Subject,
         new.at \in {"select", "update", "restore", "delete"} =>
           /\ new.id \in Review /\ v1[new.id].state # "unused"
           /\ v1[new.id].table = new.table /\ v1[new.id].subject = new.subject
           /\ new.table # "reviews",
         new.at = "insert" /\ <<new.table, new.subject>> \notin v4' =>
           /\ \A i \in Review : ~Live(i, new.table, new.subject)
           /\ \A q \in Request \ {c} : ~Past(q, new.table, new.subject)
  PROVE  ReviewInv'
<1>1. ReviewTypes'
  BY DEF ReviewInv, ReviewTypes
<1>2. RowsHaveSubjects'
  BY DEF ReviewInv, RowsHaveSubjects
<1>3. CallsKnowTheirReview'
  BY DEF ReviewInv, CallsKnowTheirReview, ReviewTypes
<1>4. ASSUME NEW t \in Reviewing!Table, NEW x \in Subject, <<t, x>> \notin v4'
      PROVE  /\ \A i, j \in Review : (Live(i, t, x) /\ Live(j, t, x))' => i = j
             /\ \A i \in Review, q \in Request : ~(Live(i, t, x) /\ Past(q, t, x))'
             /\ \A p, q \in Request : (Past(p, t, x) /\ Past(q, t, x))' => p = q
  <2>1. \A i \in Review : Live(i, t, x)' <=> Live(i, t, x)
    BY DEF Live
  <2>2. \A q \in Request \ {c} : Past(q, t, x)' <=> Past(q, t, x)
    BY DEF Past, ReviewInv, ReviewTypes
  <2>3. Past(c, t, x)' => new.at = "insert" /\ new.table = t /\ new.subject = x
    BY DEF Past, ReviewInv, ReviewTypes
  <2> QED BY <1>4, <2>1, <2>2, <2>3 DEF ReviewInv, DoubledOnlyKnown
<1> QED BY <1>1, <1>2, <1>3, <1>4 DEF ReviewInv, DoubledOnlyKnown

\* Rows stop being live; calls end.
LEMMA ReviewsRemoved ==
  ASSUME ReviewInv, v1' \in [Review -> ReviewRow], v2' \in [Subject -> {"open", "completed", "deleted"}],
         v3' \in [Request -> ReviewCall], v4' = v4,
         \A i \in Review : /\ v1'[i].table = v1[i].table /\ v1'[i].subject = v1[i].subject
                           /\ v1'[i].state = "live" => v1[i].state = "live"
                           /\ v1[i].state # "unused" => v1'[i].state # "unused",
         \A i \in Review : v1'[i].state = "live" =>
           (v2'[v1[i].subject] = "deleted" => v2[v1[i].subject] = "deleted"),
         \A q \in Request : v3'[q] = v3[q] \/ v3'[q].at = "idle"
  PROVE  ReviewInv'
<1>1. ReviewTypes'
  BY DEF ReviewInv, ReviewTypes
<1>2. RowsHaveSubjects'
  BY DEF ReviewInv, RowsHaveSubjects
<1>3. CallsKnowTheirReview'
  BY DEF ReviewInv, CallsKnowTheirReview
<1>4. ASSUME NEW t \in Reviewing!Table, NEW x \in Subject
      PROVE  /\ \A i \in Review : Live(i, t, x)' => Live(i, t, x)
             /\ \A q \in Request : Past(q, t, x)' => Past(q, t, x)
  BY DEF Live, Past
<1>5. DoubledOnlyKnown'
  BY <1>4 DEF ReviewInv, DoubledOnlyKnown
<1> QED BY <1>1, <1>2, <1>3, <1>5 DEF ReviewInv
LEMMA NoRequestTyped == Reviewing!NoRequest \in ReviewCall /\ Reviewing!NoRequest.at = "idle"
BY DEF Reviewing!NoRequest, ReviewCall, Reviewing!Table, Reviewing!Label

\* A creation looks for an earlier review.
LEMMA ReviewCheck ==
  ASSUME ReviewInv, NEW c \in Request, Reviewing!Check(c)
  PROVE  ReviewInv'
<1> DEFINE t == v3[c].table
           x == v3[c].subject
<1>1. /\ v3[c] \in ReviewCall /\ v3[c].at = "check" /\ t \in Reviewing!Table /\ x \in Subject
      /\ v1' = v1 /\ v2' = v2
  BY DEF Reviewing!Check, ReviewInv, ReviewTypes, CallsKnowTheirReview, ReviewCall
<1>2. v4' = IF Reviewing!Found(c) = {} /\ Reviewing!Past(c) # {} THEN v4 \cup {<<t, x>>} ELSE v4
  BY DEF Reviewing!Check
<1>3. v4 \subseteq v4' /\ v4' \subseteq Reviewing!Table \X Subject
  BY <1>1, <1>2 DEF ReviewInv, ReviewTypes
<1>4. CASE Reviewing!Found(c) = {}
  <2> DEFINE new == [v3[c] EXCEPT !.at = "insert"]
  <2>1. v3' = [v3 EXCEPT ![c] = new]
    BY <1>4 DEF Reviewing!Check, Reviewing!Goto
  <2>2. new \in ReviewCall /\ new.at = "insert" /\ new.table = t /\ new.subject = x
    BY <1>1 DEF ReviewCall, Reviewing!Label
  <2>3. \A i \in Review : ~Live(i, t, x)
    BY <1>4 DEF Reviewing!Found, Reviewing!Existing, Live
  <2>4. <<t, x>> \notin v4' => \A q \in Request \ {c} : ~Past(q, t, x)
    BY <1>2, <1>4 DEF Reviewing!Past, Past
  <2> HIDE DEF new, t, x
  <2> QED BY <1>1, <1>3, <2>1, <2>2, <2>3, <2>4, ReviewCalls
<1>5. CASE Reviewing!Found(c) # {}
  <2>1. v3' = [v3 EXCEPT ![c] = Reviewing!NoRequest]
    BY <1>5 DEF Reviewing!Check, Reviewing!End
  <2> HIDE DEF t, x
  <2> QED BY <1>1, <1>3, <2>1, NoRequestTyped, ReviewCalls
<1> QED BY <1>4, <1>5

LEMMA ReviewInsert ==
  ASSUME ReviewInv, NEW c \in Request, Reviewing!Insert(c)
  PROVE  ReviewInv'
<1> DEFINE t == v3[c].table
           x == v3[c].subject
<1>1. /\ v3[c].at = "insert" /\ t \in Reviewing!Table /\ x \in Subject /\ Past(c, t, x)
      /\ v2' = v2 /\ v4' = v4 /\ v3' = [v3 EXCEPT ![c] = Reviewing!NoRequest]
  BY DEF Reviewing!Insert, Reviewing!End, ReviewInv, ReviewTypes, CallsKnowTheirReview, ReviewCall, Past
<1>2. /\ v3' \in [Request -> ReviewCall] /\ v3'[c].at = "idle"
      /\ \A q \in Request : v3'[q] = v3[q] \/ v3'[q].at = "idle"
  BY <1>1, NoRequestTyped DEF ReviewInv, ReviewTypes
<1>3. CASE v1' = v1
  BY <1>1, <1>2, <1>3, ReviewsRemoved DEF ReviewInv, ReviewTypes
<1>4. CASE v1' # v1
  <2>1. t # "reviews" /\ v2[x] # "deleted"
    BY <1>4 DEF Reviewing!Insert
  <2> DEFINE row == [state |-> "live", table |-> t, subject |-> x]
  <2>2. PICK i \in Review : v1[i].state = "unused" /\ v1' = [v1 EXCEPT ![i] = row]
    BY <1>4 DEF Reviewing!Insert
  <2>3. row \in ReviewRow /\ row.state = "live" /\ row.table = t /\ row.subject = x
    BY <1>1 DEF ReviewRow
  <2> HIDE DEF row, t, x
  <2>4. ReviewTypes'
    BY <1>1, <1>2, <2>2, <2>3 DEF ReviewInv, ReviewTypes
  <2>5. RowsHaveSubjects'
    BY <1>1, <2>1, <2>2, <2>3 DEF ReviewInv, ReviewTypes, RowsHaveSubjects
  <2>6. CallsKnowTheirReview'
    BY <1>1, <1>2, <2>2, <2>3 DEF ReviewInv, ReviewTypes, CallsKnowTheirReview
  <2>7. ASSUME NEW s \in Reviewing!Table, NEW y \in Subject, <<s, y>> \notin v4'
        PROVE  /\ \A j, k \in Review : (Live(j, s, y) /\ Live(k, s, y))' => j = k
               /\ \A j \in Review, q \in Request : ~(Live(j, s, y) /\ Past(q, s, y))'
               /\ \A p, q \in Request : (Past(p, s, y) /\ Past(q, s, y))' => p = q
    <3>1. \A q \in Request : Past(q, s, y)' => Past(q, s, y) /\ q # c
      BY <1>2 DEF Past
    <3>2. \A j \in Review \ {i} : Live(j, s, y)' <=> Live(j, s, y)
      BY <2>2 DEF Live, ReviewInv, ReviewTypes
    <3>3. Live(i, s, y)' => s = t /\ y = x
      BY <2>2, <2>3 DEF Live, ReviewInv, ReviewTypes
    <3>4. <<s, y>> \notin v4
      BY <1>1, <2>7
    <3>5. /\ \A j, k \in Review : Live(j, s, y) /\ Live(k, s, y) => j = k
          /\ \A j \in Review, q \in Request : ~(Live(j, s, y) /\ Past(q, s, y))
          /\ \A p, q \in Request : Past(p, s, y) /\ Past(q, s, y) => p = q
      BY <3>4 DEF ReviewInv, DoubledOnlyKnown
    <3> QED BY <1>1, <3>1, <3>2, <3>3, <3>5
  <2>8. DoubledOnlyKnown'
    BY <2>7 DEF DoubledOnlyKnown
  <2> QED BY <2>4, <2>5, <2>6, <2>8 DEF ReviewInv
<1> QED BY <1>3, <1>4

\* save brings a deleted review back, and what it doubles is known.
LEMMA ReviewRestore ==
  ASSUME ReviewInv, NEW c \in Request, Reviewing!Restore(c)
  PROVE  ReviewInv'
<1> DEFINE i == v3[c].id
           t == v3[c].table
           x == v3[c].subject
           inserted == v1[i].state = "deleted" /\ v2[x] # "deleted"
<1>1. /\ v3[c].at = "restore" /\ i \in Review /\ t \in Reviewing!Table /\ x \in Subject
      /\ v1[i].table = t /\ v1[i].subject = x /\ t # "reviews" /\ v1[i] \in ReviewRow
      /\ v2' = v2 /\ v3' = [v3 EXCEPT ![c] = Reviewing!NoRequest]
  BY DEF Reviewing!Restore, Reviewing!End, ReviewInv, ReviewTypes, CallsKnowTheirReview, ReviewCall
<1>2. /\ v3' \in [Request -> ReviewCall] /\ v3'[c].at = "idle"
      /\ \A q \in Request : v3'[q] = v3[q] \/ v3'[q].at = "idle"
  BY <1>1, NoRequestTyped DEF ReviewInv, ReviewTypes
<1>3. CASE ~inserted
  <2>1. v1' = v1 /\ v4' = v4
    BY <1>3 DEF Reviewing!Restore
  <2> QED BY <1>1, <1>2, <2>1, ReviewsRemoved DEF ReviewInv, ReviewTypes
<1>4. CASE inserted
  <2> DEFINE row == [v1[i] EXCEPT !.state = "live"]
  <2>1. v1' = [v1 EXCEPT ![i] = row] /\ v4' = v4 \cup {<<t, x>>}
    BY <1>4 DEF Reviewing!Restore
  <2>2. row \in ReviewRow /\ row.state = "live" /\ row.table = t /\ row.subject = x
    BY <1>1 DEF ReviewRow
  <2> HIDE DEF row
  <2>3. ReviewTypes'
    BY <1>1, <1>2, <2>1, <2>2 DEF ReviewInv, ReviewTypes
  <2>4. RowsHaveSubjects'
    BY <1>1, <1>4, <2>1, <2>2 DEF ReviewInv, ReviewTypes, RowsHaveSubjects
  <2> HIDE DEF i, t, x
  <2>5. CallsKnowTheirReview'
    BY <1>1, <1>2, <2>1, <2>2 DEF ReviewInv, ReviewTypes, CallsKnowTheirReview
  <2>6. ASSUME NEW s \in Reviewing!Table, NEW y \in Subject, <<s, y>> \notin v4'
        PROVE  /\ \A j, k \in Review : (Live(j, s, y) /\ Live(k, s, y))' => j = k
               /\ \A j \in Review, q \in Request : ~(Live(j, s, y) /\ Past(q, s, y))'
               /\ \A p, q \in Request : (Past(p, s, y) /\ Past(q, s, y))' => p = q
    <3>1. \A q \in Request : Past(q, s, y)' => Past(q, s, y)
      BY <1>2 DEF Past
    <3>2. \A j \in Review : Live(j, s, y)' => Live(j, s, y)
      BY <1>1, <2>1, <2>2, <2>6 DEF Live, ReviewInv, ReviewTypes
    <3>3. <<s, y>> \notin v4
      BY <2>1, <2>6
    <3> QED BY <3>1, <3>2, <3>3 DEF ReviewInv, DoubledOnlyKnown
  <2>7. DoubledOnlyKnown'
    BY <2>6 DEF DoubledOnlyKnown
  <2> QED BY <2>3, <2>4, <2>5, <2>7 DEF ReviewInv
<1> QED BY <1>3, <1>4

LEMMA ReviewSteps ==
  ASSUME ReviewInv, Reviewing!Next
  PROVE  ReviewInv'
<1>1. ASSUME NEW c \in Request, Reviewing!Select(c) PROVE ReviewInv'
  <2> DEFINE label == IF v1[v3[c].id].state = "live" THEN "update" ELSE "restore"
             new == [v3[c] EXCEPT !.at = label]
  <2>1. /\ v3' = [v3 EXCEPT ![c] = new] /\ UNCHANGED <<v1, v2, v4>> /\ v3[c] \in ReviewCall
        /\ v3[c].at = "select"
    BY <1>1 DEF Reviewing!Select, Reviewing!Goto, ReviewInv, ReviewTypes
  <2>2. label \in {"update", "restore"}
    OBVIOUS
  <2> HIDE DEF label
  <2>3. /\ new \in ReviewCall /\ new.at = label /\ new.id = v3[c].id
        /\ new.table = v3[c].table /\ new.subject = v3[c].subject
    BY <2>1, <2>2 DEF ReviewCall, Reviewing!Label
  <2> HIDE DEF new
  <2>4. v4' \subseteq Reviewing!Table \X Subject
    BY <2>1 DEF ReviewInv, ReviewTypes
  <2> QED BY <2>1, <2>2, <2>3, <2>4, ReviewCalls DEF ReviewInv, CallsKnowTheirReview
<1>2. ASSUME NEW c \in Request, Reviewing!Write(c) PROVE ReviewInv'
  <2>1. v3' = [v3 EXCEPT ![c] = Reviewing!NoRequest] /\ UNCHANGED <<v1, v2, v4>>
    BY <1>2 DEF Reviewing!Write, Reviewing!End
  <2> QED BY <2>1, NoRequestTyped, ReviewCalls DEF ReviewInv, ReviewTypes
<1>3. ASSUME NEW c \in Request, NEW i \in Review, NEW label \in {"select", "delete"},
             Reviewing!Load(c, i, label)
      PROVE  ReviewInv'
  <2> DEFINE new == [at |-> label, table |-> v1[i].table, subject |-> v1[i].subject, id |-> i]
  <2>1. v3' = [v3 EXCEPT ![c] = new] /\ UNCHANGED <<v1, v2, v4>> /\ v1[i].state = "live"
    BY <1>3 DEF Reviewing!Load
  <2>2. /\ v1[i] \in ReviewRow /\ v1[i].subject \in Subject /\ v1[i].table # "reviews"
        /\ v4 \subseteq Reviewing!Table \X Subject
    BY <2>1 DEF ReviewInv, ReviewTypes, RowsHaveSubjects
  <2>3. /\ new \in ReviewCall /\ new.at = label /\ new.id = i
        /\ new.table = v1[i].table /\ new.subject = v1[i].subject
    BY <2>2 DEF ReviewRow, ReviewCall, Reviewing!Label
  <2> HIDE DEF new
  <2> QED BY <2>1, <2>2, <2>3, ReviewCalls
<1>4. ASSUME NEW c \in Request, NEW table \in Reviewing!Table, NEW x \in Subject,
             Reviewing!Create(c, table, x)
      PROVE  ReviewInv'
  <2> DEFINE new == [at |-> "check", table |-> table, subject |-> x, id |-> "none"]
  <2>1. v3' = [v3 EXCEPT ![c] = new] /\ UNCHANGED <<v1, v2, v4>>
    BY <1>4 DEF Reviewing!Create
  <2>2. new \in ReviewCall /\ new.at = "check" /\ new.subject = x
    BY DEF ReviewCall, Reviewing!Label
  <2> HIDE DEF new
  <2> QED BY <2>1, <2>2, ReviewCalls DEF ReviewInv, ReviewTypes
<1>5. ASSUME NEW c \in Request, Reviewing!RemoveRow(c) PROVE ReviewInv'
  <2>1. /\ v3' = [v3 EXCEPT ![c] = Reviewing!NoRequest] /\ UNCHANGED <<v2, v4>>
        /\ v1' = [v1 EXCEPT ![v3[c].id].state = "deleted"] /\ v3[c].id \in Review
    BY <1>5 DEF Reviewing!RemoveRow, Reviewing!End, ReviewInv, CallsKnowTheirReview
  <2>2. /\ v1' \in [Review -> ReviewRow] /\ v3' \in [Request -> ReviewCall]
        /\ \A i \in Review : /\ v1'[i].table = v1[i].table /\ v1'[i].subject = v1[i].subject
                             /\ v1'[i].state = "live" => v1[i].state = "live"
                             /\ v1[i].state # "unused" => v1'[i].state # "unused"
        /\ \A q \in Request : v3'[q] = v3[q] \/ v3'[q].at = "idle"
    BY <2>1, NoRequestTyped DEF ReviewInv, ReviewTypes, ReviewRow
  <2> QED BY <2>1, <2>2, ReviewsRemoved DEF ReviewInv, ReviewTypes
<1>6. ASSUME NEW r \in Review, Reviewing!Delete(r) PROVE ReviewInv'
  <2>1. v1' = [v1 EXCEPT ![r].state = "deleted"] /\ UNCHANGED <<v2, v3, v4>>
    BY <1>6 DEF Reviewing!Delete
  <2>2. /\ v1' \in [Review -> ReviewRow]
        /\ \A i \in Review : /\ v1'[i].table = v1[i].table /\ v1'[i].subject = v1[i].subject
                             /\ v1'[i].state = "live" => v1[i].state = "live"
                             /\ v1[i].state # "unused" => v1'[i].state # "unused"
    BY <2>1 DEF ReviewInv, ReviewTypes, ReviewRow
  <2> QED BY <2>1, <2>2, ReviewsRemoved DEF ReviewInv, ReviewTypes
<1>7. ASSUME NEW x \in Subject, Reviewing!Complete(x) PROVE ReviewInv'
  <2>1. v2' = [v2 EXCEPT ![x] = "completed"] /\ UNCHANGED <<v1, v3, v4>>
    BY <1>7 DEF Reviewing!Complete
  <2>2. /\ v2' \in [Subject -> {"open", "completed", "deleted"}]
        /\ \A y \in Subject : v2'[y] = "deleted" => v2[y] = "deleted"
    BY <2>1 DEF ReviewInv, ReviewTypes
  <2>3. \A i \in Review : v1'[i].state = "live" => v1[i].subject \in Subject
    BY <2>1 DEF ReviewInv, RowsHaveSubjects
  <2> QED BY <2>1, <2>2, <2>3, ReviewsRemoved DEF ReviewInv, ReviewTypes
<1>8. ASSUME NEW x \in Subject, Reviewing!DeleteSubject(x) PROVE ReviewInv'
  <2>1. /\ v2' = [v2 EXCEPT ![x] = "deleted"] /\ UNCHANGED <<v3, v4>>
        /\ v1' = [i \in Review |-> IF v1[i].subject = x /\ v1[i].state = "live"
                                   THEN [v1[i] EXCEPT !.state = "deleted"] ELSE v1[i]]
    BY <1>8 DEF Reviewing!DeleteSubject
  <2>2. /\ v1' \in [Review -> ReviewRow] /\ v2' \in [Subject -> {"open", "completed", "deleted"}]
        /\ \A i \in Review : /\ v1'[i].table = v1[i].table /\ v1'[i].subject = v1[i].subject
                             /\ v1'[i].state = "live" => v1[i].state = "live" /\ v1[i].subject # x
                             /\ v1[i].state # "unused" => v1'[i].state # "unused"
    BY <2>1 DEF ReviewInv, ReviewTypes, ReviewRow
  <2>3. \A i \in Review : v1'[i].state = "live" =>
          (v2'[v1[i].subject] = "deleted" => v2[v1[i].subject] = "deleted")
    BY <2>1, <2>2 DEF ReviewInv, ReviewTypes, RowsHaveSubjects
  <2> QED BY <2>1, <2>2, <2>3, ReviewsRemoved DEF ReviewInv, ReviewTypes
<1> QED
  BY <1>1, <1>2, <1>3, <1>4, <1>5, <1>6, <1>7, <1>8, ReviewCheck, ReviewInsert, ReviewRestore
  DEF Reviewing!Next, Reviewing!Update, Reviewing!Remove

\* A set with no two elements has at most one.
LEMMA AtMostOne ==
  ASSUME NEW S, \A i, j \in S : i = j
  PROVE  ~(Reviewing!Cardinality(S) > 1)
<1> SUFFICES ~(Cardinality(S) > 1)
  BY DEF Reviewing!Cardinality, Cardinality
<1>1. CASE S = {}
  BY <1>1, FS_EmptySet
<1>2. CASE S # {}
  <2>1. PICK i : S = {i}
    BY <1>2
  <2> QED BY <2>1, FS_Singleton
<1> QED BY <1>1, <1>2

LEMMA ReviewsAlways == Spec => [](focus = "reviews" => ReviewInv)
<1> DEFINE Inv == focus = "reviews" => ReviewInv
<1>1. Init => Inv
  BY ReviewInit DEF Init
<1>2. Inv /\ [Next]_vars => Inv'
  <2> SUFFICES ASSUME Inv, [Next]_vars, focus' = "reviews" PROVE ReviewInv'
    OBVIOUS
  <2>1. focus = "reviews" /\ ReviewInv
    BY FocusStays
  <2>2. CASE Reviewing!Next
    BY <2>1, <2>2, ReviewSteps
  <2>3. CASE UNCHANGED <<v1, v2, v3, v4>>
    BY <2>1, <2>3 DEF ReviewInv, ReviewTypes, RowsHaveSubjects, CallsKnowTheirReview,
                      DoubledOnlyKnown, Live, Past
  <2> QED BY <2>1, <2>2, <2>3 DEF Next, vars
<1> QED BY <1>1, <1>2, PTL DEF Spec

\* The theorem: one review of a booking's tool, one of the application by a user, but
\* for the races that are named (reviews.service.ts), for any number of calls and rows.
THEOREM SingleReview == Spec => []OneReview
<1>1. (focus = "reviews" => ReviewInv) => OneReview
  <2> SUFFICES ASSUME ReviewInv PROVE Reviewing!OneReview
    BY DEF OneReview
  <2> SUFFICES ASSUME NEW t \in Reviewing!Table, NEW x \in Subject
               PROVE  /\ Reviewing!Cardinality(Reviewing!Existing(t, x)) > 1 => <<t, x>> \in v4
                      /\ Reviewing!Existing(t, x) # {} => t # "reviews" /\ v2[x] # "deleted"
    BY Zenon DEF Reviewing!OneReview
  <2>1. <<t, x>> \notin v4 => \A i, j \in Reviewing!Existing(t, x) : i = j
    BY DEF ReviewInv, DoubledOnlyKnown, Reviewing!Existing, Live
  <2>2. Reviewing!Existing(t, x) # {} => t # "reviews" /\ v2[x] # "deleted"
    BY DEF ReviewInv, RowsHaveSubjects, Reviewing!Existing
  <2> QED BY <2>1, <2>2, AtMostOne
<1> QED BY <1>1, ReviewsAlways, PTL
-----------------------------------------------------------------------------
(***************************************************************************)
(* Photos: unless calls have crossed, a call that is about to set a flag   *)
(* knows which photos have one: none, or only the photo it is about, for   *)
(* it has cleared the flags, or is removing the only photo that had one.   *)
(* What a call has deleted from the store is on its list until the rows    *)
(* are gone as well, and a row that comes back without its file does so    *)
(* in a stale save.                                                        *)
(***************************************************************************)
JobState == [at : Photographing!Label, op : Photographing!Op, photos : SUBSET Photo,
             main : BOOLEAN, gone : SUBSET Photo]

Single(S) == \A p, q \in S : p = q

\* The call is going to set the flag of a photo it knows, or of one that will be there.
Settles(r) == r.at \in {"select", "write", "restore"} \/ (r.at \in {"unstore", "remove"} /\ r.main)
Clears(r) == r.at = "first" \/ (r.at = "attach" /\ r.main)

JobHolds(r) ==
  /\ r.photos \cap Photographing!Unused = {}
  /\ r.gone \subseteq r.photos /\ r.gone \subseteq v4
  /\ r.at \notin {"remove", "first", "drop"} => r.gone = {}
  /\ r.at = "first" => r.gone \cap Photographing!Live \subseteq v7
  /\ Settles(r) \/ r.at = "demote" => Single(r.photos)
  /\ ~v6 /\ Settles(r) => v3 \subseteq r.photos
  /\ ~v6 /\ Clears(r) => v3 = {}

PhotoTypes ==
  /\ v1 \in Photographing!State /\ v2 \in [Photo -> Photographing!State]
  /\ v5 \in [Editor -> JobState] /\ v6 \in BOOLEAN /\ v4 \subseteq Photo /\ v7 \subseteq Photo

PhotosHold ==
  /\ v3 \subseteq Photographing!Live
  /\ v4 \cap Photographing!Unused = {}
  /\ v1 = "unused" => Photographing!Live = {}
  /\ ~v6 => Single(v3)

GalleryInv ==
  /\ PhotoTypes
  /\ PhotosHold
  /\ \A e \in Editor : JobHolds(v5[e])
  /\ Photographing!ShownIsStored

LEMMA NoJobTyped ==
  /\ Photographing!NoJob \in JobState /\ Photographing!NoJob.at = "idle"
  /\ Photographing!NoJob.photos = {} /\ Photographing!NoJob.gone = {}
BY DEF Photographing!NoJob, JobState, Photographing!Label, Photographing!Op

LEMMA NoJobHolds == JobHolds(Photographing!NoJob)
BY NoJobTyped DEF JobHolds, Settles, Clears, Single

LEMMA GalleryInit == Photographing!Init => GalleryInv
<1> SUFFICES ASSUME Photographing!Init PROVE GalleryInv
  OBVIOUS
<1>1. PhotoTypes
  BY NoJobTyped DEF Photographing!Init, PhotoTypes, Photographing!State
<1>2. PhotosHold
  BY DEF Photographing!Init, PhotosHold, Photographing!Live, Single
<1>3. \A e \in Editor : JobHolds(v5[e])
  BY NoJobHolds DEF Photographing!Init
<1>4. Photographing!ShownIsStored
  BY DEF Photographing!Init, Photographing!ShownIsStored, Photographing!Missing
<1> QED BY <1>1, <1>2, <1>3, <1>4 DEF GalleryInv

LEMMA MakingIs ==
  ASSUME NEW e
  PROVE  Photographing!Making(e) <=> Settles(v5[e]) \/ Clears(v5[e])
BY DEF Photographing!Making, Settles, Clears

(***************************************************************************)
(* A call goes on, and writes: what it has to see to for the invariant.    *)
(***************************************************************************)
LEMMA GalleryStep ==
  ASSUME GalleryInv, NEW e \in Editor, NEW new \in JobState, v5' = [v5 EXCEPT ![e] = new],
         v1' \in Photographing!State, v2' \in [Photo -> Photographing!State], v6' \in BOOLEAN,
         v4' \subseteq Photo, v7' \subseteq Photo,
         \A p \in Photo : v2[p] # "unused" => v2'[p] # "unused",
         v4 \subseteq v4', v7 \subseteq v7', v6 => v6',
         \A p \in Photo : v2'[p] = "live" /\ v2[p] # "live" =>
           v2[p] = "unused" \/ (p \in v4 => p \in v7'),
         ~v6' => v3' \subseteq v3 \/ \A f \in Editor \ {e} : ~Photographing!Making(f),
         PhotosHold', JobHolds(new)',
         \A p \in Photo : v2'[p] = "live" /\ p \in v4' /\ (v2[p] # "live" \/ p \notin v4 \/ p \in v5[e].gone)
           => p \in v7' \/ p \in new.gone
  PROVE  GalleryInv'
<1>1. PhotoTypes'
  BY DEF GalleryInv, PhotoTypes
<1>2. ASSUME NEW f \in Editor PROVE JobHolds(v5[f])'
  <2>1. CASE f = e
    BY <2>1 DEF GalleryInv, PhotoTypes
  <2>2. CASE f # e
    <3> DEFINE r == v5[f]
    <3>1. v5'[f] = r /\ r \in JobState /\ JobHolds(r)
      BY <2>2 DEF GalleryInv, PhotoTypes
    <3>2. r.photos \subseteq Photo
      BY <3>1 DEF JobState
    <3>3. Settles(v5[f])' = Settles(r) /\ Clears(v5[f])' = Clears(r)
      BY <3>1 DEF Settles, Clears
    <3>4. ~v6' /\ v3 = v3 /\ (Settles(r) \/ Clears(r)) => v3' \subseteq v3
      BY <2>2, MakingIs
    <3>5. r.photos \cap Photographing!Unused' = {} /\ r.gone \subseteq v4'
      BY <3>1, <3>2 DEF JobHolds, Photographing!Unused
    <3>6. r.at = "first" => r.gone \cap Photographing!Live' \subseteq v7'
      BY <3>1, <3>2 DEF JobHolds, Photographing!Live, Photographing!Unused
    <3>7. /\ r.gone \subseteq r.photos
          /\ r.at \notin {"remove", "first", "drop"} => r.gone = {}
          /\ Settles(r) \/ r.at = "demote" => Single(r.photos)
          /\ ~v6 /\ Settles(r) => v3 \subseteq r.photos
          /\ ~v6 /\ Clears(r) => v3 = {}
      BY <3>1 DEF JobHolds
    <3>8. ~v6' => ~v6
      OBVIOUS
    <3> HIDE DEF r
    <3> QED BY <3>1, <3>3, <3>4, <3>5, <3>6, <3>7, <3>8 DEF JobHolds
  <2> QED BY <2>1, <2>2
<1>3. Photographing!ShownIsStored'
  <2> SUFFICES ASSUME NEW p \in Photo, v2'[p] = "live", p \in v4'
               PROVE  p \in v7' \/ \E f \in Editor : p \in v5'[f].gone
    BY DEF Photographing!ShownIsStored, Photographing!Missing, Photographing!Live
  <2>1. v5'[e].gone = new.gone /\ \A f \in Editor \ {e} : v5'[f].gone = v5[f].gone
    BY DEF GalleryInv, PhotoTypes
  <2>2. CASE v2[p] # "live" \/ p \notin v4 \/ p \in v5[e].gone
    BY <2>1, <2>2
  <2>3. CASE v2[p] = "live" /\ p \in v4 /\ p \notin v5[e].gone
    <3>1. p \in v7 \/ \E f \in Editor : p \in v5[f].gone
      BY <2>3 DEF GalleryInv, Photographing!ShownIsStored, Photographing!Missing, Photographing!Live
    <3> QED BY <2>1, <2>3, <3>1
  <2> QED BY <2>2, <2>3
<1> QED BY <1>1, <1>2, <1>3 DEF GalleryInv
LEMMA GalleryFacts ==
  ASSUME GalleryInv
  PROVE  /\ PhotoTypes /\ PhotosHold /\ \A e \in Editor : JobHolds(v5[e]) /\ v5[e] \in JobState
         /\ v1 \in Photographing!State /\ v2 \in [Photo -> Photographing!State] /\ v6 \in BOOLEAN
         /\ v4 \subseteq Photo /\ v7 \subseteq Photo /\ v3 \subseteq Photographing!Live
BY DEF GalleryInv, PhotoTypes, PhotosHold

\* A call begins.
LEMMA GalleryBegins ==
  ASSUME GalleryInv, NEW e \in Editor, NEW op \in Photographing!Op, NEW at \in Photographing!Label,
         NEW photos \in SUBSET Photographing!Live, NEW main \in BOOLEAN,
         Photographing!Begin(e, op, at, photos, main),
         v1' = v1 \/ (v1 = "unused" /\ v1' = "live"),
         at \in {"demote", "attach", "unstore", "drop"},
         at = "demote" => Single(photos),
         at = "attach" /\ main => v3 = {},
         at = "unstore" /\ main => Single(photos) /\ (Single(v3) => v3 \subseteq photos)
  PROVE  GalleryInv'
<1>0. PICK new \in JobState :
             new = [at |-> at, op |-> op, photos |-> photos, main |-> main, gone |-> {}]
  BY DEF JobState, Photographing!Live
<1>1. /\ v5' = [v5 EXCEPT ![e] = new] /\ UNCHANGED <<v2, v3, v4, v6, v7>>
      /\ v5[e] = Photographing!NoJob
  BY <1>0 DEF Photographing!Begin
<1>2. /\ new \in JobState /\ new.at = at /\ new.photos = photos /\ new.main = main /\ new.gone = {}
  BY <1>0
<1>3. PhotosHold'
  BY <1>1, GalleryFacts DEF PhotosHold, Photographing!Live, Photographing!Unused
<1>4. /\ Settles(new) <=> at = "unstore" /\ main
      /\ Clears(new) <=> at = "attach" /\ main
  BY <1>2 DEF Settles, Clears
<1>5. Settles(new)' = Settles(new) /\ Clears(new)' = Clears(new)
  BY <1>1, <1>2 DEF Settles, Clears
<1>6. photos \cap Photographing!Unused' = {}
  BY <1>1 DEF Photographing!Live, Photographing!Unused
<1>7. JobHolds(new)'
  BY <1>1, <1>2, <1>4, <1>6, GalleryFacts DEF JobHolds, Settles, Clears, PhotosHold
<1>8. v1' \in Photographing!State
  BY GalleryFacts DEF Photographing!State
<1>9. v5[e].gone = {}
  BY <1>1, NoJobTyped
<1>10. /\ v2' = v2 /\ v3' = v3 /\ v4' = v4 /\ v6' = v6 /\ v7' = v7
  BY <1>1
<1>11. /\ v2' \in [Photo -> Photographing!State] /\ v6' \in BOOLEAN /\ v4' \subseteq Photo /\ v7' \subseteq Photo
       /\ \A p \in Photo : v2[p] # "unused" => v2'[p] # "unused"
       /\ v4 \subseteq v4' /\ v7 \subseteq v7' /\ (v6 => v6')
       /\ \A p \in Photo : v2'[p] = "live" /\ v2[p] # "live" =>
           v2[p] = "unused" \/ (p \in v4 => p \in v7')
  BY <1>10, GalleryFacts
<1>12. \A p \in Photo : v2'[p] = "live" /\ p \in v4' /\ (v2[p] # "live" \/ p \notin v4 \/ p \in v5[e].gone)
           => p \in v7' \/ p \in new.gone
  BY <1>9, <1>10
<1>13. v3' \subseteq v3
  BY <1>10
<1> QED BY <1>1, <1>2, <1>3, <1>7, <1>8, <1>11, <1>12, <1>13, GalleryStep
LEMMA GalleryBegin ==
  ASSUME GalleryInv, NEW e \in Editor,
         \/ Photographing!Create(e) \/ Photographing!Update(e) \/ Photographing!addToolPhoto(e)
         \/ Photographing!setToolPhotoPrimary(e) \/ Photographing!removeToolPhoto(e)
         \/ Photographing!Remove(e) \/ Photographing!DeleteTool(e)
  PROVE  GalleryInv'
<1> USE DEF Photographing!Op, Photographing!Label
<1>1. CASE Photographing!Create(e)
  <2>1. v3 = {}
    BY <1>1, GalleryFacts DEF Photographing!Create, PhotosHold
  <2> QED BY <1>1, <2>1, GalleryBegins DEF Photographing!Create
<1>2. CASE Photographing!Update(e)
  BY <1>2, GalleryBegins DEF Photographing!Update
<1>3. CASE Photographing!addToolPhoto(e)
  <2>1. PICK main \in BOOLEAN :
          Photographing!Begin(e, "add", IF main THEN "demote" ELSE "attach", {}, main)
    BY <1>3 DEF Photographing!addToolPhoto
  <2>2. v1' = v1
    BY <1>3 DEF Photographing!addToolPhoto
  <2>3. CASE main
    BY <2>1, <2>2, <2>3, GalleryBegins DEF Single
  <2>4. CASE ~main
    BY <2>1, <2>2, <2>4, GalleryBegins
  <2> QED BY <2>3, <2>4
<1>4. CASE Photographing!setToolPhotoPrimary(e)
  <2>1. PICK p \in Photographing!Live : Photographing!Begin(e, "promote", "demote", {p}, TRUE)
    BY <1>4 DEF Photographing!setToolPhotoPrimary
  <2>2. v1' = v1 /\ Single({p}) /\ {p} \in SUBSET Photographing!Live
    BY <1>4 DEF Photographing!setToolPhotoPrimary, Single
  <2> QED BY <2>1, <2>2, GalleryBegins
<1>5. CASE Photographing!removeToolPhoto(e)
  <2>1. PICK p \in Photographing!Live : Photographing!Begin(e, "remove", "unstore", {p}, p \in v3)
    BY <1>5 DEF Photographing!removeToolPhoto
  <2>2. v1' = v1 /\ Single({p}) /\ {p} \in SUBSET Photographing!Live
    BY <1>5 DEF Photographing!removeToolPhoto, Single
  <2>3. CASE p \in v3
    <3>1. (p \in v3) = TRUE
      BY <2>3
    <3>2. Photographing!Begin(e, "remove", "unstore", {p}, TRUE)
      BY <2>1, <3>1, Zenon
    <3> QED BY <2>2, <2>3, <3>2, GalleryBegins DEF Single
  <2>4. CASE p \notin v3
    <3>1. (p \in v3) = FALSE
      BY <2>4
    <3>2. Photographing!Begin(e, "remove", "unstore", {p}, FALSE)
      BY <2>1, <3>1, Zenon
    <3> QED BY <2>2, <3>2, GalleryBegins
  <2> QED BY <2>3, <2>4
<1>6. CASE Photographing!Remove(e)
  BY <1>6, GalleryBegins DEF Photographing!Remove
<1>7. CASE Photographing!DeleteTool(e)
  <2>1. {} \in SUBSET Photographing!Live
    OBVIOUS
  <2> QED BY <1>7, <2>1, GalleryBegins DEF Photographing!DeleteTool
<1> QED BY <1>1, <1>2, <1>3, <1>4, <1>5, <1>6, <1>7

\* A call writes nothing, and goes on to another label.
LEMMA GalleryGoesOn ==
  ASSUME GalleryInv, NEW e \in Editor, NEW new \in JobState, v5' = [v5 EXCEPT ![e] = new],
         UNCHANGED <<v1, v2, v3, v4, v6, v7>>, JobHolds(new)',
         v5[e].gone \cap Photographing!Missing \subseteq v7 \cup new.gone
  PROVE  GalleryInv'
<1>1. /\ v1' = v1 /\ v2' = v2 /\ v3' = v3 /\ v4' = v4 /\ v6' = v6 /\ v7' = v7
  OBVIOUS
<1>2. PhotosHold'
  BY <1>1, GalleryFacts DEF PhotosHold, Photographing!Live, Photographing!Unused
<1>3. /\ v1' \in Photographing!State
      /\ v2' \in [Photo -> Photographing!State] /\ v6' \in BOOLEAN /\ v4' \subseteq Photo /\ v7' \subseteq Photo
      /\ \A p \in Photo : v2[p] # "unused" => v2'[p] # "unused"
      /\ v4 \subseteq v4' /\ v7 \subseteq v7' /\ (v6 => v6') /\ v3' \subseteq v3
      /\ \A p \in Photo : v2'[p] = "live" /\ v2[p] # "live" =>
           v2[p] = "unused" \/ (p \in v4 => p \in v7')
  BY <1>1, GalleryFacts
<1>4. \A p \in Photo : v2'[p] = "live" /\ p \in v4' /\ (v2[p] # "live" \/ p \notin v4 \/ p \in v5[e].gone)
           => p \in v7' \/ p \in new.gone
  BY <1>1 DEF Photographing!Missing, Photographing!Live
<1> QED BY <1>2, <1>3, <1>4, GalleryStep
\* A call ends, and has nothing on its list that is shown and is not excused.
LEMMA GalleryEnds ==
  ASSUME GalleryInv, NEW e \in Editor, Photographing!End(e), UNCHANGED <<v1, v2, v3, v4, v6, v7>>,
         v5[e].gone \cap Photographing!Missing \subseteq v7
  PROVE  GalleryInv'
<1>1. PICK new \in JobState : new = Photographing!NoJob
  BY NoJobTyped
<1>2. v5' = [v5 EXCEPT ![e] = new]
  BY <1>1 DEF Photographing!End
<1>3. JobHolds(new)'
  BY <1>1, NoJobTyped DEF JobHolds, Settles, Clears, Single
<1> QED BY <1>2, <1>3, GalleryGoesOn

\* A call goes on to another label and writes nothing.
LEMMA GalleryGoesTo ==
  ASSUME GalleryInv, NEW e \in Editor, NEW at \in Photographing!Label,
         Photographing!Goto(e, at), UNCHANGED <<v1, v2, v3, v4, v6, v7>>,
         v5[e].at \in {"select", "write", "restore"}, at \in {"write", "restore"}
  PROVE  GalleryInv'
<1>1. PICK r \in JobState : r = v5[e]
  BY GalleryFacts
<1>2. PICK new \in JobState : new = [r EXCEPT !.at = at]
  BY <1>1 DEF JobState
<1>3. /\ v5' = [v5 EXCEPT ![e] = new]
      /\ new.at = at /\ new.photos = r.photos /\ new.main = r.main /\ new.gone = r.gone
  BY <1>1, <1>2 DEF Photographing!Goto, JobState
<1>4. JobHolds(r) /\ Settles(r)
  BY <1>1, GalleryFacts DEF Settles
<1>5. r.gone = {} /\ Single(r.photos) /\ (~v6 => v3 \subseteq r.photos)
  BY <1>1, <1>4 DEF JobHolds
<1>6. v2' = v2 /\ v3' = v3 /\ v4' = v4 /\ v6' = v6 /\ v7' = v7
  OBVIOUS
<1>7. JobHolds(new)'
  BY <1>3, <1>4, <1>5, <1>6 DEF JobHolds, Settles, Clears, Photographing!Unused
<1> QED BY <1>1, <1>3, <1>5, <1>7, GalleryGoesOn

LEMMA GallerySelect ==
  ASSUME GalleryInv, NEW e \in Editor, Photographing!Select(e)
  PROVE  GalleryInv'
<1>1. /\ v5[e].at = "select" /\ UNCHANGED <<v1, v2, v3, v4, v6, v7>>
      /\ \/ Photographing!End(e) \/ Photographing!Goto(e, "write") \/ Photographing!Goto(e, "restore")
  BY DEF Photographing!Select
<1>2. v5[e].gone = {}
  BY <1>1, GalleryFacts DEF JobHolds
<1>3. "write" \in Photographing!Label /\ "restore" \in Photographing!Label
  BY DEF Photographing!Label
<1> QED BY <1>1, <1>2, <1>3, GalleryEnds, GalleryGoesTo

LEMMA GalleryDemote ==
  ASSUME GalleryInv, NEW e \in Editor, Photographing!Demote(e)
  PROVE  GalleryInv'
<1>1. PICK r \in JobState : r = v5[e]
  BY GalleryFacts
<1>2. PICK at \in {"attach", "select"} : at = IF r.op = "add" THEN "attach" ELSE "select"
  OBVIOUS
<1>3. PICK new \in JobState : new = [r EXCEPT !.at = at]
  BY <1>1, <1>2 DEF JobState, Photographing!Label
<1>4. /\ v5' = [v5 EXCEPT ![e] = new] /\ new.at = at /\ new.photos = r.photos /\ new.main = r.main
      /\ new.gone = r.gone
      /\ r.at = "demote" /\ v3' = v3 \ Photographing!Live /\ UNCHANGED <<v1, v2, v4, v6, v7>>
  BY <1>1, <1>2, <1>3 DEF Photographing!Demote, Photographing!Goto, JobState
<1>5. JobHolds(r) /\ v3' = {}
  BY <1>1, <1>4, GalleryFacts
<1>6. r.gone = {} /\ Single(r.photos)
  BY <1>4, <1>5 DEF JobHolds
<1>7. JobHolds(new)'
  BY <1>4, <1>5, <1>6 DEF JobHolds, Settles, Clears, Photographing!Unused
<1>8. PhotosHold'
  BY <1>4, <1>5, GalleryFacts DEF PhotosHold, Single, Photographing!Live, Photographing!Unused
<1>9. /\ v1' \in Photographing!State
      /\ v2' \in [Photo -> Photographing!State] /\ v6' \in BOOLEAN /\ v4' \subseteq Photo /\ v7' \subseteq Photo
      /\ \A p \in Photo : v2[p] # "unused" => v2'[p] # "unused"
      /\ v4 \subseteq v4' /\ v7 \subseteq v7' /\ (v6 => v6') /\ v3' \subseteq v3
      /\ \A p \in Photo : v2'[p] = "live" /\ v2[p] # "live" =>
           v2[p] = "unused" \/ (p \in v4 => p \in v7')
  BY <1>4, <1>5, GalleryFacts
<1>10. \A p \in Photo : v2'[p] = "live" /\ p \in v4' /\ (v2[p] # "live" \/ p \notin v4 \/ p \in v5[e].gone)
           => p \in v7' \/ p \in new.gone
  BY <1>1, <1>4, <1>6
<1> QED BY <1>4, <1>7, <1>8, <1>9, <1>10, GalleryStep

\* No other call is about to set a flag, unless calls have crossed.
LEMMA CrossesIs ==
  ASSUME GalleryInv, NEW e \in Editor, Photographing!Crosses(e)
  PROVE  /\ v6' \in BOOLEAN /\ (v6 => v6')
         /\ ~v6' => \A f \in Editor \ {e} : ~Photographing!Making(f)
<1>1. \A f \in Editor \ {e} : Photographing!Making(f) \in BOOLEAN
  BY DEF Photographing!Making
<1> QED BY <1>1, GalleryFacts DEF Photographing!Crosses
\* A call writes, and ends.
LEMMA GalleryWrites ==
  ASSUME GalleryInv, NEW e \in Editor, Photographing!End(e), v4' = v4,
         v1' \in Photographing!State, v2' \in [Photo -> Photographing!State], v6' \in BOOLEAN,
         v7' \subseteq Photo, v7 \subseteq v7', v6 => v6',
         \A p \in Photo : v2[p] # "unused" => v2'[p] # "unused",
         \A p \in Photo : v2'[p] = "live" /\ v2[p] # "live" =>
           v2[p] = "unused" \/ (p \in v4 => p \in v7'),
         ~v6' => v3' \subseteq v3 \/ \A f \in Editor \ {e} : ~Photographing!Making(f),
         PhotosHold', v5[e].gone \cap Photographing!Missing' \subseteq v7'
  PROVE  GalleryInv'
<1>1. PICK new \in JobState : new = Photographing!NoJob
  BY NoJobTyped
<1>2. v5' = [v5 EXCEPT ![e] = new] /\ v4 \subseteq v4' /\ v4' \subseteq Photo
  BY <1>1, GalleryFacts DEF Photographing!End
<1>3. JobHolds(new)'
  BY <1>1, NoJobTyped DEF JobHolds, Settles, Clears, Single
<1>4. \A p \in Photo : v2'[p] = "live" /\ p \in v4' /\ (v2[p] # "live" \/ p \notin v4 \/ p \in v5[e].gone)
           => p \in v7' \/ p \in new.gone
  <2> SUFFICES ASSUME NEW p \in Photo, v2'[p] = "live", p \in v4',
                      v2[p] # "live" \/ p \in v5[e].gone
               PROVE  p \in v7'
    OBVIOUS
  <2>1. CASE p \in v5[e].gone
    BY <2>1 DEF Photographing!Missing, Photographing!Live
  <2>2. CASE v2[p] # "live"
    <3>1. v2[p] # "unused"
      BY GalleryFacts DEF PhotosHold, Photographing!Unused
    <3> QED BY <2>2, <3>1
  <2> QED BY <2>1, <2>2
<1> QED BY <1>2, <1>3, <1>4, GalleryStep

LEMMA GalleryAttach ==
  ASSUME GalleryInv, NEW e \in Editor, Photographing!Attach(e)
  PROVE  GalleryInv'
<1>1. PICK fresh \in SUBSET Photographing!Unused \ {{}} :
        /\ v2' = [p \in Photo |-> IF p \in fresh THEN "live" ELSE v2[p]]
        /\ IF v5[e].main THEN (\E p \in fresh : v3' = v3 \cup {p}) /\ Photographing!Crosses(e)
           ELSE UNCHANGED <<v3, v6>>
  BY DEF Photographing!Attach
<1>2. /\ v5[e].at = "attach" /\ v1 = "live" /\ v1' = v1 /\ v4' = v4 /\ v7' = v7 /\ Photographing!End(e)
  BY DEF Photographing!Attach
<1>3. /\ v2' \in [Photo -> Photographing!State] /\ v7' \subseteq Photo /\ v1' \in Photographing!State
      /\ \A p \in Photo : v2[p] # "unused" => v2'[p] # "unused"
      /\ \A p \in Photo : v2'[p] = "live" /\ v2[p] # "live" => v2[p] = "unused"
      /\ Photographing!Unused' \subseteq Photographing!Unused
      /\ Photographing!Live \cup fresh \subseteq Photographing!Live'
  BY <1>1, <1>2, GalleryFacts DEF Photographing!State, Photographing!Live, Photographing!Unused
<1>4. v5[e].gone = {} /\ (v5[e].main /\ ~v6 => v3 = {})
  BY <1>2, GalleryFacts DEF JobHolds, Clears
<1>5. CASE v5[e].main
  <2>1. PICK p \in fresh : v3' = v3 \cup {p}
    BY <1>1, <1>5
  <2>2. PhotosHold' /\ v6' \in BOOLEAN /\ (v6 => v6')
        /\ (~v6' => \A f \in Editor \ {e} : ~Photographing!Making(f))
    BY <1>1, <1>2, <1>3, <1>4, <1>5, <2>1, CrossesIs, GalleryFacts DEF PhotosHold, Single
  <2> QED BY <1>2, <1>3, <1>4, <2>2, GalleryWrites
<1>6. CASE ~v5[e].main
  <2>1. v3' = v3 /\ v6' = v6
    BY <1>1, <1>6
  <2>2. PhotosHold' /\ v6' \in BOOLEAN /\ (v6 => v6') /\ v3' \subseteq v3
    BY <1>2, <1>3, <2>1, GalleryFacts DEF PhotosHold, Single
  <2> QED BY <1>2, <1>3, <1>4, <2>2, GalleryWrites
<1> QED BY <1>5, <1>6

LEMMA GalleryWrite ==
  ASSUME GalleryInv, NEW e \in Editor, Photographing!Write(e)
  PROVE  GalleryInv'
<1>1. /\ v5[e].at = "write" /\ v3' = v3 \cup (v5[e].photos \cap Photographing!Live)
      /\ Photographing!Crosses(e) /\ Photographing!End(e)
      /\ v1' = v1 /\ v2' = v2 /\ v4' = v4 /\ v7' = v7
  BY DEF Photographing!Write
<1>2. /\ v5[e].gone = {} /\ Single(v5[e].photos) /\ (~v6 => v3 \subseteq v5[e].photos)
  BY <1>1, GalleryFacts DEF JobHolds, Settles
<1>3. /\ v6' \in BOOLEAN /\ (v6 => v6') /\ (~v6' => \A f \in Editor \ {e} : ~Photographing!Making(f))
  BY <1>1, CrossesIs
<1>4. PhotosHold'
  BY <1>1, <1>2, <1>3, GalleryFacts DEF PhotosHold, Single, Photographing!Live, Photographing!Unused
<1>5. /\ v1' \in Photographing!State /\ v2' \in [Photo -> Photographing!State] /\ v7' \subseteq Photo
      /\ v7 \subseteq v7' /\ v5[e].gone \cap Photographing!Missing' \subseteq v7'
  BY <1>1, <1>2, GalleryFacts
<1> QED BY <1>1, <1>3, <1>4, <1>5, GalleryWrites

LEMMA GalleryRestore ==
  ASSUME GalleryInv, NEW e \in Editor, Photographing!Restore(e)
  PROVE  GalleryInv'
<1> DEFINE photos == v5[e].photos
<1>1. /\ v5[e].at = "restore" /\ Photographing!End(e) /\ v1' = v1 /\ v4' = v4
  BY DEF Photographing!Restore
<1>2. /\ v5[e].gone = {} /\ Single(photos) /\ (~v6 => v3 \subseteq photos)
      /\ photos \cap Photographing!Unused = {} /\ photos \subseteq Photo
  BY <1>1, GalleryFacts DEF JobHolds, Settles, JobState
<1>3. CASE v1 = "live" /\ photos \cap Photographing!Live = {}
  <2>1. /\ v2' = [p \in Photo |-> IF p \in photos THEN "live" ELSE v2[p]]
        /\ v3' = v3 \cup photos /\ v7' = v7 \cup (photos \cap v4) /\ Photographing!Crosses(e)
    BY <1>3 DEF Photographing!Restore
  <2>2. /\ v6' \in BOOLEAN /\ (v6 => v6') /\ (~v6' => \A f \in Editor \ {e} : ~Photographing!Making(f))
    BY <2>1, CrossesIs
  <2>3. /\ v2' \in [Photo -> Photographing!State] /\ v7' \subseteq Photo /\ v1' \in Photographing!State
        /\ \A p \in Photo : v2[p] # "unused" => v2'[p] # "unused"
        /\ \A p \in Photo : v2'[p] = "live" /\ v2[p] # "live" => (p \in v4 => p \in v7')
        /\ Photographing!Unused' \subseteq Photographing!Unused
        /\ Photographing!Live \cup photos \subseteq Photographing!Live'
    BY <1>1, <1>2, <2>1, GalleryFacts DEF Photographing!State, Photographing!Live, Photographing!Unused
  <2>4. PhotosHold'
    BY <1>1, <1>2, <1>3, <2>1, <2>2, <2>3, GalleryFacts DEF PhotosHold, Single
  <2>5. v7 \subseteq v7'
    BY <2>1
  <2> HIDE DEF photos
  <2> QED BY <1>1, <1>2, <2>2, <2>3, <2>4, <2>5, GalleryWrites
<1>4. CASE ~(v1 = "live" /\ photos \cap Photographing!Live = {})
  <2>1. UNCHANGED <<v1, v2, v3, v4, v6, v7>>
    BY <1>1, <1>4 DEF Photographing!Restore
  <2> QED BY <1>1, <1>2, <2>1, GalleryEnds
<1> QED BY <1>3, <1>4
LEMMA GalleryUnstore ==
  ASSUME GalleryInv, NEW e \in Editor, Photographing!Unstore(e)
  PROVE  GalleryInv'
<1>1. PICK r \in JobState : r = v5[e]
  BY GalleryFacts
<1>2. PICK gone \in SUBSET r.photos :
        /\ v4' = v4 \cup gone
        /\ v5' = [v5 EXCEPT ![e].at = "remove", ![e].gone = gone]
  BY <1>1 DEF Photographing!Unstore
<1>3. PICK new \in JobState : new = [r EXCEPT !.at = "remove", !.gone = gone]
  BY <1>1, <1>2 DEF JobState, Photographing!Label
<1>4. /\ v5' = [v5 EXCEPT ![e] = new] /\ new.at = "remove" /\ new.photos = r.photos
      /\ new.main = r.main /\ new.gone = gone
      /\ r.at = "unstore" /\ v1' = v1 /\ v2' = v2 /\ v3' = v3 /\ v6' = v6 /\ v7' = v7
  BY <1>1, <1>2, <1>3, Zenon DEF Photographing!Unstore, JobState
<1>5. JobHolds(r) /\ r.photos \subseteq Photo
  BY <1>1, GalleryFacts DEF JobState
<1>6. r.gone = {} /\ (r.main => Single(r.photos)) /\ (r.main /\ ~v6 => v3 \subseteq r.photos)
      /\ r.photos \cap Photographing!Unused = {}
  BY <1>4, <1>5 DEF JobHolds, Settles
<1>7. /\ Settles(new)' <=> r.main
      /\ ~Clears(new)'
  BY <1>4 DEF Settles, Clears
<1>8. JobHolds(new)'
  BY <1>2, <1>4, <1>6, <1>7 DEF JobHolds, Photographing!Unused
<1>9. PhotosHold'
  BY <1>2, <1>4, <1>6, GalleryFacts DEF PhotosHold, Photographing!Live, Photographing!Unused
<1>10. /\ v1' \in Photographing!State
       /\ v2' \in [Photo -> Photographing!State] /\ v6' \in BOOLEAN /\ v4' \subseteq Photo /\ v7' \subseteq Photo
       /\ \A p \in Photo : v2[p] # "unused" => v2'[p] # "unused"
       /\ v4 \subseteq v4' /\ v7 \subseteq v7' /\ (v6 => v6') /\ v3' \subseteq v3
       /\ \A p \in Photo : v2'[p] = "live" /\ v2[p] # "live" =>
            v2[p] = "unused" \/ (p \in v4 => p \in v7')
  BY <1>2, <1>4, <1>5, GalleryFacts
<1>11. \A p \in Photo : v2'[p] = "live" /\ p \in v4' /\ (v2[p] # "live" \/ p \notin v4 \/ p \in v5[e].gone)
            => p \in v7' \/ p \in new.gone
  BY <1>1, <1>2, <1>4, <1>6
<1> QED BY <1>4, <1>8, <1>9, <1>10, <1>11, GalleryStep

LEMMA GalleryRemoveRows ==
  ASSUME GalleryInv, NEW e \in Editor, Photographing!RemoveRows(e)
  PROVE  GalleryInv'
<1>1. PICK r \in JobState : r = v5[e]
  BY GalleryFacts
<1>2. /\ v2' = [p \in Photo |-> IF p \in r.photos \cap Photographing!Live THEN "deleted" ELSE v2[p]]
      /\ v3' = v3 \ r.photos /\ r.at = "remove"
      /\ v1' = v1 /\ v4' = v4 /\ v6' = v6 /\ v7' = v7
  BY <1>1 DEF Photographing!RemoveRows
<1>3. JobHolds(r) /\ r.photos \subseteq Photo
  BY <1>1, GalleryFacts DEF JobState
<1>4. /\ r.photos \cap Photographing!Unused = {} /\ r.gone \subseteq r.photos /\ r.gone \subseteq v4
      /\ (r.main /\ ~v6 => v3 \subseteq r.photos)
  BY <1>2, <1>3 DEF JobHolds, Settles
<1>5. /\ v2' \in [Photo -> Photographing!State] /\ v1' \in Photographing!State
      /\ v6' \in BOOLEAN /\ v4' \subseteq Photo /\ v7' \subseteq Photo
      /\ \A p \in Photo : v2[p] # "unused" => v2'[p] # "unused"
      /\ \A p \in Photo : v2'[p] = "live" => v2[p] = "live"
      /\ Photographing!Live' = Photographing!Live \ r.photos
      /\ Photographing!Unused' = Photographing!Unused
      /\ v4 \subseteq v4' /\ v7 \subseteq v7' /\ (v6 => v6') /\ v3' \subseteq v3
  BY <1>2, <1>3, GalleryFacts DEF Photographing!State, Photographing!Live, Photographing!Unused
<1>6. PhotosHold'
  BY <1>2, <1>5, GalleryFacts DEF PhotosHold, Single
<1>7. \A p \in r.gone : v2'[p] # "live"
  BY <1>3, <1>4, <1>5 DEF Photographing!Live
<1>8. CASE r.op = "delete" \/ r.main
  <2>1. PICK at \in {"drop", "first"} : at = IF r.op = "delete" THEN "drop" ELSE "first"
    OBVIOUS
  <2>2. PICK new \in JobState : new = [r EXCEPT !.at = at]
    BY <2>1 DEF JobState, Photographing!Label
  <2>3. /\ v5' = [v5 EXCEPT ![e] = new] /\ new.at = at /\ new.photos = r.photos
        /\ new.main = r.main /\ new.gone = r.gone
    BY <1>1, <1>8, <2>1, <2>2 DEF Photographing!RemoveRows, Photographing!Goto, JobState
  <2>4. r.op # "delete" => r.main
    BY <1>8
  <2>5. /\ ~Settles(new)' /\ (Clears(new)' => at = "first")
        /\ at = "first" => r.main
    BY <2>1, <2>3, <2>4 DEF Settles, Clears
  <2>6. r.main /\ ~v6' => v3' = {}
    BY <1>2, <1>4
  <2>7. /\ r.gone \cap Photographing!Live' \subseteq v7' /\ r.photos \cap Photographing!Unused' = {}
        /\ r.gone \subseteq v4'
    BY <1>2, <1>4, <1>5
  <2>8. JobHolds(new)'
    BY <1>4, <2>1, <2>3, <2>5, <2>6, <2>7 DEF JobHolds
  <2>9. \A p \in Photo : v2'[p] = "live" /\ p \in v4' /\ (v2[p] # "live" \/ p \notin v4 \/ p \in v5[e].gone)
            => p \in v7' \/ p \in new.gone
    BY <1>1, <1>2, <1>5, <2>3
  <2> QED BY <1>5, <1>6, <2>3, <2>8, <2>9, GalleryStep
<1>9. CASE ~(r.op = "delete" \/ r.main)
  <2>1. Photographing!End(e)
    BY <1>1, <1>9 DEF Photographing!RemoveRows
  <2>2. v5[e].gone \cap Photographing!Missing' \subseteq v7'
    BY <1>1, <1>7 DEF Photographing!Missing, Photographing!Live
  <2> QED BY <1>2, <1>5, <1>6, <2>1, <2>2, GalleryWrites
<1> QED BY <1>8, <1>9

LEMMA GalleryFirst ==
  ASSUME GalleryInv, NEW e \in Editor, Photographing!First(e)
  PROVE  GalleryInv'
<1>1. PICK r \in JobState : r = v5[e]
  BY GalleryFacts
<1>2. r.at = "first" /\ v1' = v1 /\ v2' = v2 /\ v3' = v3 /\ v4' = v4 /\ v6' = v6 /\ v7' = v7
  BY <1>1, Zenon DEF Photographing!First
<1>3. /\ r.gone \cap Photographing!Live \subseteq v7
      /\ ~v6 => v3 = {}
  BY <1>1, <1>2, GalleryFacts DEF JobHolds, Clears
<1>4. CASE Photographing!Live = {} /\ Photographing!End(e)
  BY <1>1, <1>2, <1>3, <1>4, GalleryEnds DEF Photographing!Missing
<1>5. ASSUME NEW p \in Photographing!Live,
             v5' = [v5 EXCEPT ![e].at = "select", ![e].photos = {p}, ![e].gone = {}]
      PROVE  GalleryInv'
  <2>1. p \in Photo /\ v2[p] = "live"
    BY DEF Photographing!Live
  <2>2. PICK new \in JobState : new = [r EXCEPT !.at = "select", !.photos = {p}, !.gone = {}]
    BY <2>1 DEF JobState, Photographing!Label
  <2>3. v5' = [v5 EXCEPT ![e] = new] /\ new.at = "select" /\ new.photos = {p} /\ new.gone = {}
    BY <1>1, <1>5, <2>2 DEF JobState
  <2>4. new.photos \cap Photographing!Unused' = {}
    BY <1>2, <2>1, <2>3 DEF Photographing!Unused
  <2>5. JobHolds(new)'
    BY <1>2, <1>3, <2>3, <2>4 DEF JobHolds, Settles, Clears, Single
  <2>6. v5[e].gone \cap Photographing!Missing \subseteq v7 \cup new.gone
    BY <1>1, <1>3 DEF Photographing!Missing
  <2> QED BY <1>2, <2>3, <2>5, <2>6, GalleryGoesOn
<1> QED BY <1>4, <1>5, Zenon DEF Photographing!First

LEMMA GalleryDrop ==
  ASSUME GalleryInv, NEW e \in Editor, Photographing!Drop(e)
  PROVE  GalleryInv'
<1>1. /\ v1' = "deleted" /\ v3' = {} /\ v4' = v4 /\ v6' = v6 /\ v7' = v7 /\ Photographing!End(e)
      /\ v2' = [p \in Photo |-> IF p \in Photographing!Live THEN "deleted" ELSE v2[p]]
  BY DEF Photographing!Drop
<1>2. /\ v2' \in [Photo -> Photographing!State] /\ v1' \in Photographing!State
      /\ v6' \in BOOLEAN /\ v7' \subseteq Photo /\ v7 \subseteq v7' /\ (v6 => v6') /\ v3' \subseteq v3
      /\ \A p \in Photo : (v2[p] # "unused" => v2'[p] # "unused") /\ v2'[p] # "live"
      /\ Photographing!Live' = {} /\ Photographing!Unused' = Photographing!Unused
  BY <1>1, GalleryFacts DEF Photographing!State, Photographing!Live, Photographing!Unused
<1>3. PhotosHold'
  BY <1>1, <1>2, GalleryFacts DEF PhotosHold, Single
<1>4. v5[e].gone \cap Photographing!Missing' \subseteq v7'
  BY <1>2 DEF Photographing!Missing
<1> QED BY <1>1, <1>2, <1>3, <1>4, GalleryWrites

LEMMA GalleryFail ==
  ASSUME GalleryInv, NEW e \in Editor, Photographing!Fail(e)
  PROVE  GalleryInv'
<1>1. /\ v1' = v1 /\ v2' = v2 /\ v3' = v3 /\ v4' = v4 /\ v6' = v6 /\ Photographing!End(e)
      /\ v7' = v7 \cup (v5[e].gone \cap Photographing!Missing)
  BY DEF Photographing!Fail
<1>2. Photographing!Missing \subseteq Photo /\ Photographing!Missing' = Photographing!Missing
  BY <1>1 DEF Photographing!Missing, Photographing!Live
<1>3. PhotosHold'
  BY <1>1, GalleryFacts DEF PhotosHold, Photographing!Live, Photographing!Unused
<1>4. /\ v2' \in [Photo -> Photographing!State] /\ v1' \in Photographing!State
      /\ v6' \in BOOLEAN /\ v7' \subseteq Photo /\ v7 \subseteq v7' /\ (v6 => v6') /\ v3' \subseteq v3
      /\ \A p \in Photo : v2[p] # "unused" => v2'[p] # "unused"
      /\ \A p \in Photo : v2'[p] = "live" /\ v2[p] # "live" => v2[p] = "unused"
      /\ v5[e].gone \cap Photographing!Missing' \subseteq v7'
  BY <1>1, <1>2, GalleryFacts
<1> QED BY <1>1, <1>3, <1>4, GalleryWrites

LEMMA GallerySteps ==
  ASSUME GalleryInv, Photographing!Next
  PROVE  GalleryInv'
BY GalleryBegin, GalleryDemote, GalleryAttach, GallerySelect, GalleryWrite, GalleryRestore,
   GalleryUnstore, GalleryRemoveRows, GalleryFirst, GalleryDrop, GalleryFail
   DEF Photographing!Next

LEMMA GalleryAlways == Spec => [](focus = "gallery" => GalleryInv)
<1> DEFINE Inv == focus = "gallery" => GalleryInv
<1>1. Init => Inv
  BY GalleryInit DEF Init
<1>2. Inv /\ [Next]_vars => Inv'
  <2> SUFFICES ASSUME Inv, [Next]_vars, focus' = "gallery" PROVE GalleryInv'
    OBVIOUS
  <2>1. focus = "gallery" /\ GalleryInv
    BY FocusStays
  <2>2. CASE Photographing!Next
    BY <2>1, <2>2, GallerySteps
  <2>3. CASE UNCHANGED <<v1, v2, v3, v4, v5, v6, v7>>
    BY <2>1, <2>3 DEF GalleryInv, PhotoTypes, PhotosHold, JobHolds, Photographing!ShownIsStored,
                      Photographing!Missing, Photographing!Live, Photographing!Unused, Settles, Clears
  <2> QED BY <2>1, <2>2, <2>3 DEF Next, vars
<1> QED BY <1>1, <1>2, PTL DEF Spec

LEMMA SingleIsOne ==
  ASSUME NEW S, Single(S)
  PROVE  Photographing!Cardinality(S) <= 1
<1>0. Photographing!Cardinality(S) = Cardinality(S)
  BY DEF Photographing!Cardinality, Cardinality
<1>1. CASE S = {}
  <2>1. Cardinality(S) = 0
    BY <1>1, FS_EmptySet
  <2> QED BY <1>0, <2>1
<1>2. CASE S # {}
  <2>1. PICK i : i \in S
    BY <1>2
  <2>2. \A x : x \in S <=> x \in {i}
    BY <2>1 DEF Single
  <2>3. S = {i}
    BY <2>2
  <2>4. Cardinality(S) = 1
    BY <2>3, FS_Singleton
  <2> QED BY <1>0, <2>4
<1> QED BY <1>1, <1>2

\* The theorem: a tool has one primary photo, unless two calls that make one primary
\* overlap (tools.service.ts), for any number of photos and calls.
THEOREM OnePhotoFirst == Spec => []OnePrimary
<1>1. (focus = "gallery" => GalleryInv) => OnePrimary
  <2> SUFFICES ASSUME GalleryInv, ~v6
               PROVE  Photographing!Cardinality(v3 \cap Photographing!Live) <= 1
    BY DEF OnePrimary, Photographing!OnePrimary
  <2>1. Single(v3 \cap Photographing!Live)
    BY GalleryFacts DEF PhotosHold, Single
  <2> QED BY <2>1, SingleIsOne
<1> QED BY <1>1, GalleryAlways, PTL
-----------------------------------------------------------------------------
(***************************************************************************)
(* Editorial: ShownIsStored is not inductive, for what a step leaves       *)
(* without its file is seen to by the steps after it.  Planned and Covered *)
(* say how a call that has deleted a file goes on, until the row is gone   *)
(* or shows another one; Backed, that the image a call has uploaded is     *)
(* nobody else's until the article shows it.                               *)
(***************************************************************************)
Steps == Editing!Step

\* Two sequences of steps in one.
LEMMA Joined ==
  ASSUME NEW s \in Seq(Steps), NEW t \in Seq(Steps), NEW u, u = s \o t
  PROVE  /\ u \in Seq(Steps) /\ Len(u) = Len(s) + Len(t)
         /\ \A i \in 1 .. Len(s) : u[i] = s[i]
         /\ \A i \in 1 .. Len(t) : u[Len(s) + i] = t[i]
<1>1. \A i \in 1 .. Len(s) + Len(t) : u[i] = IF i <= Len(s) THEN s[i] ELSE t[i - Len(s)]
  BY ConcatProperties
<1>2. u \in Seq(Steps) /\ Len(u) = Len(s) + Len(t) /\ Len(s) \in Nat /\ Len(t) \in Nat
  BY ConcatProperties
<1>3. \A i \in 1 .. Len(t) : Len(s) + i \in 1 .. Len(s) + Len(t) /\ ~(Len(s) + i <= Len(s)) /\ Len(s) + i - Len(s) = i
  BY <1>2
<1> QED BY <1>1, <1>2, <1>3

LEMMA TailOf ==
  ASSUME NEW s \in Seq(Steps), Len(s) # 1, s # <<>>
  PROVE  /\ Tail(s) \in Seq(Steps) /\ Len(Tail(s)) = Len(s) - 1 /\ Tail(s) # <<>>
         /\ \A i \in 1 .. Len(s) - 1 : Tail(s)[i] = s[i + 1]
         /\ Len(s) \in Nat /\ Len(s) > 1 /\ Head(s) = s[1]
<1>1. Len(s) \in Nat /\ Len(s) # 0
  OBVIOUS
<1>2. Tail(s) \in Seq(Steps) /\ Len(Tail(s)) = Len(s) - 1
  BY HeadTailProperties
<1>3. \A i \in 1 .. Len(Tail(s)) : Tail(s)[i] = s[i + 1]
  BY HeadTailProperties
<1>4. Len(Tail(s)) > 0 /\ Len(s) > 1
  BY <1>1, <1>2
<1>5. Tail(s) # <<>>
  <2>1. PICK t : t = Tail(s)
    OBVIOUS
  <2>2. t = <<>> => Len(t) = 0
    OBVIOUS
  <2> QED BY <1>4, <2>1, <2>2
<1>6. Head(s) = s[1]
  OBVIOUS
<1> QED BY <1>1, <1>2, <1>3, <1>4, <1>5, <1>6


\* What the steps of a plan s have before and after them.
Planned(s, own, deleted) ==
  \A i \in 1 .. Len(s) :
    /\ s[i] = "unfile" => /\ i = 1 /\ ~own /\ deleted = {}
                          /\ \/ Len(s) = 2 /\ s[2] = "drop"
                             \/ Len(s) > 2 /\ s[2] = "upload" /\ s[Len(s)] = "save"
    /\ s[i] = "unstore" => i = 1 /\ Len(s) = 2 /\ deleted = {} /\ s[2] \in {"remove", "clear"}
    /\ s[i] = "upload" => /\ ~own /\ i < Len(s)
                          /\ \/ i = 1 /\ s[2] = "insert"
                             \/ i \in {1, 2} /\ s[Len(s)] = "save" /\ (i = 2 => s[1] = "unfile")
    /\ s[i] = "insert" => /\ i = 1 \/ (i = 2 /\ s[1] = "upload")
                          /\ s[Len(s)] \in {"insert", "make"}
    /\ s[i] = "save" => i = Len(s) \/ (i = 1 /\ ~own /\ deleted = {})

\* What the call deleted is no longer shown when its plan is done.
Covered(s, own, children, deleted) ==
  \/ deleted = {}
  \/ deleted = {"main"} /\ s[Len(s)] = "drop"
  \/ deleted = {"main"} /\ s[Len(s)] = "save" /\ (own \/ s[1] = "upload")
  \/ deleted \subseteq children /\ Len(s) = 1 /\ s[1] \in {"clear", "remove"}

\* The image is uploaded, and nothing shows it yet.
Pending(c) ==
  c.own /\ c.steps # <<>> /\ (c.steps[Len(c.steps)] = "save" \/ c.steps[1] = "insert")

PlanHolds(c) ==
  c.steps # <<>> =>
    /\ Planned(c.steps, c.own, c.deleted)
    /\ Covered(c.steps, c.own, c.children, c.deleted)

Backed(c, main, child, file) ==
  /\ c.steps = <<>> => c = Editing!NoEdit
  /\ c.steps # <<>> /\ c.steps[1] = "insert" /\ ~c.own => c.image = NoFile
  /\ Pending(c) => c.image \in File /\ file[c.image] = "live" /\ main # c.image
  /\ c.image \in File => file[c.image] # "unused"
  /\ \A x \in c.children : child[x] # "unused"

ImagesHold ==
  /\ v3 \in File => v5[v3] # "unused"
  /\ v2 = "unused" => v3 = NoFile
  /\ \A x \in v6 : v4[x] # "unused"
  /\ \A d, e \in Editor : d # e /\ Pending(v7[d]) => v7[e].image # v7[d].image

EditRecord == [steps : Seq(Steps), children : SUBSET Child, image : File \cup {NoFile},
               own : BOOLEAN, deleted : SUBSET (Child \cup {"main"})]

EditorialInv ==
  /\ Editing!TypeOK
  /\ \A e \in Editor : PlanHolds(v7[e]) /\ Backed(v7[e], v3, v4, v5)
  /\ ImagesHold
  /\ Editing!ShownIsStored

LEMMA EditorialFacts ==
  ASSUME EditorialInv
  PROVE  /\ v1 \in {"news", "section"} /\ v2 \in Editing!State /\ v3 \in File \cup {NoFile}
         /\ v4 \in [Child -> Editing!State] /\ v6 \subseteq Child
         /\ v5 \in [File -> Editing!State]
         /\ v7 \in [Editor -> EditRecord]
         /\ v8 \subseteq Child \cup {"main"}
BY DEF EditorialInv, Editing!TypeOK, EditRecord, Steps

LEMMA NoEditHolds ==
  /\ Editing!NoEdit \in EditRecord /\ PlanHolds(Editing!NoEdit) /\ ~Pending(Editing!NoEdit)
  /\ Editing!NoEdit.steps = <<>> /\ Editing!NoEdit.children = {} /\ Editing!NoEdit.image = NoFile
  /\ Editing!NoEdit.deleted = {}
BY DEF Editing!NoEdit, EditRecord, PlanHolds, Pending

\* A plan goes on, after a step that gives no file away.
LEMMA PlanGoesOn ==
  ASSUME NEW s \in Seq(Steps), s # <<>>, Len(s) # 1, NEW own \in BOOLEAN,
         NEW deleted, NEW children, NEW left,
         Planned(s, own, deleted), Covered(s, own, children, deleted),
         s[1] \notin {"unfile", "unstore", "upload"}
  PROVE  /\ Planned(Tail(s), own, deleted)
         /\ Covered(Tail(s), own, left, deleted)
<1>1. PICK t : t = Tail(s)
  OBVIOUS
<1>2. PICK n : n = Len(s)
  OBVIOUS
<1>3. /\ t \in Seq(Steps) /\ Len(t) = n - 1 /\ n \in Nat /\ n > 1
      /\ \A i \in 1 .. n - 1 : t[i] = s[i + 1]
  BY <1>1, <1>2, TailOf
<1>4. t[n - 1] = s[n] /\ t[Len(t)] = s[n]
  BY <1>3
<1>5. ASSUME NEW i \in 1 .. Len(t)
      PROVE  /\ t[i] \notin {"unfile", "unstore", "upload", "insert"}
             /\ t[i] = "save" => i = Len(t)
  <2>1. i + 1 \in 1 .. Len(s) /\ i + 1 # 1 /\ t[i] = s[i + 1] /\ i \in Nat
    BY <1>2, <1>3
  <2>2. PICK k : k = i + 1
    OBVIOUS
  <2>3. s[k] \notin {"unfile", "unstore", "insert"}
    BY <2>1, <2>2 DEF Planned
  <2>4. s[k] # "upload"
    BY <2>1, <2>2 DEF Planned
  <2>5. s[k] = "save" => k = Len(s)
    BY <2>1, <2>2 DEF Planned
  <2> QED BY <1>2, <1>3, <2>1, <2>2, <2>3, <2>4, <2>5
<1>6. Planned(t, own, deleted)
  BY <1>5 DEF Planned
<1>7. Covered(t, own, left, deleted)
  BY <1>2, <1>3, <1>4 DEF Covered
<1> QED BY <1>1, <1>6, <1>7

\* What a call, which is `new` now, may do to the rows and files: others need them.
Moves(e, new, m, ch, fl) ==
  /\ m \in File \cup {NoFile} /\ ch \in [Child -> Editing!State] /\ fl \in [File -> Editing!State]
  /\ PlanHolds(new) /\ Backed(new, m, ch, fl)
  /\ \A f \in File : v5[f] # "unused" => fl[f] # "unused"
  /\ \A x \in Child : v4[x] # "unused" => ch[x] # "unused"
  /\ \A d \in Editor \ {e} : Pending(v7[d]) =>
       fl[v7[d].image] = "live" /\ m # v7[d].image /\ new.image # v7[d].image
  /\ \A d \in Editor \ {e} : Pending(new) => v7[d].image # new.image
  /\ m \in File => fl[m] # "unused"

\* What has no file now is excused, left to the call, or as it was without it.
LeftToIt(e, new, gone) ==
  \A x \in gone : \/ x \in v8' \/ x \in new.deleted
                  \/ x \in Editing!Missing \ v7[e].deleted /\ (x \in v8 => x \in v8')

\* The rest of what a step leaves behind.
Leaves(ch) ==
  /\ v1' = v1 /\ v2' \in Editing!State /\ v6' \subseteq Child /\ v8' \subseteq Child \cup {"main"}
  /\ v2' = "unused" => v3' = NoFile
  /\ \A x \in v6' : ch[x] # "unused"

\* A step of one call keeps the invariant, when these parts of it are kept.
LEMMA EditorialStep ==
  ASSUME EditorialInv, NEW e \in Editor, NEW new \in EditRecord, v7' = [v7 EXCEPT ![e] = new],
         NEW m, m = v3', NEW ch, ch = v4', NEW fl, fl = v5', NEW gone, gone = Editing!Missing',
         Moves(e, new, m, ch, fl), LeftToIt(e, new, gone), Leaves(ch)
  PROVE  EditorialInv'
<1> USE DEF Moves, LeftToIt, Leaves
<1>1. \A d \in Editor : v7[d] \in EditRecord /\ v7'[d] = IF d = e THEN new ELSE v7[d]
  BY EditorialFacts
<1>2. v7' \in [Editor -> EditRecord]
  BY <1>1, EditorialFacts
<1>3. Editing!TypeOK'
  BY <1>2, EditorialFacts DEF Editing!TypeOK, EditRecord, Steps
<1>4. ASSUME NEW d \in Editor PROVE PlanHolds(v7'[d]) /\ Backed(v7'[d], m, ch, fl)
  <2>1. CASE d = e
    BY <1>1, <2>1
  <2>2. CASE d # e
    <3>1. PICK c : c = v7[d]
      OBVIOUS
    <3>2. c \in EditRecord /\ PlanHolds(c) /\ Backed(c, v3, v4, v5) /\ v7'[d] = c
      BY <1>1, <2>2, <3>1 DEF EditorialInv
    <3>3. c.image \in File \cup {NoFile} /\ c.children \subseteq Child
      BY <3>2 DEF EditRecord
    <3>4. Pending(c) => c.image \in File /\ fl[c.image] = "live" /\ m # c.image
      BY <2>2, <3>1, <3>2 DEF Backed
    <3>5. Backed(c, m, ch, fl)
      BY <3>2, <3>3, <3>4 DEF Backed
    <3> QED BY <3>2, <3>5
  <2> QED BY <2>1, <2>2
<1>5. \A d, q \in Editor : d # q /\ Pending(v7'[d]) => v7'[q].image # v7'[d].image
  <2> SUFFICES ASSUME NEW d \in Editor, NEW q \in Editor, d # q, Pending(v7'[d])
               PROVE  v7'[q].image # v7'[d].image
    OBVIOUS
  <2>1. CASE d = e
    BY <1>1, <2>1
  <2>2. CASE q = e
    BY <1>1, <2>2
  <2>3. CASE d # e /\ q # e
    BY <1>1, <2>3 DEF EditorialInv, ImagesHold
  <2> QED BY <2>1, <2>2, <2>3
<1>6. ImagesHold'
  BY <1>5 DEF ImagesHold, Pending
<1>7. ASSUME NEW x \in gone PROVE x \in v8' \/ \E d \in Editor : x \in v7'[d].deleted
  <2>1. CASE x \in v8'
    BY <2>1
  <2>2. CASE x \in new.deleted
    BY <1>1, <2>2
  <2>3. CASE x \in Editing!Missing \ v7[e].deleted /\ (x \in v8 => x \in v8')
    <3>1. x \in v8 \/ \E d \in Editor : x \in v7[d].deleted
      BY <2>3 DEF EditorialInv, Editing!ShownIsStored
    <3>2. CASE x \in v8
      BY <2>3, <3>2
    <3>3. CASE \E d \in Editor : x \in v7[d].deleted
      <4>1. PICK d \in Editor : x \in v7[d].deleted
        BY <3>3
      <4>2. d # e
        BY <2>3, <4>1
      <4> QED BY <1>1, <4>1, <4>2
    <3> QED BY <3>1, <3>2, <3>3
  <2> QED BY <2>1, <2>2, <2>3
<1>8. gone \subseteq v8' \cup UNION {v7'[d].deleted : d \in Editor}
  BY <1>7
<1>9. Editing!ShownIsStored'
  BY <1>8 DEF Editing!ShownIsStored
<1> QED BY <1>3, <1>4, <1>6, <1>9 DEF EditorialInv

\* What a call knows at a step.
LEMMA AtStep ==
  ASSUME EditorialInv, NEW e \in Editor, NEW step, ~Editing!Idle(e), Editing!At(e, step)
  PROVE  /\ v7[e] \in EditRecord /\ v7[e].steps \in Seq(Steps) /\ v7[e].steps # <<>>
         /\ v7[e].steps[1] = step /\ 1 \in 1 .. Len(v7[e].steps) /\ Len(v7[e].steps) \in Nat
         /\ v7[e].own \in BOOLEAN /\ v7[e].children \subseteq Child
         /\ v7[e].image \in File \cup {NoFile}
         /\ v7[e].deleted \subseteq Child \cup {"main"}
         /\ Planned(v7[e].steps, v7[e].own, v7[e].deleted)
         /\ Covered(v7[e].steps, v7[e].own, v7[e].children, v7[e].deleted)
         /\ Backed(v7[e], v3, v4, v5)
<1>1. v7[e] \in EditRecord
  BY EditorialFacts
<1>2. /\ v7[e].steps \in Seq(Steps) /\ v7[e].own \in BOOLEAN /\ v7[e].children \subseteq Child
      /\ v7[e].image \in File \cup {NoFile} /\ v7[e].deleted \subseteq Child \cup {"main"}
  BY <1>1 DEF EditRecord
<1>3. PlanHolds(v7[e]) /\ Backed(v7[e], v3, v4, v5)
  BY DEF EditorialInv
<1>4. v7[e] # Editing!NoEdit /\ Head(v7[e].steps) = step
  BY DEF Editing!At, Editing!Idle
<1>5. v7[e].steps # <<>>
  BY <1>3, <1>4 DEF Backed
<1>6. /\ Len(v7[e].steps) \in Nat /\ 1 \in 1 .. Len(v7[e].steps)
      /\ v7[e].steps[1] = step
  <2>1. PICK s : s = v7[e].steps
    OBVIOUS
  <2>2. s \in Seq(Steps) /\ s # <<>> /\ Head(s) = step
    BY <1>2, <1>4, <1>5, <2>1
  <2>3. Len(s) \in Nat \ {0} /\ s[1] = step
    BY <2>2
  <2> QED BY <2>1, <2>3
<1> QED BY <1>1, <1>2, <1>3, <1>5, <1>6 DEF PlanHolds

\* A step that gives no file away leaves a call over, or with a plan that holds.
LEMMA GoesOn ==
  ASSUME EditorialInv, NEW e \in Editor, NEW step, ~Editing!Idle(e), Editing!At(e, step),
         step \notin {"unfile", "unstore", "upload"},
         NEW changed \in EditRecord, Editing!Advanced(e, changed),
         changed.own = v7[e].own, changed.deleted = v7[e].deleted, changed.image = v7[e].image
  PROVE  \E new \in EditRecord :
           /\ v7' = [v7 EXCEPT ![e] = new] /\ PlanHolds(new)
           /\ \/ Len(v7[e].steps) = 1 /\ new = Editing!NoEdit
              \/ /\ Len(v7[e].steps) # 1 /\ new.steps # <<>> /\ new.steps[1] # "insert"
                 /\ new.own = v7[e].own /\ new.deleted = v7[e].deleted
                 /\ new.image = v7[e].image /\ new.children = changed.children
                 /\ Pending(new) => Pending(v7[e])
                 /\ new.steps[Len(new.steps)] = v7[e].steps[Len(v7[e].steps)]
<1>1. PICK s : s = v7[e].steps
  OBVIOUS
<1>2. /\ s \in Seq(Steps) /\ s # <<>> /\ s[1] = step /\ 1 \in 1 .. Len(s) /\ Len(s) \in Nat
      /\ Planned(s, changed.own, changed.deleted)
      /\ Covered(s, changed.own, v7[e].children, changed.deleted) /\ changed.own \in BOOLEAN
  BY <1>1, AtStep
<1>3. CASE Len(s) = 1
  <2>1. v7' = [v7 EXCEPT ![e] = Editing!NoEdit]
    BY <1>1, <1>3 DEF Editing!Advanced
  <2> QED BY <1>1, <1>3, <2>1, NoEditHolds
<1>4. CASE Len(s) # 1
  <2>1. PICK new : new = [changed EXCEPT !.steps = Tail(s)]
    OBVIOUS
  <2>2. v7' = [v7 EXCEPT ![e] = new]
    BY <1>1, <1>4, <2>1 DEF Editing!Advanced
  <2>3. PICK t : t = Tail(s)
    OBVIOUS
  <2>4. /\ t \in Seq(Steps) /\ Len(t) = Len(s) - 1 /\ t # <<>> /\ Len(s) > 1
        /\ \A i \in 1 .. Len(s) - 1 : t[i] = s[i + 1]
    BY <1>2, <1>4, <2>3, TailOf
  <2>5. /\ new \in EditRecord /\ new.steps = t /\ new.own = changed.own
        /\ new.deleted = changed.deleted /\ new.image = changed.image
        /\ new.children = changed.children
    BY <2>1, <2>3, <2>4 DEF EditRecord
  <2>6. Planned(t, changed.own, changed.deleted)
        /\ Covered(t, changed.own, new.children, changed.deleted)
    BY <1>2, <1>4, <2>3, PlanGoesOn
  <2>7. PlanHolds(new)
    BY <2>5, <2>6 DEF PlanHolds
  <2>8. t[1] = s[2] /\ t[Len(t)] = s[Len(s)] /\ 2 \in 1 .. Len(s)
    BY <1>2, <2>4
  <2>9. t[1] # "insert"
    BY <1>2, <2>8 DEF Planned
  <2>10. Pending(new) => Pending(v7[e])
    BY <1>1, <1>2, <2>5, <2>8, <2>9 DEF Pending
  <2> QED BY <1>1, <1>4, <2>2, <2>4, <2>5, <2>7, <2>8, <2>9, <2>10
<1> QED BY <1>3, <1>4

\* A plan that a call may begin with.
Startable(s) ==
  s \in Seq(Steps) /\ s # <<>> /\ Planned(s, FALSE, {})

LEMMA OptIs ==
  ASSUME NEW condition, NEW step \in Steps
  PROVE  LET o == Editing!Opt(condition, step)
         IN  /\ o \in Seq(Steps) /\ Len(o) \in {0, 1}
             /\ Len(o) = 0 <=> ~condition
             /\ Len(o) = 1 => o[1] = step
BY DEF Editing!Opt

\* The steps that replace the children.
Replacing(r) == r \in Seq(Steps) /\ \A i \in 1 .. Len(r) : r[i] \in {"clear", "make"}

LEMMA ReplacedIs ==
  ASSUME NEW given
  PROVE  Replacing(Editing!Replaced(given))
<1>1. PICK c, k : c = Editing!Opt(given # "nothing", "clear") /\ k = Editing!Opt(given = "some", "make")
  OBVIOUS
<1>2. "clear" \in Steps /\ "make" \in Steps
  BY DEF Steps, Editing!Step
<1>3. /\ c \in Seq(Steps) /\ Len(c) \in {0, 1} /\ (Len(c) = 1 => c[1] = "clear")
      /\ k \in Seq(Steps) /\ Len(k) \in {0, 1} /\ (Len(k) = 1 => k[1] = "make")
  BY <1>1, <1>2, OptIs
<1>4. PICK u : u = c \o k
  OBVIOUS
<1>5. /\ u \in Seq(Steps) /\ Len(u) = Len(c) + Len(k)
      /\ \A i \in 1 .. Len(c) : u[i] = c[i]
      /\ \A i \in 1 .. Len(k) : u[Len(c) + i] = k[i]
  BY <1>3, <1>4, Joined
<1>6. ASSUME NEW i \in 1 .. Len(u) PROVE u[i] \in {"clear", "make"}
  <2>1. CASE i \in 1 .. Len(c)
    BY <1>3, <1>5, <2>1
  <2>2. CASE i \notin 1 .. Len(c)
    <3>1. i = Len(c) + 1 /\ Len(k) = 1
      BY <1>3, <1>5, <2>2
    <3> QED BY <1>3, <1>5, <3>1
  <2> QED BY <2>1, <2>2
<1> QED BY <1>1, <1>4, <1>5, <1>6 DEF Replacing, Editing!Replaced

LEMMA ArticlePlan ==
  ASSUME NEW a \in {<<>>, <<"unfile", "upload">>}, NEW r, Replacing(r)
  PROVE  LET s == a \o r \o <<"save">> IN Startable(s) /\ s[1] # "insert"
<1>1. PICK b : b = a \o r
  OBVIOUS
<1>2. PICK s : s = b \o <<"save">>
  OBVIOUS
<1>3. PICK z : z = <<"save">>
  OBVIOUS
<1>4. /\ a \in Seq(Steps) /\ z \in Seq(Steps) /\ Len(z) = 1 /\ z[1] = "save"
      /\ (Len(a) = 0 \/ (Len(a) = 2 /\ a[1] = "unfile" /\ a[2] = "upload"))
  <2>1. z \in Seq(Steps) /\ Len(z) = 1 /\ z[1] = "save"
    BY <1>3 DEF Steps, Editing!Step
  <2>2. CASE a = <<>>
    <3>1. a \in Seq(Steps) /\ Len(a) = 0
      BY <2>2
    <3> QED BY <2>1, <3>1
  <2>3. CASE a = <<"unfile", "upload">>
    <3>1. a \in Seq(Steps) /\ Len(a) = 2 /\ a[1] = "unfile" /\ a[2] = "upload"
      BY <2>3 DEF Steps, Editing!Step
    <3> QED BY <2>1, <3>1
  <2> QED BY <2>2, <2>3
<1>5. r \in Seq(Steps) /\ Len(r) \in Nat
  BY DEF Replacing
<1>6. /\ b \in Seq(Steps) /\ Len(b) = Len(a) + Len(r)
      /\ \A i \in 1 .. Len(a) : b[i] = a[i]
      /\ \A i \in 1 .. Len(r) : b[Len(a) + i] = r[i]
  BY <1>1, <1>4, <1>5, Joined
<1>7. /\ s \in Seq(Steps) /\ Len(s) = Len(b) + 1
      /\ \A i \in 1 .. Len(b) : s[i] = b[i]
      /\ s[Len(s)] = "save"
  <2>1. /\ s \in Seq(Steps) /\ Len(s) = Len(b) + Len(z)
        /\ \A i \in 1 .. Len(b) : s[i] = b[i]
        /\ \A i \in 1 .. Len(z) : s[Len(b) + i] = z[i]
    <3>1. b \in Seq(Steps) /\ z \in Seq(Steps)
      BY <1>4, <1>6
    <3>2. s = b \o z
      BY <1>2, <1>3
    <3> QED BY <3>1, <3>2, Joined
  <2>2. 1 \in 1 .. Len(z) /\ Len(s) = Len(b) + 1
    BY <1>4, <2>1
  <2> QED BY <1>4, <2>1, <2>2
<1>71. PICK l, n : l = Len(a) /\ n = Len(r)
  OBVIOUS
<1>72. l \in {0, 2} /\ n \in Nat /\ Len(b) = l + n /\ Len(s) = l + n + 1
  BY <1>4, <1>5, <1>6, <1>7, <1>71
<1>8. ASSUME NEW i \in 1 .. Len(s)
      PROVE  \/ i = Len(s) /\ s[i] = "save"
             \/ i < Len(s) /\ s[i] \in {"clear", "make"}
             \/ i = 1 /\ s[i] = "unfile" /\ s[2] = "upload" /\ Len(s) > 2
             \/ i = 2 /\ s[i] = "upload" /\ s[1] = "unfile" /\ Len(s) > 2
  <2>1. CASE i = Len(s)
    BY <1>7, <2>1
  <2>2. CASE i \in 1 .. Len(a)
    <3>1. Len(a) = 2 /\ a[1] = "unfile" /\ a[2] = "upload" /\ i \in {1, 2}
      <4>1. l = 2 /\ i \in {1, 2}
        BY <1>71, <1>72, <2>2
      <4> QED BY <1>4, <1>71, <4>1
    <3>2. /\ 1 \in 1 .. Len(a) /\ 2 \in 1 .. Len(a) /\ Len(b) = 2 + Len(r)
          /\ 1 \in 1 .. Len(b) /\ 2 \in 1 .. Len(b) /\ Len(s) > 2
      BY <1>71, <1>72, <3>1
    <3>3. s[1] = "unfile" /\ s[2] = "upload"
      BY <1>6, <1>7, <3>1, <3>2
    <3> QED BY <3>1, <3>2, <3>3
  <2>3. CASE i # Len(s) /\ i \notin 1 .. Len(a)
    <3>1. PICK k \in 1 .. Len(r) : i = Len(a) + k
      <4>1. i - Len(a) \in 1 .. Len(r) /\ i = Len(a) + (i - Len(a))
        <5>1. Len(a) \in Nat /\ i \in Nat /\ Len(s) = Len(a) + Len(r) + 1 /\ i > Len(a) /\ i < Len(s)
          BY <1>71, <1>72, <2>3
        <5> QED BY <1>5, <5>1
      <4> QED BY <4>1
    <3>2. Len(a) \in Nat /\ i \in 1 .. Len(b) /\ i < Len(s)
      BY <1>71, <1>72, <2>3
    <3>3. s[i] = r[k]
      BY <1>6, <1>7, <3>1, <3>2
    <3> QED BY <3>2, <3>3 DEF Replacing
  <2> QED BY <2>1, <2>2, <2>3
<1>9. Len(s) \in Nat /\ Len(s) >= 1 /\ s # <<>>
  BY <1>5, <1>4, <1>6, <1>7
<1>10. Planned(s, FALSE, {})
  BY <1>7, <1>8, <1>9 DEF Planned
<1>11. s[1] # "insert"
  BY <1>8, <1>9
<1> QED BY <1>1, <1>2, <1>7, <1>9, <1>10, <1>11 DEF Startable

LEMMA SectionPlan ==
  ASSUME NEW r, Replacing(r)
  PROVE  LET s == <<"save">> \o r IN Startable(s) /\ s[1] # "insert"
<1>1. PICK z : z = <<"save">>
  OBVIOUS
<1>2. PICK s : s = z \o r
  OBVIOUS
<1>3. z \in Seq(Steps) /\ Len(z) = 1 /\ z[1] = "save" /\ r \in Seq(Steps) /\ Len(r) \in Nat
  BY <1>1 DEF Steps, Editing!Step, Replacing
<1>4. /\ s \in Seq(Steps) /\ Len(s) = Len(z) + Len(r)
      /\ \A i \in 1 .. Len(z) : s[i] = z[i]
      /\ \A i \in 1 .. Len(r) : s[Len(z) + i] = r[i]
  <2>1. z \in Seq(Steps) /\ r \in Seq(Steps)
    BY <1>3
  <2> QED BY <1>2, <2>1, Joined
<1>5. s[1] = "save" /\ Len(s) = 1 + Len(r) /\ s # <<>>
  BY <1>3, <1>4
<1>6. ASSUME NEW i \in 1 .. Len(s), i # 1 PROVE s[i] \in {"clear", "make"}
  <2>1. PICK k \in 1 .. Len(r) : i = Len(z) + k
    <3>1. i - 1 \in 1 .. Len(r) /\ i = Len(z) + (i - 1)
      BY <1>3, <1>5, <1>6
    <3> QED BY <3>1
  <2>2. s[i] = r[k]
    BY <1>4, <2>1
  <2> QED BY <2>2 DEF Replacing
<1>7. Planned(s, FALSE, {})
  BY <1>5, <1>6 DEF Planned
<1> QED BY <1>1, <1>2, <1>4, <1>5, <1>7 DEF Startable

\* One step, or another one before it.
LEMMA ShortPlan ==
  ASSUME NEW condition, NEW first \in Steps, NEW step \in Steps,
         \/ first = "unfile" /\ step = "drop"
         \/ first = "unstore" /\ step \in {"remove", "clear"}
  PROVE  LET s == Editing!Opt(condition, first) \o <<step>> IN Startable(s) /\ s[1] # "insert"
<1>1. PICK z : z = <<step>>
  OBVIOUS
<1>2. PICK o : o = Editing!Opt(condition, first)
  OBVIOUS
<1>3. PICK s : s = o \o z
  OBVIOUS
<1>4. /\ z \in Seq(Steps) /\ Len(z) = 1 /\ z[1] = step
      /\ o \in Seq(Steps) /\ Len(o) \in {0, 1} /\ (Len(o) = 1 => o[1] = first)
  BY <1>1, <1>2, OptIs
<1>5. /\ s \in Seq(Steps) /\ Len(s) = Len(o) + Len(z)
      /\ \A i \in 1 .. Len(o) : s[i] = o[i]
      /\ \A i \in 1 .. Len(z) : s[Len(o) + i] = z[i]
  <2>1. o \in Seq(Steps) /\ z \in Seq(Steps)
    BY <1>4
  <2> QED BY <1>3, <2>1, Joined
<1>6. \/ Len(s) = 1 /\ s[1] = step
      \/ Len(s) = 2 /\ s[1] = first /\ s[2] = step
  <2>1. CASE Len(o) = 0
    BY <1>4, <1>5, <2>1
  <2>2. CASE Len(o) = 1
    <3>1. 1 \in 1 .. Len(o) /\ 1 \in 1 .. Len(z) /\ Len(o) + 1 = 2
      BY <1>4, <2>2
    <3> QED BY <1>4, <1>5, <2>2, <3>1
  <2> QED BY <1>4, <2>1, <2>2
<1>7. s # <<>>
  BY <1>6
<1>8. Planned(s, FALSE, {})
  BY <1>6 DEF Planned
<1> QED BY <1>1, <1>2, <1>3, <1>5, <1>6, <1>7, <1>8 DEF Startable

LEMMA SinglePlan ==
  ASSUME NEW step \in {"save", "add", "change"}
  PROVE  Startable(<<step>>) /\ <<step>>[1] # "insert"
<1>1. PICK s : s = <<step>>
  OBVIOUS
<1>2. s \in Seq(Steps) /\ Len(s) = 1 /\ s[1] = step /\ s # <<>>
  BY <1>1 DEF Steps, Editing!Step
<1>3. Planned(s, FALSE, {})
  BY <1>2 DEF Planned
<1> QED BY <1>1, <1>2, <1>3 DEF Startable

LEMMA CreatePlan ==
  ASSUME NEW files, NEW some
  PROVE  Startable(Editing!Opt(files, "upload") \o <<"insert">> \o Editing!Opt(some, "make"))
<1>1. PICK o, z, k : o = Editing!Opt(files, "upload") /\ z = <<"insert">> /\ k = Editing!Opt(some, "make")
  OBVIOUS
<1>2. PICK b : b = o \o z
  OBVIOUS
<1>3. PICK s : s = b \o k
  OBVIOUS
<1>4. /\ z \in Seq(Steps) /\ Len(z) = 1 /\ z[1] = "insert"
      /\ o \in Seq(Steps) /\ Len(o) \in {0, 1} /\ (Len(o) = 1 => o[1] = "upload")
      /\ k \in Seq(Steps) /\ Len(k) \in {0, 1} /\ (Len(k) = 1 => k[1] = "make")
  <2>1. {"upload", "make", "insert"} \subseteq Steps
    BY DEF Steps, Editing!Step
  <2> QED BY <1>1, <2>1, OptIs
<1>5. /\ b \in Seq(Steps) /\ Len(b) = Len(o) + Len(z)
      /\ \A i \in 1 .. Len(o) : b[i] = o[i]
      /\ \A i \in 1 .. Len(z) : b[Len(o) + i] = z[i]
  BY <1>2, <1>4, Joined
<1>6. /\ s \in Seq(Steps) /\ Len(s) = Len(b) + Len(k)
      /\ \A i \in 1 .. Len(b) : s[i] = b[i]
      /\ \A i \in 1 .. Len(k) : s[Len(b) + i] = k[i]
  <2>1. b \in Seq(Steps) /\ k \in Seq(Steps)
    BY <1>4, <1>5
  <2> QED BY <1>3, <2>1, Joined
<1>7. b[Len(b)] = "insert" /\ Len(b) \in {1, 2} /\ (Len(b) = 2 => b[1] = "upload")
  <2>1. 1 \in 1 .. Len(z) /\ (Len(o) = 1 => 1 \in 1 .. Len(o))
    BY <1>4
  <2> QED BY <1>4, <1>5, <2>1
<1>8. \/ Len(s) = Len(b) /\ s[Len(s)] = "insert"
      \/ Len(s) = Len(b) + 1 /\ s[Len(s)] = "make" /\ s[Len(b)] = "insert"
  <2>1. Len(b) \in 1 .. Len(b) /\ (Len(k) = 1 => 1 \in 1 .. Len(k))
    BY <1>4, <1>7
  <2> QED BY <1>4, <1>6, <1>7, <2>1
<1>9. Len(b) = 2 => s[1] = "upload"
  BY <1>6, <1>7
<1>10. s # <<>>
  BY <1>7, <1>8
<1>11. Planned(s, FALSE, {})
  <2> SUFFICES ASSUME NEW i \in 1 .. Len(s)
               PROVE  \/ s[i] = "make"
                      \/ /\ s[i] = "insert" /\ s[Len(s)] \in {"insert", "make"}
                         /\ i = 1 \/ (i = 2 /\ s[1] = "upload")
                      \/ s[i] = "upload" /\ i = 1 /\ i < Len(s) /\ s[2] = "insert"
    BY DEF Planned
  <2> QED BY <1>7, <1>8, <1>9
<1> QED BY <1>1, <1>2, <1>3, <1>6, <1>10, <1>11 DEF Startable

\* What a call may begin with: it knows the image, and rows that are there.
LEMMA EditorialBegins ==
  ASSUME EditorialInv, NEW e \in Editor, Editing!Idle(e), NEW s, Startable(s), NEW children,
         children \subseteq Editing!Live, s[1] = "insert" => v2 = "unused",
         Editing!Begin(e, s, children)
  PROVE  EditorialInv'
<1>1. PICK new : new = [Editing!NoEdit EXCEPT !.steps = s, !.children = children, !.image = v3]
  OBVIOUS
<1>2. /\ v7' = [v7 EXCEPT ![e] = new] /\ v1' = v1 /\ v2' = v2 /\ v3' = v3 /\ v4' = v4 /\ v5' = v5
      /\ v6' = v6 /\ v8' = v8 /\ v7[e] = Editing!NoEdit
  BY <1>1 DEF Editing!Begin, Editing!Idle
<1>3. children \subseteq Child /\ \A x \in children : v4[x] # "unused"
  BY DEF Editing!Live
<1>4. s \in Seq(Steps) /\ s # <<>> /\ Planned(s, FALSE, {})
  BY DEF Startable
<1>5. /\ new.steps = s /\ new.children = children /\ new.image = v3 /\ new.own = FALSE
      /\ new.deleted = {} /\ new \in EditRecord
  BY <1>1, <1>3, <1>4, EditorialFacts DEF Editing!NoEdit, EditRecord
<1>6. PlanHolds(new) /\ ~Pending(new)
  BY <1>4, <1>5 DEF PlanHolds, Pending, Covered
<1>7. ImagesHold
  BY DEF EditorialInv
<1>8. Backed(new, v3, v4, v5)
  BY <1>3, <1>4, <1>5, <1>6, <1>7 DEF Backed, ImagesHold
<1>9. Editing!Missing' = Editing!Missing
  BY <1>2 DEF Editing!Missing
<1>10. \A d \in Editor : Pending(v7[d]) => v5[v7[d].image] = "live" /\ v3 # v7[d].image
  BY DEF EditorialInv, Backed
<1>11. v7[e].deleted = {}
  BY <1>2, NoEditHolds
<1>12. PICK m, ch, fl, gone : m = v3' /\ ch = v4' /\ fl = v5' /\ gone = Editing!Missing'
  OBVIOUS
<1>13. /\ v2' \in Editing!State /\ m \in File \cup {NoFile} /\ ch \in [Child -> Editing!State]
       /\ fl \in [File -> Editing!State] /\ v6' \subseteq Child /\ v8' \subseteq Child \cup {"main"}
  BY <1>2, <1>12, EditorialFacts
<1>14. /\ \A f \in File : v5[f] # "unused" => fl[f] # "unused"
       /\ \A x \in Child : v4[x] # "unused" => ch[x] # "unused"
       /\ m \in File => fl[m] # "unused"
       /\ v2' = "unused" => m = NoFile
       /\ \A x \in v6' : ch[x] # "unused"
  BY <1>2, <1>7, <1>12 DEF ImagesHold
<1>15. \A d \in Editor \ {e} : Pending(v7[d]) =>
         fl[v7[d].image] = "live" /\ m # v7[d].image /\ new.image # v7[d].image
  BY <1>2, <1>5, <1>10, <1>12
<1>16. \A x \in gone : x \in Editing!Missing \ v7[e].deleted /\ (x \in v8 => x \in v8')
  BY <1>2, <1>9, <1>11, <1>12
<1>17. Moves(e, new, m, ch, fl)
  BY <1>2, <1>6, <1>8, <1>12, <1>13, <1>14, <1>15 DEF Moves
<1>18. LeftToIt(e, new, gone)
  BY <1>16 DEF LeftToIt
<1>19. Leaves(ch)
  <2>1. v1' = v1
    BY <1>2
  <2> QED BY <1>12, <1>13, <1>14, <2>1 DEF Leaves
<1> QED BY <1>2, <1>5, <1>12, <1>17, <1>18, <1>19, EditorialStep

EditingBegins(e) ==
  \/ Editing!Create(e) \/ Editing!UpdateArticle(e) \/ Editing!UpdateSection(e) \/ Editing!Toggle(e)
  \/ Editing!Remove(e) \/ Editing!AddChild(e) \/ Editing!AddUnchecked(e) \/ Editing!ChangeChild(e)
  \/ Editing!DeleteChild(e) \/ Editing!DeleteChildren(e)

LEMMA EditorialBegin ==
  ASSUME EditorialInv, NEW e \in Editor, Editing!Idle(e), EditingBegins(e)
  PROVE  EditorialInv'
<1>1. CASE Editing!Create(e)
  <2>1. PICK files \in BOOLEAN, given \in Editing!Given :
          Editing!Begin(e, Editing!Opt(files, "upload") \o <<"insert">>
                             \o Editing!Opt(given = "some", "make"), {})
    BY <1>1 DEF Editing!Create
  <2>2. v2 = "unused"
    BY <1>1 DEF Editing!Create
  <2> QED BY <2>1, <2>2, CreatePlan, EditorialBegins
<1>2. CASE Editing!UpdateArticle(e)
  <2>1. PICK image \in BOOLEAN, given \in Editing!Given :
          Editing!Begin(e, (IF image THEN <<"unfile", "upload">> ELSE <<>>)
                             \o Editing!Replaced(given) \o <<"save">>, Editing!Live)
    BY <1>2 DEF Editing!UpdateArticle
  <2>2. PICK a, r : a = (IF image THEN <<"unfile", "upload">> ELSE <<>>) /\ r = Editing!Replaced(given)
    OBVIOUS
  <2>3. a \in {<<>>, <<"unfile", "upload">>} /\ Replacing(r)
    BY <2>2, ReplacedIs
  <2>4. PICK s : s = a \o r \o <<"save">>
    OBVIOUS
  <2>5. Startable(s) /\ s[1] # "insert"
    BY <2>3, <2>4, ArticlePlan
  <2>6. Editing!Begin(e, s, Editing!Live)
    BY <2>1, <2>2, <2>4
  <2> QED BY <2>5, <2>6, EditorialBegins
<1>3. CASE Editing!UpdateSection(e)
  <2>1. PICK given \in Editing!Given :
          Editing!Begin(e, <<"save">> \o Editing!Replaced(given), Editing!Live)
    BY <1>3 DEF Editing!UpdateSection
  <2>2. PICK r : r = Editing!Replaced(given)
    OBVIOUS
  <2>3. PICK s : s = <<"save">> \o r
    OBVIOUS
  <2>4. Startable(s) /\ s[1] # "insert"
    BY <2>2, <2>3, ReplacedIs, SectionPlan
  <2>5. Editing!Begin(e, s, Editing!Live)
    BY <2>1, <2>2, <2>3
  <2> QED BY <2>4, <2>5, EditorialBegins
<1>4. CASE Editing!Toggle(e)
  <2>1. Editing!Begin(e, <<"save">>, Editing!Live)
    BY <1>4 DEF Editing!Toggle
  <2> QED BY <2>1, SinglePlan, EditorialBegins
<1>5. CASE Editing!Remove(e)
  <2>1. PICK s : s = Editing!Opt(v1 = "news", "unfile") \o <<"drop">>
    OBVIOUS
  <2>2. Editing!Begin(e, s, Editing!Live)
    BY <1>5, <2>1 DEF Editing!Remove
  <2>3. "unfile" \in Steps /\ "drop" \in Steps
    BY DEF Steps, Editing!Step
  <2>4. Startable(s) /\ s[1] # "insert"
    BY <2>1, <2>3, ShortPlan
  <2> QED BY <2>2, <2>4, EditorialBegins
<1>6. CASE Editing!AddChild(e) \/ Editing!AddUnchecked(e)
  <2>1. Editing!Begin(e, <<"add">>, {})
    BY <1>6 DEF Editing!AddChild, Editing!AddUnchecked
  <2> QED BY <2>1, SinglePlan, EditorialBegins
<1>7. CASE Editing!ChangeChild(e)
  <2>1. PICK c \in Editing!Live : Editing!Begin(e, <<"change">>, {c})
    BY <1>7 DEF Editing!ChangeChild
  <2>2. {c} \subseteq Editing!Live
    OBVIOUS
  <2> QED BY <2>1, <2>2, SinglePlan, EditorialBegins
<1>8. CASE Editing!DeleteChild(e)
  <2>1. PICK c \in Editing!Live, stored \in BOOLEAN :
          Editing!Begin(e, Editing!Opt(v1 = "section" /\ stored, "unstore") \o <<"remove">>, {c})
    BY <1>8 DEF Editing!DeleteChild
  <2>2. PICK s : s = Editing!Opt(v1 = "section" /\ stored, "unstore") \o <<"remove">>
    OBVIOUS
  <2>3. "unstore" \in Steps /\ "remove" \in Steps
    BY DEF Steps, Editing!Step
  <2>4. Startable(s) /\ s[1] # "insert"
    BY <2>2, <2>3, ShortPlan
  <2>5. Editing!Begin(e, s, {c}) /\ {c} \subseteq Editing!Live
    BY <2>1, <2>2
  <2> QED BY <2>4, <2>5, EditorialBegins
<1>9. CASE Editing!DeleteChildren(e)
  <2>1. PICK images \in SUBSET Editing!Live :
          Editing!Begin(e, Editing!Opt(images # {}, "unstore") \o <<"clear">>, images)
    BY <1>9 DEF Editing!DeleteChildren
  <2>2. PICK s : s = Editing!Opt(images # {}, "unstore") \o <<"clear">>
    OBVIOUS
  <2>3. "unstore" \in Steps /\ "clear" \in Steps
    BY DEF Steps, Editing!Step
  <2>4. Startable(s) /\ s[1] # "insert"
    BY <2>2, <2>3, ShortPlan
  <2>5. Editing!Begin(e, s, images) /\ images \subseteq Editing!Live
    BY <2>1, <2>2
  <2> QED BY <2>4, <2>5, EditorialBegins
<1> QED BY <1>1, <1>2, <1>3, <1>4, <1>5, <1>6, <1>7, <1>8, <1>9 DEF EditingBegins

\* What Missing is made of.
LEMMA MissingHas ==
  ASSUME NEW row, NEW m, NEW ch, NEW fl, NEW gone, NEW x
  PROVE  x \in Editing!MissingIn(row, m, ch, fl, gone) <=>
           \/ x = "main" /\ row = "live" /\ m \in File /\ fl[m] = "deleted"
           \/ x \in gone /\ ch[x] = "live"
BY DEF Editing!MissingIn

LEMMA MissingIs ==
  \A x : x \in Editing!Missing <=>
           \/ x = "main" /\ v2 = "live" /\ v3 \in File /\ v5[v3] = "deleted"
           \/ x \in v6 /\ v4[x] = "live"
BY MissingHas DEF Editing!Missing

LEMMA MissingNext ==
  ASSUME NEW gone, gone = Editing!Missing'
  PROVE  \A x : x \in gone <=>
           \/ x = "main" /\ v2' = "live" /\ v3' \in File /\ v5'[v3'] = "deleted"
           \/ x \in v6' /\ v4'[x] = "live"
<1>1. \A x : x \in Editing!Missing' <=>
           \/ x = "main" /\ v2' = "live" /\ v3' \in File /\ v5'[v3'] = "deleted"
           \/ x \in v6' /\ v4'[x] = "live"
  BY DEF Editing!Missing, Editing!MissingIn
<1> QED BY <1>1

\* What the other calls need of the rows and files, and what holds of these.
LEMMA EditorialRows ==
  ASSUME EditorialInv
  PROVE  /\ \A d \in Editor : Pending(v7[d]) =>
              v7[d].image \in File /\ v5[v7[d].image] = "live" /\ v3 # v7[d].image
         /\ \A d, q \in Editor : d # q /\ Pending(v7[d]) => v7[q].image # v7[d].image
         /\ v3 \in File => v5[v3] # "unused"
         /\ v2 = "unused" => v3 = NoFile
         /\ \A x \in v6 : x \in Child /\ v4[x] # "unused"
         /\ NoFile \notin File /\ "main" \notin Child
<1>1. NoFile \notin File /\ "main" \notin Child
  BY PlatformAssumption
<1>2. \A d \in Editor : Backed(v7[d], v3, v4, v5)
  BY DEF EditorialInv
<1>3. \A d \in Editor : Pending(v7[d]) =>
        v7[d].image \in File /\ v5[v7[d].image] = "live" /\ v3 # v7[d].image
  BY <1>2 DEF Backed
<1> QED BY <1>1, <1>3, EditorialFacts DEF EditorialInv, ImagesHold

\* An error, or a crash.
LEMMA EditorialFail ==
  ASSUME EditorialInv, NEW e \in Editor, Editing!Fail(e)
  PROVE  EditorialInv'
<1>1. PICK new : new = Editing!NoEdit
  OBVIOUS
<1>2. PICK m, ch, fl, gone : m = v3' /\ ch = v4' /\ fl = v5' /\ gone = Editing!Missing'
  OBVIOUS
<1>3. /\ v7' = [v7 EXCEPT ![e] = new] /\ v1' = v1 /\ v2' = v2 /\ v3' = v3 /\ v4' = v4
      /\ v5' = v5 /\ v6' = v6 /\ v8' = v8 \cup (v7[e].deleted \cap Editing!Missing)
  BY <1>1 DEF Editing!Fail
<1>4. gone = Editing!Missing
  BY <1>2, <1>3 DEF Editing!Missing
<1>5. LeftToIt(e, new, gone)
  BY <1>3, <1>4 DEF LeftToIt
<1>6. /\ new \in EditRecord /\ PlanHolds(new) /\ ~Pending(new) /\ new.steps = <<>>
      /\ new.image = NoFile /\ new.children = {}
  BY <1>1, NoEditHolds
<1>7. Backed(new, m, ch, fl)
  BY <1>1, <1>6, PlatformAssumption DEF Backed
<1>8. Moves(e, new, m, ch, fl)
  <2>1. /\ m \in File \cup {NoFile} /\ ch \in [Child -> Editing!State] /\ fl \in [File -> Editing!State]
        /\ \A f \in File : v5[f] # "unused" => fl[f] # "unused"
        /\ \A x \in Child : v4[x] # "unused" => ch[x] # "unused"
        /\ m \in File => fl[m] # "unused"
    BY <1>2, <1>3, EditorialFacts, EditorialRows
  <2>2. \A d \in Editor \ {e} : Pending(v7[d]) =>
          fl[v7[d].image] = "live" /\ m # v7[d].image /\ new.image # v7[d].image
    BY <1>2, <1>3, <1>6, EditorialRows
  <2> QED BY <1>6, <1>7, <2>1, <2>2 DEF Moves
<1>9. Leaves(ch)
  <2>1. v7[e].deleted \subseteq Child \cup {"main"}
    BY EditorialFacts DEF EditRecord
  <2> QED BY <1>2, <1>3, <2>1, EditorialFacts, EditorialRows DEF Leaves
<1> QED BY <1>2, <1>3, <1>5, <1>6, <1>8, <1>9, EditorialStep

\* The step of a call that only moves on in its plan, or to its end.
LEMMA GoesOnHolds ==
  ASSUME EditorialInv, NEW e \in Editor, NEW step, ~Editing!Idle(e), Editing!At(e, step),
         step \notin {"unfile", "unstore", "upload"},
         NEW changed \in EditRecord, Editing!Advanced(e, changed),
         changed.own = v7[e].own, changed.deleted = v7[e].deleted, changed.image = v7[e].image,
         changed.children \subseteq v7[e].children,
         NEW m, m \in File \cup {NoFile}, NEW ch, ch \in [Child -> Editing!State], v5' = v5,
         \A x \in Child : v4[x] # "unused" => ch[x] # "unused",
         m = v3 \/ m = v7[e].image, m = v3 \/ Len(v7[e].steps) = 1 \/ ~Pending(v7[e]) \/ step = "insert"
  PROVE  \E new \in EditRecord :
           /\ v7' = [v7 EXCEPT ![e] = new] /\ Moves(e, new, m, ch, v5)
           /\ \/ Len(v7[e].steps) = 1 /\ new = Editing!NoEdit
              \/ Len(v7[e].steps) # 1 /\ new.deleted = v7[e].deleted
<1>1. PICK new \in EditRecord :
           /\ v7' = [v7 EXCEPT ![e] = new] /\ PlanHolds(new)
           /\ \/ Len(v7[e].steps) = 1 /\ new = Editing!NoEdit
              \/ /\ Len(v7[e].steps) # 1 /\ new.steps # <<>> /\ new.steps[1] # "insert"
                 /\ new.own = v7[e].own /\ new.deleted = v7[e].deleted
                 /\ new.image = v7[e].image /\ new.children = changed.children
                 /\ Pending(new) => Pending(v7[e])
                 /\ new.steps[Len(new.steps)] = v7[e].steps[Len(v7[e].steps)]
  BY GoesOn
<1>2. PICK c : c = v7[e]
  OBVIOUS
<1>3. /\ c \in EditRecord /\ Backed(c, v3, v4, v5) /\ c.children \subseteq Child
      /\ Planned(c.steps, c.own, c.deleted) /\ c.steps[1] = step /\ 1 \in 1 .. Len(c.steps)
      /\ c.image \in File \cup {NoFile}
  BY <1>2, AtStep
<1>4. c.image \in File => v5[c.image] # "unused"
  BY <1>3 DEF Backed
<1>5. ~Pending(new) \/ (Pending(c) /\ new.image = c.image /\ m = v3)
  <2>1. CASE new = Editing!NoEdit
    BY <2>1, NoEditHolds
  <2>2. CASE new # Editing!NoEdit /\ Pending(new)
    <3>1. Pending(c) /\ Len(c.steps) # 1 /\ new.image = c.image
      BY <1>1, <1>2, <2>2
    <3>2. new.steps[Len(new.steps)] = "save"
      BY <1>1, <2>2 DEF Pending
    <3>3. c.steps[Len(c.steps)] = "save"
      BY <1>1, <1>2, <2>2, <3>2
    <3>4. step # "insert"
      BY <1>3, <3>3 DEF Planned
    <3> QED BY <1>2, <3>1, <3>4
  <2> QED BY <2>1, <2>2
<1>6. Backed(new, m, ch, v5)
  <2>1. CASE new = Editing!NoEdit
    BY <2>1, NoEditHolds, PlatformAssumption DEF Backed
  <2>2. CASE new # Editing!NoEdit
    <3>1. /\ new.steps # <<>> /\ new.steps[1] # "insert" /\ new.image = c.image
          /\ new.children \subseteq c.children
      BY <1>1, <1>2, <2>2
    <3>2. Pending(new) => new.image \in File /\ v5[new.image] = "live" /\ m # new.image
      BY <1>3, <1>5 DEF Backed
    <3>3. \A x \in c.children : v4[x] # "unused"
      BY <1>3 DEF Backed
    <3> QED BY <1>3, <1>4, <3>1, <3>2, <3>3 DEF Backed
  <2> QED BY <2>1, <2>2
<1>7. new.image \in {c.image, NoFile}
  BY <1>1, <1>2, NoEditHolds
<1>8. \A d \in Editor \ {e} : Pending(v7[d]) =>
        v5[v7[d].image] = "live" /\ m # v7[d].image /\ new.image # v7[d].image
  BY <1>2, <1>7, EditorialRows
<1>9. \A d \in Editor \ {e} : Pending(new) => v7[d].image # new.image
  BY <1>2, <1>5, EditorialRows
<1>10. m \in File => v5[m] # "unused"
  BY <1>2, <1>4, EditorialRows
<1>11. Moves(e, new, m, ch, v5)
  BY <1>1, <1>6, <1>8, <1>9, <1>10, EditorialFacts DEF Moves
<1> QED BY <1>1, <1>11

\* The end of a plan finds nothing shown any more of what the call deleted.
LEMMA LeftAtEnd ==
  ASSUME EditorialInv, NEW e \in Editor, NEW step, ~Editing!Idle(e), Editing!At(e, step),
         step \notin {"unfile", "unstore", "upload"}, NEW new \in EditRecord,
         \/ Len(v7[e].steps) = 1 /\ new = Editing!NoEdit
         \/ Len(v7[e].steps) # 1 /\ new.deleted = v7[e].deleted,
         NEW gone, \A x \in gone : x \in v8' \/ (x \in Editing!Missing /\ (x \in v8 => x \in v8')),
         Len(v7[e].steps) = 1 /\ step = "drop" => "main" \notin gone,
         Len(v7[e].steps) = 1 /\ step = "save" /\ v7[e].own => "main" \notin gone,
         Len(v7[e].steps) = 1 /\ step \in {"clear", "remove"} =>
           \A x \in v7[e].children : x \notin gone
  PROVE  LeftToIt(e, new, gone)
<1>1. PICK c : c = v7[e]
  OBVIOUS
<1>2. c.steps[1] = step /\ Covered(c.steps, c.own, c.children, c.deleted)
  BY <1>1, AtStep
<1>3. CASE Len(c.steps) # 1
  BY <1>1, <1>3 DEF LeftToIt
<1>4. CASE Len(c.steps) = 1
  <2>1. c.steps[Len(c.steps)] = step
    BY <1>2, <1>4
  <2>2. \A x \in gone : x \notin c.deleted
    <3>1. CASE c.deleted = {}
      BY <3>1
    <3>2. CASE c.deleted = {"main"} /\ step = "drop"
      BY <1>1, <1>4, <3>2
    <3>3. CASE c.deleted = {"main"} /\ step = "save" /\ c.own
      BY <1>1, <1>4, <3>3
    <3>4. CASE c.deleted \subseteq c.children /\ step \in {"clear", "remove"}
      BY <1>1, <1>4, <3>4
    <3> QED BY <1>2, <2>1, <3>1, <3>2, <3>3, <3>4 DEF Covered
  <2> QED BY <1>1, <2>2 DEF LeftToIt
<1> QED BY <1>3, <1>4

LEMMA StepOther ==
  "insert" \notin {"unfile", "unstore", "upload"} /\ "clear" \notin {"unfile", "unstore", "upload"}
  /\ "make" \notin {"unfile", "unstore", "upload"} /\ "add" \notin {"unfile", "unstore", "upload"}
  /\ "save" \notin {"unfile", "unstore", "upload"} /\ "change" \notin {"unfile", "unstore", "upload"}
  /\ "remove" \notin {"unfile", "unstore", "upload"} /\ "drop" \notin {"unfile", "unstore", "upload"}
OBVIOUS

\* The steps that change rows, put together.
LEMMA EditorialRow ==
  ASSUME EditorialInv, NEW e \in Editor, NEW step, ~Editing!Idle(e), Editing!At(e, step),
         step \notin {"unfile", "unstore", "upload"},
         NEW changed \in EditRecord, Editing!Advanced(e, changed),
         changed.own = v7[e].own, changed.deleted = v7[e].deleted, changed.image = v7[e].image,
         changed.children \subseteq v7[e].children,
         NEW m, m = v3', m \in File \cup {NoFile},
         NEW ch, ch = v4', ch \in [Child -> Editing!State], v5' = v5, v6' = v6,
         \A x \in Child : v4[x] # "unused" => ch[x] # "unused",
         m = v3 \/ m = v7[e].image, m = v3 \/ Len(v7[e].steps) = 1 \/ ~Pending(v7[e]) \/ step = "insert",
         NEW gone, gone = Editing!Missing',
         \A x \in gone : x \in v8' \/ (x \in Editing!Missing /\ (x \in v8 => x \in v8')),
         Len(v7[e].steps) = 1 /\ step = "drop" => "main" \notin gone,
         Len(v7[e].steps) = 1 /\ step = "save" /\ v7[e].own => "main" \notin gone,
         Len(v7[e].steps) = 1 /\ step \in {"clear", "remove"} =>
           \A x \in v7[e].children : x \notin gone,
         v1' = v1, v2' \in Editing!State, v2' # "unused" \/ (v2' = v2 /\ m = v3),
         v8' \subseteq Child \cup {"main"}
  PROVE  EditorialInv'
<1>1. PICK new \in EditRecord :
           /\ v7' = [v7 EXCEPT ![e] = new] /\ Moves(e, new, m, ch, v5)
           /\ \/ Len(v7[e].steps) = 1 /\ new = Editing!NoEdit
              \/ Len(v7[e].steps) # 1 /\ new.deleted = v7[e].deleted
  BY GoesOnHolds
<1>2. LeftToIt(e, new, gone)
  BY <1>1, LeftAtEnd
<1>3. Leaves(ch)
  BY EditorialFacts, EditorialRows DEF Leaves
<1> QED BY <1>1, <1>2, <1>3, EditorialStep

LEMMA SameEdit ==
  ASSUME EditorialInv, NEW e \in Editor, Editing!Advance(e)
  PROVE  /\ v7[e] \in EditRecord /\ Editing!Advanced(e, v7[e])
         /\ v7[e].children \subseteq v7[e].children
BY EditorialFacts DEF Editing!Advance

\* The children go.
LEMMA EditorialClear ==
  ASSUME EditorialInv, NEW e \in Editor, ~Editing!Idle(e), Editing!Clear(e)
  PROVE  EditorialInv'
<1>1. PICK m, ch, gone : m = v3' /\ ch = v4' /\ gone = Editing!Missing'
  OBVIOUS
<1>2. PICK changed : changed = [v7[e] EXCEPT !.children = {}]
  OBVIOUS
<1>3. /\ Editing!At(e, "clear") /\ Editing!Advanced(e, changed)
      /\ v1' = v1 /\ v2' = v2 /\ v3' = v3 /\ v5' = v5 /\ v6' = v6 /\ v8' = v8
      /\ ch = [c \in Child |-> IF v4[c] = "live" THEN "deleted" ELSE v4[c]]
  BY <1>1, <1>2 DEF Editing!Clear
<1>4. /\ changed \in EditRecord /\ changed.own = v7[e].own /\ changed.deleted = v7[e].deleted
      /\ changed.image = v7[e].image /\ changed.children = {}
  BY <1>2, <1>3, AtStep DEF EditRecord
<1>5. changed.children \subseteq v7[e].children
  BY <1>4
<1>6. m = v3 /\ m \in File \cup {NoFile}
  BY <1>1, <1>3, EditorialFacts
<1>7. /\ ch \in [Child -> Editing!State] /\ \A x \in Child : ch[x] # "live"
      /\ \A x \in Child : v4[x] # "unused" => ch[x] # "unused"
  BY <1>3, EditorialFacts DEF Editing!State
<1>8. \A x \in gone : x = "main" /\ v2 = "live" /\ v3 \in File /\ v5[v3] = "deleted"
  BY <1>1, <1>3, <1>7, MissingNext, EditorialRows
<1>9. \A x \in gone : x \in v8' \/ (x \in Editing!Missing /\ (x \in v8 => x \in v8'))
  BY <1>3, <1>8, MissingIs
<1>10. \A x \in v7[e].children : x \notin gone
  BY <1>3, <1>8, AtStep, EditorialRows
<1>11. v2' \in Editing!State /\ v8' \subseteq Child \cup {"main"} /\ v2' = v2
  BY <1>3, EditorialFacts
<1>12. "clear" \notin {"unfile", "unstore", "upload"} /\ "clear" # "drop" /\ "clear" # "save"
  OBVIOUS
<1> QED BY <1>1, <1>3, <1>4, <1>5, <1>6, <1>7, <1>9, <1>10, <1>11, <1>12, EditorialRow

LEMMA EditorialRemoveChild ==
  ASSUME EditorialInv, NEW e \in Editor, ~Editing!Idle(e), Editing!RemoveChild(e)
  PROVE  EditorialInv'
<1>1. PICK m, ch, gone : m = v3' /\ ch = v4' /\ gone = Editing!Missing'
  OBVIOUS
<1>2. PICK changed : changed = v7[e]
  OBVIOUS
<1>3. /\ Editing!At(e, "remove") /\ Editing!Advance(e)
      /\ v1' = v1 /\ v2' = v2 /\ v3' = v3 /\ v5' = v5 /\ v6' = v6 /\ v8' = v8
      /\ ch = [c \in Child |-> IF c \in Editing!Live \cap changed.children THEN "deleted" ELSE v4[c]]
  BY <1>1, <1>2 DEF Editing!RemoveChild
<1>4. /\ changed \in EditRecord /\ Editing!Advanced(e, changed)
      /\ changed.own = v7[e].own /\ changed.deleted = v7[e].deleted
      /\ changed.image = v7[e].image /\ changed.children \subseteq v7[e].children
      /\ changed.children \subseteq Child
  BY <1>2, <1>3, SameEdit, AtStep
<1>6. m = v3 /\ m \in File \cup {NoFile}
  BY <1>1, <1>3, EditorialFacts
<1>7. /\ ch \in [Child -> Editing!State] /\ \A x \in changed.children : ch[x] # "live"
      /\ \A x \in Child : v4[x] # "unused" => ch[x] # "unused"
      /\ \A x \in Child : ch[x] = "live" => v4[x] = "live"
  BY <1>3, <1>4, EditorialFacts DEF Editing!State, Editing!Live
<1>8. \A x \in gone : x \in Editing!Missing /\ x \notin changed.children
  BY <1>1, <1>3, <1>4, <1>7, MissingNext, MissingIs, EditorialRows
<1>9. \A x \in gone : x \in v8' \/ (x \in Editing!Missing /\ (x \in v8 => x \in v8'))
  BY <1>3, <1>8
<1>10. \A x \in v7[e].children : x \notin gone
  BY <1>2, <1>8
<1>11. v2' \in Editing!State /\ v8' \subseteq Child \cup {"main"} /\ v2' = v2
  BY <1>3, EditorialFacts
<1>12. "remove" \notin {"unfile", "unstore", "upload"} /\ "remove" # "drop" /\ "remove" # "save"
  OBVIOUS
<1> QED BY <1>1, <1>3, <1>4, <1>6, <1>7, <1>9, <1>10, <1>11, <1>12, EditorialRow

\* The parent goes, and all that is below it.
LEMMA EditorialDrop ==
  ASSUME EditorialInv, NEW e \in Editor, ~Editing!Idle(e), Editing!Drop(e)
  PROVE  EditorialInv'
<1>1. PICK m, ch, gone : m = v3' /\ ch = v4' /\ gone = Editing!Missing'
  OBVIOUS
<1>2. PICK changed : changed = v7[e]
  OBVIOUS
<1>3. /\ Editing!At(e, "drop") /\ Editing!Advance(e)
      /\ v1' = v1 /\ v2' = "deleted" /\ v3' = v3 /\ v5' = v5 /\ v6' = v6 /\ v8' = v8
      /\ ch = [c \in Child |-> IF v4[c] = "live" THEN "deleted" ELSE v4[c]]
  BY <1>1, <1>2 DEF Editing!Drop
<1>4. /\ changed \in EditRecord /\ Editing!Advanced(e, changed)
      /\ changed.own = v7[e].own /\ changed.deleted = v7[e].deleted
      /\ changed.image = v7[e].image /\ changed.children \subseteq v7[e].children
  BY <1>2, <1>3, SameEdit, AtStep
<1>6. m = v3 /\ m \in File \cup {NoFile}
  BY <1>1, <1>3, EditorialFacts
<1>7. /\ ch \in [Child -> Editing!State] /\ \A x \in Child : ch[x] # "live"
      /\ \A x \in Child : v4[x] # "unused" => ch[x] # "unused"
  BY <1>3, EditorialFacts DEF Editing!State
<1>8. gone = {}
  BY <1>1, <1>3, <1>7, MissingNext, EditorialRows
<1>9. /\ \A x \in gone : x \in v8' \/ (x \in Editing!Missing /\ (x \in v8 => x \in v8'))
      /\ "main" \notin gone
  BY <1>8
<1>11. v2' \in Editing!State /\ v8' \subseteq Child \cup {"main"} /\ v2' # "unused"
  BY <1>3, EditorialFacts DEF Editing!State
<1>12. "drop" \notin {"unfile", "unstore", "upload", "save", "clear", "remove"}
  OBVIOUS
<1> QED BY <1>1, <1>3, <1>4, <1>6, <1>7, <1>9, <1>11, <1>12, EditorialRow

\* A new child has lost nothing.
LEMMA EditorialNew ==
  ASSUME EditorialInv, NEW e \in Editor, NEW step \in {"make", "add"}, ~Editing!Idle(e),
         Editing!New(e, step)
  PROVE  EditorialInv'
<1>1. PICK m, ch, gone : m = v3' /\ ch = v4' /\ gone = Editing!Missing'
  OBVIOUS
<1>2. PICK changed : changed = v7[e]
  OBVIOUS
<1>3. /\ Editing!At(e, step) /\ Editing!Advance(e)
      /\ v1' = v1 /\ v2' = v2 /\ v3' = v3 /\ v5' = v5 /\ v6' = v6 /\ v8' = v8
  BY DEF Editing!New
<1>31. PICK k \in Child : v4[k] = "unused" /\ ch = [v4 EXCEPT ![k] = "live"]
  BY <1>1 DEF Editing!New
<1>4. /\ changed \in EditRecord /\ Editing!Advanced(e, changed)
      /\ changed.own = v7[e].own /\ changed.deleted = v7[e].deleted
      /\ changed.image = v7[e].image /\ changed.children \subseteq v7[e].children
  BY <1>2, <1>3, SameEdit, AtStep
<1>6. m = v3 /\ m \in File \cup {NoFile}
  BY <1>1, <1>3, EditorialFacts
<1>7. /\ ch \in [Child -> Editing!State]
      /\ \A x \in Child : v4[x] # "unused" => ch[x] # "unused"
      /\ \A x \in Child : x # k => ch[x] = v4[x]
  BY <1>31, EditorialFacts DEF Editing!State
<1>8. \A x \in gone : x \in Editing!Missing
  BY <1>1, <1>3, <1>31, <1>7, MissingNext, MissingIs, EditorialRows
<1>9. \A x \in gone : x \in v8' \/ (x \in Editing!Missing /\ (x \in v8 => x \in v8'))
  BY <1>3, <1>8
<1>11. v2' \in Editing!State /\ v8' \subseteq Child \cup {"main"} /\ v2' = v2
  BY <1>3, EditorialFacts
<1>12. step \notin {"unfile", "unstore", "upload", "drop", "save", "clear", "remove"}
  OBVIOUS
<1> QED BY <1>1, <1>3, <1>4, <1>6, <1>7, <1>9, <1>11, <1>12, EditorialRow

\* A child that was gone and is saved again is excused.
LEMMA EditorialChange ==
  ASSUME EditorialInv, NEW e \in Editor, ~Editing!Idle(e), Editing!Change(e)
  PROVE  EditorialInv'
<1>1. PICK m, ch, gone : m = v3' /\ ch = v4' /\ gone = Editing!Missing'
  OBVIOUS
<1>2. PICK changed : changed = v7[e]
  OBVIOUS
<1>3. /\ Editing!At(e, "change") /\ Editing!Advance(e)
      /\ v1' = v1 /\ v2' = v2 /\ v3' = v3 /\ v5' = v5 /\ v6' = v6
      /\ v8' = v8 \cup ((changed.children \ Editing!Live) \cap v6)
      /\ ch = [c \in Child |-> IF c \in changed.children THEN "live" ELSE v4[c]]
  BY <1>1, <1>2 DEF Editing!Change
<1>4. /\ changed \in EditRecord /\ Editing!Advanced(e, changed)
      /\ changed.own = v7[e].own /\ changed.deleted = v7[e].deleted
      /\ changed.image = v7[e].image /\ changed.children \subseteq v7[e].children
      /\ changed.children \subseteq Child
  BY <1>2, <1>3, SameEdit, AtStep
<1>6. m = v3 /\ m \in File \cup {NoFile}
  BY <1>1, <1>3, EditorialFacts
<1>7. /\ ch \in [Child -> Editing!State]
      /\ \A x \in Child : v4[x] # "unused" => ch[x] # "unused"
      /\ \A x \in Child : x \notin changed.children => ch[x] = v4[x]
  BY <1>3, EditorialFacts DEF Editing!State
<1>8. \A x \in gone : x \in v8' \/ x \in Editing!Missing
  <2> SUFFICES ASSUME NEW x \in gone PROVE x \in v8' \/ x \in Editing!Missing
    OBVIOUS
  <2>1. CASE x = "main" /\ v2' = "live" /\ v3' \in File /\ v5'[v3'] = "deleted"
    BY <1>3, <2>1, MissingIs
  <2>2. CASE x \in v6 /\ ch[x] = "live"
    <3>1. x \in Child
      BY <2>2, EditorialRows
    <3>2. CASE v4[x] = "live"
      BY <2>2, <3>2, MissingIs
    <3>3. CASE v4[x] # "live"
      <4>1. x \in changed.children /\ x \notin Editing!Live
        BY <1>7, <2>2, <3>1, <3>3 DEF Editing!Live
      <4> QED BY <1>3, <2>2, <4>1
    <3> QED BY <3>2, <3>3
  <2> QED BY <1>1, <1>3, <2>1, <2>2, MissingNext
<1>9. \A x \in gone : x \in v8' \/ (x \in Editing!Missing /\ (x \in v8 => x \in v8'))
  BY <1>3, <1>8
<1>11. v2' \in Editing!State /\ v8' \subseteq Child \cup {"main"} /\ v2' = v2
  BY <1>3, <1>4, EditorialFacts
<1>12. "change" \notin {"unfile", "unstore", "upload", "drop", "save", "clear", "remove"}
  OBVIOUS
<1> QED BY <1>1, <1>3, <1>4, <1>6, <1>7, <1>9, <1>11, <1>12, EditorialRow

\* The first article, with an image of the call's own or without one.
LEMMA EditorialInsert ==
  ASSUME EditorialInv, NEW e \in Editor, ~Editing!Idle(e), Editing!Insert(e)
  PROVE  EditorialInv'
<1>1. PICK m, ch, gone : m = v3' /\ ch = v4' /\ gone = Editing!Missing'
  OBVIOUS
<1>2. PICK changed : changed = v7[e]
  OBVIOUS
<1>3. /\ Editing!At(e, "insert") /\ Editing!Advance(e) /\ v2 = "unused"
      /\ v1' = v1 /\ v2' = "live" /\ m = changed.image /\ v5' = v5 /\ v6' = v6 /\ v8' = v8
  BY <1>1, <1>2 DEF Editing!Insert
<1>31. \/ ch = v4
       \/ \E k \in Child : v4[k] = "unused" /\ ch = [v4 EXCEPT ![k] = "live"]
  BY <1>1 DEF Editing!Insert
<1>4. /\ changed \in EditRecord /\ Editing!Advanced(e, changed)
      /\ changed.own = v7[e].own /\ changed.deleted = v7[e].deleted
      /\ changed.image = v7[e].image /\ changed.children \subseteq v7[e].children
      /\ changed.steps # <<>> /\ changed.steps[1] = "insert" /\ Backed(changed, v3, v4, v5)
      /\ changed.own \in BOOLEAN
  BY <1>2, <1>3, SameEdit, AtStep
<1>6. m = v7[e].image /\ m \in File \cup {NoFile}
  BY <1>2, <1>3, AtStep
<1>7. /\ ch \in [Child -> Editing!State]
      /\ \A x \in Child : v4[x] # "unused" => ch[x] # "unused"
      /\ \A x \in Child : v4[x] # "unused" => ch[x] = v4[x]
  <2>1. CASE ch = v4
    BY <2>1, EditorialFacts
  <2>2. CASE ch # v4
    <3>1. PICK k \in Child : v4[k] = "unused" /\ ch = [v4 EXCEPT ![k] = "live"]
      BY <1>31, <2>2
    <3> QED BY <3>1, EditorialFacts DEF Editing!State
  <2> QED BY <2>1, <2>2
<1>8. ~(m \in File /\ v5[m] = "deleted")
  <2>1. CASE changed.own
    <3>1. Pending(changed)
      BY <1>4, <2>1 DEF Pending
    <3> QED BY <1>3, <1>4, <3>1 DEF Backed
  <2>2. CASE ~changed.own
    BY <1>3, <1>4, <2>2, PlatformAssumption DEF Backed
  <2> QED BY <2>1, <2>2
<1>81. \A x \in gone : x \in Editing!Missing
  BY <1>1, <1>3, <1>7, <1>8, MissingNext, MissingIs, EditorialRows
<1>9. \A x \in gone : x \in v8' \/ (x \in Editing!Missing /\ (x \in v8 => x \in v8'))
  BY <1>3, <1>81
<1>11. v2' \in Editing!State /\ v8' \subseteq Child \cup {"main"} /\ v2' # "unused"
  BY <1>3, EditorialFacts DEF Editing!State
<1>12. "insert" \notin {"unfile", "unstore", "upload", "drop", "save", "clear", "remove"}
  OBVIOUS
<1> QED BY <1>1, <1>3, <1>4, <1>6, <1>7, <1>9, <1>11, <1>12, EditorialRow

\* What is saved again, and was gone, is excused.
LEMMA EditorialSave ==
  ASSUME EditorialInv, NEW e \in Editor, ~Editing!Idle(e), Editing!Save(e), Editing!Orphans(e) = {}
  PROVE  EditorialInv'
<1>1. PICK m, ch, gone : m = v3' /\ ch = v4' /\ gone = Editing!Missing'
  OBVIOUS
<1>2. PICK changed : changed = v7[e]
  OBVIOUS
<1>21. PICK stale : stale = Editing!MissingIn("live", changed.image, ch, v5, v6) \ Editing!Missing
  OBVIOUS
<1>3. /\ Editing!At(e, "save") /\ Editing!Advance(e)
      /\ v1' = v1 /\ v2' = "live" /\ m = changed.image /\ v5' = v5 /\ v6' = v6
      /\ v8' = (IF changed.own THEN v8 \ {"main"} ELSE v8) \cup stale
      /\ ch = [c \in Child |-> IF c \in changed.children THEN "live" ELSE v4[c]]
  BY <1>1, <1>2, <1>21 DEF Editing!Save
<1>4. /\ changed \in EditRecord /\ Editing!Advanced(e, changed)
      /\ changed.own = v7[e].own /\ changed.deleted = v7[e].deleted
      /\ changed.image = v7[e].image /\ changed.children \subseteq v7[e].children
      /\ changed.children \subseteq Child /\ changed.image \in File \cup {NoFile}
      /\ changed.steps # <<>> /\ changed.steps[1] = "save" /\ 1 \in 1 .. Len(changed.steps)
      /\ Planned(changed.steps, changed.own, changed.deleted)
      /\ Backed(changed, v3, v4, v5) /\ changed.own \in BOOLEAN
  BY <1>2, <1>3, SameEdit, AtStep
<1>5. changed.own => Len(changed.steps) = 1
  BY <1>4 DEF Planned
<1>6. /\ m = v7[e].image /\ m \in File \cup {NoFile}
      /\ Len(v7[e].steps) = 1 \/ ~Pending(v7[e])
  BY <1>2, <1>3, <1>4, <1>5 DEF Pending
<1>7. /\ ch \in [Child -> Editing!State]
      /\ \A x \in Child : v4[x] # "unused" => ch[x] # "unused"
  BY <1>3, EditorialFacts DEF Editing!State
<1>8. \A x \in gone : x \in Editing!MissingIn("live", changed.image, ch, v5, v6)
  BY <1>1, <1>3, MissingNext, MissingHas
<1>81. changed.own => "main" \notin gone
  <2>1. changed.own => Pending(changed)
    BY <1>4, <1>5 DEF Pending
  <2>2. changed.own => m \in File /\ v5[m] = "live"
    BY <1>3, <1>4, <2>1 DEF Backed
  <2>3. "main" \notin v6
    BY EditorialRows
  <2> QED BY <1>1, <1>3, <2>2, <2>3, MissingNext
<1>9. \A x \in gone : x \in v8' \/ (x \in Editing!Missing /\ (x \in v8 => x \in v8'))
  <2> SUFFICES ASSUME NEW x \in gone
               PROVE  x \in v8' \/ (x \in Editing!Missing /\ (x \in v8 => x \in v8'))
    OBVIOUS
  <2>1. CASE x \in Editing!Missing
    BY <1>3, <1>81, <2>1
  <2>2. CASE x \notin Editing!Missing
    <3>1. x \in stale
      BY <1>8, <1>21, <2>2
    <3> QED BY <1>3, <3>1
  <2> QED BY <2>1, <2>2
<1>10. v7[e].own => "main" \notin gone
  BY <1>4, <1>81
<1>11. v2' \in Editing!State /\ v8' \subseteq Child \cup {"main"} /\ v2' # "unused"
  <2>1. stale \subseteq Child \cup {"main"}
    BY <1>21, MissingHas, EditorialRows
  <2>2. v2' \in Editing!State /\ v2' # "unused"
    BY <1>3 DEF Editing!State
  <2> QED BY <1>3, <2>1, <2>2, EditorialFacts
<1>12. "save" \notin {"unfile", "unstore", "upload", "drop", "clear", "remove"}
  OBVIOUS
<1> QED BY <1>1, <1>3, <1>4, <1>6, <1>7, <1>9, <1>10, <1>11, <1>12, EditorialRow

\* The image of a file that is deleted is not one that another call is about to show.
LEMMA EditorialUnfile ==
  ASSUME EditorialInv, NEW e \in Editor, ~Editing!Idle(e), Editing!Unfile(e)
  PROVE  EditorialInv'
<1>1. PICK m, ch, fl, gone : m = v3' /\ ch = v4' /\ fl = v5' /\ gone = Editing!Missing'
  OBVIOUS
<1>2. PICK c, s : c = v7[e] /\ s = c.steps
  OBVIOUS
<1>3. PICK deleted \in (IF c.image = NoFile THEN {FALSE} ELSE BOOLEAN) :
        /\ fl = IF deleted THEN [v5 EXCEPT ![c.image] = "deleted"] ELSE v5
        /\ Editing!Advanced(e, [c EXCEPT !.deleted = IF deleted THEN {"main"} ELSE {}])
  BY <1>1, <1>2 DEF Editing!Unfile
<1>4. /\ Editing!At(e, "unfile")
      /\ v1' = v1 /\ v2' = v2 /\ v3' = v3 /\ v4' = v4 /\ v6' = v6 /\ v8' = v8
  BY DEF Editing!Unfile
<1>5. PICK dead : dead = IF deleted THEN {"main"} ELSE {}
  OBVIOUS
<1>6. /\ c \in EditRecord /\ s \in Seq(Steps) /\ s # <<>> /\ s[1] = "unfile" /\ 1 \in 1 .. Len(s)
      /\ Len(s) \in Nat /\ c.own \in BOOLEAN /\ c.image \in File \cup {NoFile}
      /\ Planned(s, c.own, c.deleted) /\ Backed(c, v3, v4, v5)
  BY <1>2, <1>4, AtStep
<1>7. /\ c.own = FALSE /\ c.deleted = {}
      /\ \/ Len(s) = 2 /\ s[2] = "drop"
         \/ Len(s) > 2 /\ s[2] = "upload" /\ s[Len(s)] = "save"
  BY <1>6 DEF Planned
<1>8. PICK t : t = Tail(s)
  OBVIOUS
<1>9. /\ t \in Seq(Steps) /\ Len(t) = Len(s) - 1 /\ t # <<>>
      /\ \A i \in 1 .. Len(s) - 1 : t[i] = s[i + 1]
  BY <1>6, <1>7, <1>8, TailOf
<1>10. PICK new : new = [[c EXCEPT !.deleted = dead] EXCEPT !.steps = t]
  OBVIOUS
<1>11. v7' = [v7 EXCEPT ![e] = new]
  <2>1. PICK changed : changed = [c EXCEPT !.deleted = dead]
    OBVIOUS
  <2>2. Editing!Advanced(e, changed)
    BY <1>3, <1>5, <2>1
  <2>3. Len(v7[e].steps) # 1 /\ new = [changed EXCEPT !.steps = Tail(v7[e].steps)]
    BY <1>2, <1>7, <1>8, <1>10, <2>1
  <2> QED BY <2>2, <2>3 DEF Editing!Advanced
<1>12. /\ new \in EditRecord /\ new.steps = t /\ new.own = FALSE /\ new.deleted = dead
       /\ new.image = c.image /\ new.children = c.children
  BY <1>5, <1>6, <1>7, <1>9, <1>10 DEF EditRecord
<1>13. t[1] = s[2] /\ t[Len(t)] = s[Len(s)] /\ Len(t) \in Nat
  BY <1>6, <1>7, <1>9
<1>14. ASSUME NEW i \in 1 .. Len(t)
       PROVE  /\ t[i] \notin {"unfile", "unstore", "insert"}
              /\ t[i] = "save" => i = Len(t)
              /\ t[i] = "upload" => i = 1 /\ 1 < Len(t) /\ t[Len(t)] = "save"
  <2>1. PICK k : k = i + 1
    OBVIOUS
  <2>2. k \in 1 .. Len(s) /\ k # 1 /\ t[i] = s[k] /\ i \in Nat
    BY <1>6, <1>9, <2>1
  <2>3. s[k] \notin {"unfile", "unstore"}
    BY <1>6, <2>2 DEF Planned
  <2>4. s[k] # "insert"
    BY <1>6, <2>2 DEF Planned
  <2>5. s[k] = "save" => k = Len(s)
    BY <1>6, <2>2 DEF Planned
  <2>6. s[k] = "upload" => k = 2
    BY <1>6, <2>2 DEF Planned
  <2>7. s[k] = "upload" => Len(s) > 2 /\ s[Len(s)] = "save"
    BY <1>7, <2>2, <2>6
  <2> QED BY <1>6, <1>9, <1>13, <2>1, <2>2, <2>3, <2>4, <2>5, <2>6, <2>7
<1>15. Planned(t, FALSE, dead)
  BY <1>13, <1>14 DEF Planned
<1>16. Covered(t, FALSE, c.children, dead)
  BY <1>5, <1>7, <1>13 DEF Covered
<1>17. PlanHolds(new) /\ ~Pending(new)
  BY <1>12, <1>15, <1>16 DEF PlanHolds, Pending
<1>18. deleted => c.image \in File /\ v5[c.image] # "unused"
  BY <1>3, <1>6 DEF Backed
<1>19. /\ fl \in [File -> Editing!State]
       /\ \A f \in File : v5[f] # "unused" => fl[f] # "unused"
       /\ \A f \in File : f # c.image => fl[f] = v5[f]
       /\ ~deleted => fl = v5
  <2>1. CASE deleted
    BY <1>3, <1>18, <2>1, EditorialFacts DEF Editing!State
  <2>2. CASE ~deleted
    BY <1>3, <2>2, EditorialFacts
  <2> QED BY <2>1, <2>2
<1>20. Backed(new, m, ch, fl)
  <2>1. c.image \in File => v5[c.image] # "unused"
    BY <1>6 DEF Backed
  <2>2. \A x \in c.children : v4[x] # "unused"
    BY <1>6 DEF Backed
  <2>3. t[1] # "insert"
    BY <1>9, <1>13, <1>14
  <2> QED BY <1>1, <1>4, <1>9, <1>12, <1>17, <1>19, <2>1, <2>2, <2>3 DEF Backed
<1>21. \A d \in Editor \ {e} : Pending(v7[d]) =>
         fl[v7[d].image] = "live" /\ m # v7[d].image /\ new.image # v7[d].image
  BY <1>1, <1>2, <1>4, <1>12, <1>19, EditorialRows
<1>22. Moves(e, new, m, ch, fl)
  <2>1. /\ m \in File \cup {NoFile} /\ ch \in [Child -> Editing!State]
        /\ \A x \in Child : v4[x] # "unused" => ch[x] # "unused"
        /\ m \in File => fl[m] # "unused"
    BY <1>1, <1>4, <1>19, EditorialFacts, EditorialRows
  <2> QED BY <1>17, <1>19, <1>20, <1>21, <2>1 DEF Moves
<1>23. LeftToIt(e, new, gone)
  <2>1. ASSUME NEW x \in gone PROVE x \in new.deleted \/ x \in Editing!Missing
    <3>1. CASE x \in v6 /\ v4[x] = "live"
      BY <3>1, MissingIs
    <3>2. CASE x = "main" /\ v2 = "live" /\ v3 \in File /\ fl[v3] = "deleted"
      <4>1. CASE deleted
        BY <1>5, <1>12, <3>2, <4>1
      <4>2. CASE ~deleted
        BY <1>19, <3>2, <4>2, MissingIs
      <4> QED BY <4>1, <4>2
    <3> QED BY <1>1, <1>4, <3>1, <3>2, MissingNext
  <2>2. v7[e].deleted = {}
    BY <1>2, <1>7
  <2> QED BY <1>4, <2>1, <2>2 DEF LeftToIt
<1>24. Leaves(ch)
  BY <1>1, <1>4, EditorialFacts, EditorialRows DEF Leaves
<1> QED BY <1>1, <1>11, <1>12, <1>22, <1>23, <1>24, EditorialStep

\* The files of children that are about to go.
LEMMA EditorialUnstore ==
  ASSUME EditorialInv, NEW e \in Editor, ~Editing!Idle(e), Editing!Unstore(e)
  PROVE  EditorialInv'
<1>1. PICK m, ch, fl, gone : m = v3' /\ ch = v4' /\ fl = v5' /\ gone = Editing!Missing'
  OBVIOUS
<1>2. PICK c, s : c = v7[e] /\ s = c.steps
  OBVIOUS
<1>3. PICK dead \in SUBSET c.children :
        v6' = v6 \cup dead /\ Editing!Advanced(e, [c EXCEPT !.deleted = dead])
  BY <1>2 DEF Editing!Unstore
<1>4. /\ Editing!At(e, "unstore")
      /\ v1' = v1 /\ v2' = v2 /\ v3' = v3 /\ v4' = v4 /\ v5' = v5 /\ v8' = v8
  BY DEF Editing!Unstore
<1>6. /\ c \in EditRecord /\ s \in Seq(Steps) /\ s # <<>> /\ s[1] = "unstore" /\ 1 \in 1 .. Len(s)
      /\ c.own \in BOOLEAN /\ c.image \in File \cup {NoFile} /\ c.children \subseteq Child
      /\ Planned(s, c.own, c.deleted) /\ Backed(c, v3, v4, v5)
  BY <1>2, <1>4, AtStep
<1>7. c.deleted = {} /\ Len(s) = 2 /\ s[2] \in {"remove", "clear"}
  BY <1>6 DEF Planned
<1>8. PICK t : t = Tail(s)
  OBVIOUS
<1>9. /\ t \in Seq(Steps) /\ Len(t) = 1 /\ t # <<>> /\ t[1] \in {"remove", "clear"}
  <2>1. /\ t \in Seq(Steps) /\ Len(t) = Len(s) - 1 /\ t # <<>>
        /\ \A i \in 1 .. Len(s) - 1 : t[i] = s[i + 1]
    <3>1. Len(s) # 1
      BY <1>7
    <3> QED BY <1>6, <1>8, <3>1, TailOf
  <2>2. Len(t) = 1 /\ 1 \in 1 .. Len(s) - 1
    BY <1>7, <2>1
  <2>3. t[1] = s[2]
    BY <2>1, <2>2
  <2> QED BY <1>7, <2>1, <2>2, <2>3
<1>10. PICK new : new = [[c EXCEPT !.deleted = dead] EXCEPT !.steps = t]
  OBVIOUS
<1>11. v7' = [v7 EXCEPT ![e] = new]
  <2>1. PICK changed : changed = [c EXCEPT !.deleted = dead]
    OBVIOUS
  <2>2. Editing!Advanced(e, changed)
    BY <1>3, <2>1
  <2>3. Len(v7[e].steps) # 1 /\ new = [changed EXCEPT !.steps = Tail(v7[e].steps)]
    BY <1>2, <1>7, <1>8, <1>10, <2>1
  <2> QED BY <2>2, <2>3 DEF Editing!Advanced
<1>12. /\ new \in EditRecord /\ new.steps = t /\ new.own = c.own /\ new.deleted = dead
       /\ new.image = c.image /\ new.children = c.children
  BY <1>3, <1>6, <1>9, <1>10 DEF EditRecord
<1>15. Planned(t, c.own, dead)
  BY <1>9 DEF Planned
<1>16. Covered(t, c.own, c.children, dead)
  BY <1>3, <1>9 DEF Covered
<1>17. PlanHolds(new) /\ ~Pending(new)
  BY <1>9, <1>12, <1>15, <1>16 DEF PlanHolds, Pending
<1>18. \A x \in c.children : v4[x] # "unused"
  BY <1>6 DEF Backed
<1>20. Backed(new, m, ch, fl)
  <2>1. c.image \in File => v5[c.image] # "unused"
    BY <1>6 DEF Backed
  <2> QED BY <1>1, <1>4, <1>9, <1>12, <1>17, <1>18, <2>1 DEF Backed
<1>21. \A d \in Editor \ {e} : Pending(v7[d]) =>
         fl[v7[d].image] = "live" /\ m # v7[d].image /\ new.image # v7[d].image
  BY <1>1, <1>2, <1>4, <1>12, EditorialRows
<1>22. Moves(e, new, m, ch, fl)
  <2>1. /\ m \in File \cup {NoFile} /\ ch \in [Child -> Editing!State]
        /\ fl \in [File -> Editing!State]
        /\ \A f \in File : v5[f] # "unused" => fl[f] # "unused"
        /\ \A x \in Child : v4[x] # "unused" => ch[x] # "unused"
        /\ m \in File => fl[m] # "unused"
    BY <1>1, <1>4, EditorialFacts, EditorialRows
  <2> QED BY <1>17, <1>20, <1>21, <2>1 DEF Moves
<1>23. LeftToIt(e, new, gone)
  <2>1. \A x \in gone : x \in new.deleted \/ x \in Editing!Missing
    BY <1>1, <1>3, <1>4, <1>12, MissingNext, MissingIs
  <2>2. v7[e].deleted = {}
    BY <1>2, <1>7
  <2> QED BY <1>4, <2>1, <2>2 DEF LeftToIt
<1>24. Leaves(ch)
  <2>1. v6' \subseteq Child /\ \A x \in v6' : ch[x] # "unused"
    BY <1>1, <1>3, <1>4, <1>6, <1>18, EditorialFacts, EditorialRows
  <2> QED BY <1>1, <1>4, <2>1, EditorialFacts, EditorialRows DEF Leaves
<1> QED BY <1>1, <1>11, <1>12, <1>22, <1>23, <1>24, EditorialStep

\* A file that nobody has seen.
LEMMA EditorialUpload ==
  ASSUME EditorialInv, NEW e \in Editor, ~Editing!Idle(e), Editing!Upload(e)
  PROVE  EditorialInv'
<1>1. PICK m, ch, fl, gone : m = v3' /\ ch = v4' /\ fl = v5' /\ gone = Editing!Missing'
  OBVIOUS
<1>2. PICK c, s : c = v7[e] /\ s = c.steps
  OBVIOUS
<1>3. PICK f \in File : /\ v5[f] = "unused" /\ fl = [v5 EXCEPT ![f] = "live"]
                        /\ Editing!Advanced(e, [c EXCEPT !.image = f, !.own = TRUE])
  BY <1>1, <1>2, Zenon DEF Editing!Upload
<1>4. /\ Editing!At(e, "upload")
      /\ v1' = v1 /\ v2' = v2 /\ v3' = v3 /\ v4' = v4 /\ v6' = v6 /\ v8' = v8
  BY DEF Editing!Upload
<1>6. /\ c \in EditRecord /\ s \in Seq(Steps) /\ s # <<>> /\ s[1] = "upload" /\ 1 \in 1 .. Len(s)
      /\ Len(s) \in Nat /\ c.own \in BOOLEAN /\ c.children \subseteq Child
      /\ Planned(s, c.own, c.deleted) /\ Backed(c, v3, v4, v5)
      /\ Covered(s, c.own, c.children, c.deleted)
  BY <1>2, <1>4, AtStep
<1>7. 1 < Len(s)
  BY <1>6 DEF Planned
<1>8. PICK t : t = Tail(s)
  OBVIOUS
<1>9. /\ t \in Seq(Steps) /\ Len(t) = Len(s) - 1 /\ t # <<>>
      /\ \A i \in 1 .. Len(s) - 1 : t[i] = s[i + 1]
  BY <1>6, <1>7, <1>8, TailOf
<1>10. PICK new : new = [[c EXCEPT !.image = f, !.own = TRUE] EXCEPT !.steps = t]
  OBVIOUS
<1>11. v7' = [v7 EXCEPT ![e] = new]
  <2>1. PICK changed : changed = [c EXCEPT !.image = f, !.own = TRUE]
    OBVIOUS
  <2>2. Editing!Advanced(e, changed)
    BY <1>3, <2>1
  <2>3. Len(v7[e].steps) # 1
    <3>1. PICK n : n = Len(s)
      OBVIOUS
    <3>2. n \in Nat
      BY <1>6, <3>1
    <3>3. n # 1
      BY <1>7, <3>1, <3>2
    <3> QED BY <1>2, <3>1, <3>3
  <2>4. new = [changed EXCEPT !.steps = Tail(v7[e].steps)]
    BY <1>2, <1>8, <1>10, <2>1
  <2> QED BY <2>2, <2>3, <2>4 DEF Editing!Advanced
<1>12. /\ new \in EditRecord /\ new.steps = t /\ new.own = TRUE /\ new.deleted = c.deleted
       /\ new.image = f /\ new.children = c.children
  BY <1>3, <1>6, <1>9, <1>10 DEF EditRecord
<1>13. t[Len(t)] = s[Len(s)] /\ Len(t) \in Nat /\ Len(t) = Len(s) - 1
  BY <1>6, <1>7, <1>9
<1>14. ASSUME NEW i \in 1 .. Len(t)
       PROVE  /\ t[i] \notin {"unfile", "unstore", "upload"}
              /\ t[i] = "save" => i = Len(t)
              /\ t[i] = "insert" => i = 1 /\ t[Len(t)] \in {"insert", "make"}
  <2>1. PICK k : k = i + 1
    OBVIOUS
  <2>2. k \in 1 .. Len(s) /\ k # 1 /\ t[i] = s[k] /\ i \in Nat
    BY <1>6, <1>9, <2>1
  <2>3. s[k] \notin {"unfile", "unstore"}
    BY <1>6, <2>2 DEF Planned
  <2>4. s[k] # "upload"
    BY <1>6, <2>2 DEF Planned
  <2>5. s[k] = "save" => k = Len(s)
    BY <1>6, <2>2 DEF Planned
  <2>6. s[k] = "insert" => k = 2 /\ s[Len(s)] \in {"insert", "make"}
    BY <1>6, <2>2 DEF Planned
  <2> QED BY <1>6, <1>13, <2>1, <2>2, <2>3, <2>4, <2>5, <2>6
<1>15. Planned(t, TRUE, c.deleted)
  BY <1>13, <1>14 DEF Planned
<1>16. Covered(t, TRUE, c.children, c.deleted)
  BY <1>6, <1>7, <1>13 DEF Covered
<1>17. PlanHolds(new)
  BY <1>12, <1>15, <1>16 DEF PlanHolds
<1>19. /\ fl \in [File -> Editing!State] /\ fl[f] = "live"
       /\ \A g \in File : v5[g] # "unused" => fl[g] = v5[g]
  BY <1>3, EditorialFacts DEF Editing!State
<1>18. v3 # f /\ \A d \in Editor : v7[d].image # f
  <2>1. \A d \in Editor : Backed(v7[d], v3, v4, v5)
    BY DEF EditorialInv
  <2>2. \A d \in Editor : v7[d].image \in File => v5[v7[d].image] # "unused"
    BY <2>1 DEF Backed
  <2> QED BY <1>3, <2>2, EditorialRows
<1>20. Backed(new, m, ch, fl)
  <2>1. \A x \in c.children : v4[x] # "unused"
    BY <1>6 DEF Backed
  <2> QED BY <1>1, <1>4, <1>9, <1>12, <1>18, <1>19, <2>1 DEF Backed
<1>21. \A d \in Editor \ {e} : Pending(v7[d]) =>
         fl[v7[d].image] = "live" /\ m # v7[d].image /\ new.image # v7[d].image
  BY <1>1, <1>4, <1>12, <1>18, <1>19, EditorialRows
<1>22. Moves(e, new, m, ch, fl)
  <2>1. /\ m \in File \cup {NoFile} /\ ch \in [Child -> Editing!State]
        /\ \A g \in File : v5[g] # "unused" => fl[g] # "unused"
        /\ \A x \in Child : v4[x] # "unused" => ch[x] # "unused"
        /\ m \in File => fl[m] # "unused"
    BY <1>1, <1>4, <1>19, EditorialFacts, EditorialRows
  <2>2. \A d \in Editor \ {e} : v7[d].image # new.image
    BY <1>12, <1>18
  <2> QED BY <1>17, <1>19, <1>20, <1>21, <2>1, <2>2 DEF Moves
<1>23. LeftToIt(e, new, gone)
  <2>1. \A x \in gone : x \in Editing!Missing
    BY <1>1, <1>4, <1>19, MissingNext, MissingIs, EditorialRows
  <2>2. v7[e].deleted = new.deleted
    BY <1>2, <1>12
  <2> QED BY <1>4, <2>1, <2>2 DEF LeftToIt
<1>24. Leaves(ch)
  BY <1>1, <1>4, EditorialFacts, EditorialRows DEF Leaves
<1> QED BY <1>1, <1>11, <1>12, <1>22, <1>23, <1>24, EditorialStep

LEMMA EditorialInit == Editing!Init => EditorialInv
<1> SUFFICES ASSUME Editing!Init PROVE EditorialInv
  OBVIOUS
<1>1. /\ v1 \in {"news", "section"} /\ v2 = (IF v1 = "news" THEN "unused" ELSE "live")
      /\ v3 = NoFile /\ v5 = [f \in File |-> "unused"] /\ v6 = {}
      /\ v7 = [e \in Editor |-> Editing!NoEdit] /\ v8 = {}
      /\ v4 \in [Child -> Editing!State]
  BY DEF Editing!Init, Editing!State
<1>2. Editing!TypeOK
  BY <1>1, NoEditHolds DEF Editing!TypeOK, Editing!State, EditRecord, Steps
<1>3. \A e \in Editor : v7[e] = Editing!NoEdit
  BY <1>1
<1>4. ASSUME NEW e \in Editor PROVE PlanHolds(v7[e]) /\ Backed(v7[e], v3, v4, v5)
  BY <1>3, NoEditHolds, PlatformAssumption DEF Backed
<1>5. ImagesHold
  BY <1>1, <1>3, NoEditHolds, PlatformAssumption DEF ImagesHold
<1>6. Editing!Missing = {}
  BY <1>1, MissingIs, PlatformAssumption
<1> QED BY <1>2, <1>4, <1>5, <1>6 DEF EditorialInv, Editing!ShownIsStored

LEMMA EditorialSteps ==
  ASSUME EditorialInv, Editing!Next
  PROVE  EditorialInv'
<1>1. PICK e \in Editor :
        \/ Editing!Idle(e) /\ EditingBegins(e)
        \/ /\ ~Editing!Idle(e)
           /\ \/ Editing!Upload(e) \/ Editing!Unfile(e) \/ Editing!Unstore(e) \/ Editing!Insert(e)
              \/ Editing!Clear(e) \/ Editing!New(e, "make") \/ Editing!New(e, "add")
              \/ Editing!Save(e) \/ Editing!Change(e) \/ Editing!RemoveChild(e) \/ Editing!Drop(e)
              \/ Editing!Fail(e)
  BY DEF Editing!Next, EditingBegins
<1>2. CASE Editing!Idle(e) /\ EditingBegins(e)
  BY <1>2, EditorialBegin
<1>3. CASE ~Editing!Idle(e) /\ Editing!Save(e)
  <2>1. CASE Editing!Orphans(e) # {}
    BY <1>3, <2>1, EditorialFail DEF Editing!Save
  <2> QED BY <1>3, <2>1, EditorialSave
<1> QED BY <1>1, <1>2, <1>3, EditorialUpload, EditorialUnfile, EditorialUnstore,
           EditorialInsert, EditorialClear, EditorialNew, EditorialChange, EditorialRemoveChild,
           EditorialDrop, EditorialFail

LEMMA EditorialAlways == Spec => [](focus = "editorial" => EditorialInv)
<1> DEFINE Inv == focus = "editorial" => EditorialInv
<1>1. Init => Inv
  BY EditorialInit DEF Init
<1>2. Inv /\ [Next]_vars => Inv'
  <2> SUFFICES ASSUME Inv, [Next]_vars, focus' = "editorial" PROVE EditorialInv'
    OBVIOUS
  <2>1. focus = "editorial" /\ EditorialInv
    BY FocusStays
  <2>2. CASE Editing!Next
    BY <2>1, <2>2, EditorialSteps
  <2>3. CASE UNCHANGED <<v1, v2, v3, v4, v5, v6, v7, v8>>
    BY <2>1, <2>3 DEF EditorialInv, Editing!TypeOK, ImagesHold, Backed, Pending, PlanHolds,
                      Editing!ShownIsStored, Editing!Missing
  <2> QED BY <2>1, <2>2, <2>3 DEF Next, vars
<1> QED BY <1>1, <1>2, PTL DEF Spec

\* The theorem: an image that is shown is in the store, but for failures and stale
\* saves (news.service.ts, sections.service.ts, tools.service.ts), for any number of
\* children, files, photos and calls.
THEOREM ImagesStored == Spec => []ShownIsStored
<1>1. (focus = "editorial" => EditorialInv) /\ (focus = "gallery" => GalleryInv) => ShownIsStored
  BY DEF ShownIsStored, EditorialInv, GalleryInv
<1> QED BY <1>1, EditorialAlways, GalleryAlways, PTL
-----------------------------------------------------------------------------
(***************************************************************************)
(* Lists: the rows in front of the page that is due have been seen, but    *)
(* for those that appeared or moved since; a row that appears pushes rows  *)
(* back and never forward.  Once the number of rows that came with a page  *)
(* says it is the last, all of the rows have been seen, and it stays so    *)
(* however many appear before the reader turns away.                       *)
(***************************************************************************)
PageTypes ==
  /\ v1 \in [sorts : SUBSET {"created", "other", "activity"}, countFirst : BOOLEAN]
  /\ v2 \in Seq(Item)
  /\ v3 \in [at : {"idle", "first", "second"}, page : Nat, total : Nat, seen : SUBSET Item, done : BOOLEAN]
  /\ v4 \subseteq Item /\ v5 \in BOOLEAN

\* The first k rows, and how many of them the reader has passed.
Leading(k) == {v2[n] : n \in (1 .. k) \cap DOMAIN v2}
Counts == v3.at = (IF v1.countFirst THEN "first" ELSE "second")
Fetches == v3.at = (IF v1.countFirst THEN "second" ELSE "first")
Passed == IF Fetches \/ (v1.countFirst /\ v3.at = "first") THEN (v3.page - 1) * PageSize
          ELSE v3.page * PageSize

SeenSoFar ==
  /\ Leading(Passed) \ v4 \subseteq v3.seen
  /\ Fetches /\ v1.countFirst => v3.total = Len(v2)
  /\ v3.at = "idle" /\ v3.total <= v3.page * PageSize => {v2[n] : n \in DOMAIN v2} \ v4 \subseteq v3.seen

PagesInv ==
  /\ PageTypes
  /\ v3.done => v3.at = "idle" /\ v3.page > 0
  /\ v3.page = 0 => v3.at = "idle"
  /\ v3.page > 0 /\ ~v3.done /\ ~v5 => SeenSoFar
  /\ Paging!NoneSkipped

\* The page that is the last by its number holds the last rows.
LEMMA LastPage ==
  ASSUME NEW t \in Nat, NEW p \in Nat, NEW s \in Nat \ {0}, ~(p < (t + s - 1) \div s)
  PROVE  t <= p * s
<1> DEFINE q == (t + s - 1) \div s
<1>1. q \in Int /\ q * s > t + s - 1 - s /\ q <= p
  OBVIOUS
<1>2. p * s >= q * s
  BY <1>1
<1> QED BY <1>1, <1>2

Inserted(s, n, i) == SubSeq(s, 1, n - 1) \o <<i>> \o SubSeq(s, n, Len(s))
Removed(s, n) == SubSeq(s, 1, n - 1) \o SubSeq(s, n + 1, Len(s))
Moved(s, n) == <<s[n]>> \o Removed(s, n)

\* What inserting and moving leave, by position.
IsInserted(u, s, n, i) ==
  /\ u \in Seq(Item) /\ DOMAIN u = 1 .. Len(s) + 1
  /\ \A k \in 1 .. Len(s) + 1 : u[k] = IF k < n THEN s[k] ELSE IF k = n THEN i ELSE s[k - 1]

IsMoved(u, s, n) ==
  /\ u \in Seq(Item) /\ DOMAIN u = 1 .. Len(s) /\ Len(u) = Len(s)
  /\ \A k \in 1 .. Len(s) : u[k] = IF k = 1 THEN s[n] ELSE IF k <= n THEN s[k - 1] ELSE s[k]

\* A sequence with one more element, and a sequence without one of its own.
LEMMA WithOneMore ==
  ASSUME NEW s \in Seq(Item), NEW n \in 1 .. Len(s) + 1, NEW i \in Item
  PROVE  IsInserted(Inserted(s, n, i), s, n, i)
<1>00. PICK u : u = Inserted(s, n, i)
  OBVIOUS
<1> DEFINE a == SubSeq(s, 1, n - 1)
           b == SubSeq(s, n, Len(s))
<1>0. Len(s) \in Nat /\ DOMAIN s = 1 .. Len(s)
  OBVIOUS
<1>1. a \in Seq(Item) /\ Len(a) = n - 1 /\ \A k \in 1 .. n - 1 : a[k] = s[k]
  BY <1>0, SubSeqProperties
<1>2. b \in Seq(Item) /\ Len(b) = Len(s) - n + 1 /\ \A k \in 1 .. Len(s) - n + 1 : b[k] = s[n + k - 1]
  BY <1>0, SubSeqProperties
<1> HIDE DEF a, b
<1> DEFINE h == a \o <<i>>
<1>3. h \in Seq(Item) /\ Len(h) = n /\ \A k \in 1 .. n : h[k] = IF k < n THEN s[k] ELSE i
  BY <1>1, ConcatProperties
<1> HIDE DEF h
<1>4. u = h \o b
  BY <1>00 DEF Inserted, h, a, b
<1>5. u \in Seq(Item) /\ Len(u) = Len(s) + 1
      /\ \A k \in 1 .. Len(s) + 1 : u[k] = IF k <= n THEN h[k] ELSE b[k - n]
  BY <1>0, <1>2, <1>3, <1>4, ConcatProperties
<1>6. ASSUME NEW k \in 1 .. Len(s) + 1
      PROVE  u[k] = IF k < n THEN s[k] ELSE IF k = n THEN i ELSE s[k - 1]
  <2>1. CASE k <= n
    BY <2>1, <1>3, <1>5
  <2>2. CASE k > n
    <3>1. PICK j : j = k - n
      OBVIOUS
    <3>2. j \in 1 .. Len(s) - n + 1 /\ n + j - 1 = k - 1
      BY <1>0, <2>2, <3>1
    <3>3. u[k] = b[j]
      BY <1>5, <2>2, <3>1
    <3>4. b[j] = s[n + j - 1]
      BY <1>2, <3>2
    <3>5. u[k] = s[k - 1]
      BY <3>2, <3>3, <3>4
    <3> QED BY <2>2, <3>5
  <2> QED BY <2>1, <2>2
<1>7. DOMAIN u = 1 .. Len(u)
  BY <1>5
<1>8. DOMAIN u = 1 .. Len(s) + 1
  BY <1>5, <1>7
<1>9. IsInserted(u, s, n, i)
  BY <1>5, <1>6, <1>8 DEF IsInserted
<1> QED BY <1>00, <1>9

LEMMA WithOneLess ==
  ASSUME NEW s \in Seq(Item), NEW n \in 1 .. Len(s), NEW u, u = Removed(s, n)
  PROVE  /\ u \in Seq(Item) /\ Len(u) = Len(s) - 1
         /\ \A k \in 1 .. Len(s) - 1 : u[k] = IF k < n THEN s[k] ELSE s[k + 1]
<1> DEFINE a == SubSeq(s, 1, n - 1)
           b == SubSeq(s, n + 1, Len(s))
<1>0. Len(s) \in Nat /\ n \in Nat /\ n >= 1 /\ n <= Len(s)
  OBVIOUS
<1>1. a \in Seq(Item) /\ Len(a) = n - 1 /\ \A k \in 1 .. n - 1 : a[k] = s[k]
  BY <1>0, SubSeqProperties
<1>2. b \in Seq(Item) /\ Len(b) = Len(s) - n /\ \A k \in 1 .. Len(s) - n : b[k] = s[n + k]
  <2>1. b \in Seq(Item) /\ Len(b) = IF n + 1 <= Len(s) THEN Len(s) - (n + 1) + 1 ELSE 0
    BY <1>0, SubSeqProperties
  <2>2. \A k \in 1 .. Len(s) - (n + 1) + 1 : b[k] = s[(n + 1) + k - 1]
    BY <1>0, SubSeqProperties
  <2>3. \A k \in 1 .. Len(s) - n : (n + 1) + k - 1 = n + k
    BY <1>0
  <2>4. Len(s) - (n + 1) + 1 = Len(s) - n
    BY <1>0
  <2> HIDE DEF b
  <2>5. Len(b) = Len(s) - n
    <3>1. CASE n + 1 <= Len(s)
      BY <2>1, <2>4, <3>1
    <3>2. CASE n = Len(s)
      BY <1>0, <2>1, <3>2
    <3>3. n + 1 <= Len(s) \/ n = Len(s)
      BY <1>0
    <3> QED BY <3>1, <3>2, <3>3
  <2>6. ASSUME NEW k \in 1 .. Len(s) - n PROVE b[k] = s[n + k]
    <3>1. k \in 1 .. Len(s) - (n + 1) + 1 /\ (n + 1) + k - 1 = n + k
      BY <2>3, <2>4
    <3> QED BY <3>1, <2>2
  <2> QED BY <2>1, <2>5, <2>6
<1>3. u = a \o b
  BY DEF Removed
<1> HIDE DEF a, b
<1>4. u \in Seq(Item) /\ Len(u) = Len(s) - 1
      /\ \A k \in 1 .. Len(s) - 1 : u[k] = IF k <= n - 1 THEN a[k] ELSE b[k - (n - 1)]
  <2>1. /\ u \in Seq(Item) /\ Len(u) = Len(a) + Len(b)
        /\ \A k \in 1 .. Len(a) + Len(b) : u[k] = IF k <= Len(a) THEN a[k] ELSE b[k - Len(a)]
    <3>1. a \in Seq(Item) /\ b \in Seq(Item)
      BY <1>1, <1>2
    <3> QED BY <3>1, <1>3, ConcatProperties
  <2>2. Len(a) + Len(b) = Len(s) - 1
    BY <1>0, <1>1, <1>2
  <2> QED BY <1>1, <2>1, <2>2
<1>5. ASSUME NEW k \in 1 .. Len(s) - 1 PROVE u[k] = IF k < n THEN s[k] ELSE s[k + 1]
  <2>1. CASE k <= n - 1
    BY <2>1, <1>1, <1>4
  <2>2. CASE k >= n
    <3>1. PICK j : j = k - (n - 1)
      OBVIOUS
    <3>2. j \in 1 .. Len(s) - n /\ n + j = k + 1
      BY <1>0, <2>2, <3>1
    <3>3. u[k] = b[j]
      BY <1>4, <2>2, <3>1
    <3>4. b[j] = s[n + j]
      BY <1>2, <3>2
    <3>5. u[k] = s[k + 1]
      BY <3>2, <3>3, <3>4
    <3> QED BY <2>2, <3>5
  <2> QED BY <2>1, <2>2
<1> QED BY <1>4, <1>5

LEMMA MovedToFront ==
  ASSUME NEW s \in Seq(Item), NEW n \in 1 .. Len(s)
  PROVE  IsMoved(Moved(s, n), s, n)
<1>00. PICK u : u = Moved(s, n)
  OBVIOUS
<1> DEFINE r == Removed(s, n)
<1>0. Len(s) \in Nat /\ s[n] \in Item
  OBVIOUS
<1>1. /\ r \in Seq(Item) /\ Len(r) = Len(s) - 1
      /\ \A k \in 1 .. Len(s) - 1 : r[k] = IF k < n THEN s[k] ELSE s[k + 1]
  BY WithOneLess
<1> HIDE DEF r
<1>2. u \in Seq(Item) /\ Len(u) = Len(s) /\ \A k \in 1 .. Len(s) : u[k] = IF k <= 1 THEN s[n] ELSE r[k - 1]
  <2>1. u = <<s[n]>> \o r
    BY <1>00 DEF r, Moved
  <2>2. PICK x \in Item : x = s[n]
    BY <1>0
  <2>3. PICK f : f = <<x>>
    OBVIOUS
  <2>4. f \in Seq(Item) /\ Len(f) = 1 /\ f[1] = x
    BY <2>3
  <2>6. u = f \o r
    BY <2>1, <2>2, <2>3
  <2>5. /\ u \in Seq(Item) /\ Len(u) = Len(f) + Len(r)
        /\ \A k \in 1 .. Len(f) + Len(r) : u[k] = IF k <= Len(f) THEN f[k] ELSE r[k - Len(f)]
    BY <1>1, <2>4, <2>6, ConcatProperties
  <2>7. Len(f) + Len(r) = Len(s)
    BY <1>0, <1>1, <2>4
  <2>8. ASSUME NEW k \in 1 .. Len(s) PROVE u[k] = IF k <= 1 THEN s[n] ELSE r[k - 1]
    <3>1. u[k] = IF k <= 1 THEN f[k] ELSE r[k - 1]
      BY <2>4, <2>5, <2>7
    <3>2. k <= 1 => f[k] = s[n]
      <4>1. k <= 1 => k = 1
        BY <1>0
      <4> QED BY <2>2, <2>4, <4>1
    <3> QED BY <3>1, <3>2
  <2> QED BY <2>5, <2>7, <2>8
<1>3. ASSUME NEW k \in 1 .. Len(s)
      PROVE  u[k] = IF k = 1 THEN s[n] ELSE IF k <= n THEN s[k - 1] ELSE s[k]
  BY <1>0, <1>1, <1>2
<1>4. DOMAIN u = 1 .. Len(u)
  BY <1>2
<1>5. DOMAIN u = 1 .. Len(s)
  BY <1>2, <1>4
<1>6. IsMoved(u, s, n)
  BY <1>2, <1>3, <1>5 DEF IsMoved
<1> QED BY <1>00, <1>6

LEMMA PageConstants == PageSize \in Nat /\ PageSize > 0
BY PlatformAssumption

LEMMA PagesInit == Paging!Init => PagesInv
<1> SUFFICES ASSUME Paging!Init PROVE PagesInv
  OBVIOUS
<1> DEFINE Kind == [sorts : SUBSET {"created", "other", "activity"}, countFirst : BOOLEAN]
<1>0. Paging!List \subseteq Kind
  <2>1. \A s \in SUBSET {"created", "other", "activity"}, f \in BOOLEAN : Paging!ListOf(s, f) \in Kind
    BY DEF Paging!ListOf
  <2>2. {{"created"}, {"activity"}, {"created", "other"}} \subseteq SUBSET {"created", "other", "activity"}
    OBVIOUS
  <2> HIDE DEF Kind
  <2> QED BY <2>1, <2>2
    DEF Paging!List, Paging!ToolReviews,
         Paging!AppReviews, Paging!Tools, Paging!Users, Paging!Transactions, Paging!Withdrawals,
         Paging!PendingWithdrawals, Paging!Disputes, Paging!Articles, Paging!AdminNotifications,
         Paging!AllNotifications, Paging!OwnNotifications, Paging!UserTransactions,
         Paging!UserRefunds, Paging!AllRefunds, Paging!AdminActivities, Paging!FailedLogins,
         Paging!Sessions, Paging!SecurityLogs, Paging!Bookings
<1>1. PageTypes
  <2>1. v1 \in Kind
    BY <1>0 DEF Paging!Init
  <2>2. <<>> \in Seq(Item)
    OBVIOUS
  <2> QED BY <2>1, <2>2 DEF PageTypes, Paging!Init, Paging!NoReader
<1>2. v3.page = 0 /\ v3.at = "idle" /\ ~v3.done
  BY DEF Paging!Init, Paging!NoReader
<1> QED BY <1>1, <1>2 DEF PagesInv, Paging!NoneSkipped

\* The reader's own steps.
LEMMA PagesOpen == PagesInv /\ Paging!Open => PagesInv'
<1> SUFFICES ASSUME PagesInv, Paging!Open PROVE PagesInv'
  OBVIOUS
<1>1. v3' = [at |-> "first", page |-> 1, total |-> 0, seen |-> {}, done |-> FALSE]
      /\ UNCHANGED <<v1, v2, v4, v5>>
  BY DEF Paging!Open, Paging!NoReader
<1>2. PageTypes'
  BY <1>1 DEF PagesInv, PageTypes
<1>3. Passed' = 0
  BY <1>1, PageConstants DEF Passed, Fetches, PagesInv, PageTypes
<1>4. Leading(Passed)' = {}
  BY <1>3 DEF Leading
<1>5. SeenSoFar'
  BY <1>1, <1>4 DEF SeenSoFar, Fetches
<1> QED BY <1>1, <1>2, <1>5 DEF PagesInv, Paging!NoneSkipped

LEMMA PagesCount == PagesInv /\ Paging!Count => PagesInv'
<1> SUFFICES ASSUME PagesInv, Paging!Count PROVE PagesInv'
  OBVIOUS
<1>1. /\ v3.at = (IF v1.countFirst THEN "first" ELSE "second")
      /\ v3' = [v3 EXCEPT !.total = Len(v2), !.at = IF v3.at = "first" THEN "second" ELSE "idle"]
      /\ UNCHANGED <<v1, v2, v4, v5>>
  BY DEF Paging!Count, Paging!Counting, Paging!After
<1>2. PageTypes'
  <2>1. Len(v2) \in Nat /\ (IF v3.at = "first" THEN "second" ELSE "idle") \in {"idle", "first", "second"}
    BY DEF PagesInv, PageTypes
  <2> QED BY <1>1, <2>1 DEF PagesInv, PageTypes
<1>3. v3.page > 0 /\ ~v3.done
  BY <1>1 DEF PagesInv, PageTypes
<1>4. ASSUME ~v5 PROVE SeenSoFar'
  <2>1. SeenSoFar
    BY <1>3, <1>4 DEF PagesInv
  <2>2. CASE v1.countFirst
    <3>1. v3.at = "first" /\ v3'.at = "second" /\ v3'.page = v3.page /\ v3'.seen = v3.seen /\ v3'.total = Len(v2)
      BY <1>1, <2>2 DEF PagesInv, PageTypes
    <3>2. Passed' = Passed
      BY <1>1, <2>2, <3>1 DEF Passed, Fetches
    <3> QED BY <1>1, <2>1, <2>2, <3>1, <3>2 DEF SeenSoFar, Leading, Fetches
  <2>3. CASE ~v1.countFirst
    <3>1. v3.at = "second" /\ v3'.at = "idle" /\ v3'.page = v3.page /\ v3'.seen = v3.seen /\ v3'.total = Len(v2)
      BY <1>1, <2>3 DEF PagesInv, PageTypes
    <3>2. Passed' = Passed /\ Passed = v3.page * PageSize
      BY <1>1, <2>3, <3>1 DEF Passed, Fetches
    <3>3. ASSUME Len(v2) <= v3.page * PageSize
          PROVE  {v2[n] : n \in DOMAIN v2} \subseteq Leading(Passed)
      <4>1. DOMAIN v2 = 1 .. Len(v2) /\ Len(v2) \in Nat /\ v3.page * PageSize \in Int
        BY PageConstants DEF PagesInv, PageTypes
      <4> QED BY <3>2, <3>3, <4>1 DEF Leading
    <3> QED BY <1>1, <2>1, <2>3, <3>1, <3>2, <3>3 DEF SeenSoFar, Leading, Fetches
  <2> QED BY <2>2, <2>3
<1> QED BY <1>1, <1>2, <1>3, <1>4 DEF PagesInv, PageTypes, Paging!NoneSkipped

LEMMA PagesFetch == PagesInv /\ Paging!Fetch => PagesInv'
<1> SUFFICES ASSUME PagesInv, Paging!Fetch PROVE PagesInv'
  OBVIOUS
<1> DEFINE slice == {v2[n] : n \in ((v3.page - 1) * PageSize + 1 .. v3.page * PageSize) \cap DOMAIN v2}
<1>1. /\ v3.at = (IF v1.countFirst THEN "second" ELSE "first")
      /\ v3' = [v3 EXCEPT !.seen = v3.seen \cup slice, !.at = IF v3.at = "first" THEN "second" ELSE "idle"]
      /\ UNCHANGED <<v1, v2, v4, v5>>
  BY DEF Paging!Fetch, Paging!Fetching, Paging!After, Paging!Slice
<1>2. slice \subseteq Item
  BY DEF PagesInv, PageTypes
<1>3. PageTypes'
  BY <1>1, <1>2, Zenon DEF PagesInv, PageTypes
<1>4. v3.page > 0 /\ ~v3.done /\ v3'.page = v3.page /\ ~v3'.done
      /\ v3'.seen = v3.seen \cup slice /\ v3'.total = v3.total
      /\ v3'.at = IF v1.countFirst THEN "idle" ELSE "second"
  BY <1>1 DEF PagesInv, PageTypes
<1>5. ASSUME ~v5 PROVE SeenSoFar'
  <2>1. SeenSoFar
    BY <1>4, <1>5 DEF PagesInv
  <2>2. Passed = (v3.page - 1) * PageSize
    BY <1>1 DEF Passed, Fetches
  <2>3. Passed' = v3.page * PageSize
    BY <1>1, <1>4 DEF Passed, Fetches, PagesInv, PageTypes
  <2>4. v3.page * PageSize \in Int /\ (v3.page - 1) * PageSize \in Int
    BY PageConstants DEF PagesInv, PageTypes
  <2>5. DOMAIN v2 = 1 .. Len(v2) /\ Len(v2) \in Nat
    BY DEF PagesInv, PageTypes
  <2>6. Leading(v3.page * PageSize) \subseteq Leading((v3.page - 1) * PageSize) \cup slice
    <3>1. ASSUME NEW n \in (1 .. v3.page * PageSize) \cap DOMAIN v2
          PROVE  n \in 1 .. (v3.page - 1) * PageSize \/ n \in (v3.page - 1) * PageSize + 1 .. v3.page * PageSize
      BY <2>4
    <3> QED BY <3>1 DEF Leading
  <2>7. Leading(Passed)' \ v4' \subseteq v3'.seen
    <3>1. Leading((v3.page - 1) * PageSize) \ v4 \subseteq v3.seen
      BY <2>1, <2>2 DEF SeenSoFar
    <3>2. PICK before, now : /\ before = Leading((v3.page - 1) * PageSize)
                             /\ now = Leading(v3.page * PageSize)
      OBVIOUS
    <3>3. before \ v4 \subseteq v3.seen /\ now \subseteq before \cup slice
      BY <2>6, <3>1, <3>2
    <3>4. Leading(Passed)' = now
      <4>1. PICK k : k = v3.page * PageSize
        OBVIOUS
      <4>2. Passed' = k /\ v2' = v2 /\ now = Leading(k)
        BY <1>1, <2>3, <3>2, <4>1
      <4> HIDE DEF slice
      <4> QED BY <4>2 DEF Leading
    <3>5. v4' = v4 /\ v3'.seen = v3.seen \cup slice
      BY <1>1, <1>4
    <3> HIDE DEF slice
    <3> QED BY <3>3, <3>4, <3>5
  <2>8. ASSUME v1.countFirst, v3.total <= v3.page * PageSize
        PROVE  {v2[n] : n \in DOMAIN v2} \subseteq Leading(v3.page * PageSize)
    <3>1. v3.total = Len(v2)
      BY <1>1, <2>1, <2>8 DEF SeenSoFar, Fetches
    <3> QED BY <2>4, <2>5, <2>8, <3>1 DEF Leading
  <2>9. Leading(v3.page * PageSize)' \ v4' \subseteq v3'.seen
    BY <2>3, <2>7, <1>4
  <2>10. v3'.at = "idle" => v1.countFirst
    BY <1>4
  <2>11. ~(Fetches' /\ v1'.countFirst)
    BY <1>1, <1>4 DEF Fetches
  <2>12. ASSUME v3'.at = "idle", v3'.total <= v3'.page * PageSize
         PROVE  {v2'[n] : n \in DOMAIN v2'} \ v4' \subseteq v3'.seen
    <3>1. {v2[n] : n \in DOMAIN v2} \subseteq Leading(v3.page * PageSize)
      BY <1>4, <2>8, <2>10, <2>12
    <3>2. Leading(v3.page * PageSize)' = Leading(v3.page * PageSize)
      BY <1>1, <1>4 DEF Leading
    <3> QED BY <1>1, <2>9, <3>1, <3>2
  <2> QED BY <2>7, <2>11, <2>12 DEF SeenSoFar
<1> QED BY <1>1, <1>3, <1>4, <1>5, Zenon DEF PagesInv, PageTypes, Paging!NoneSkipped

LEMMA PagesTurn == PagesInv /\ Paging!Turn => PagesInv'
<1> SUFFICES ASSUME PagesInv, Paging!Turn PROVE PagesInv'
  OBVIOUS
<1>1. /\ v3.at = "idle" /\ v3.page > 0 /\ ~v3.done /\ UNCHANGED <<v1, v2, v4, v5>>
      /\ v3' = IF v3.page < (v3.total + PageSize - 1) \div PageSize
               THEN [v3 EXCEPT !.page = v3.page + 1, !.at = "first"] ELSE [v3 EXCEPT !.done = TRUE]
  BY DEF Paging!Turn, Paging!Reading, Paging!TotalPages
<1>2. PageTypes'
  <2>1. v3.page + 1 \in Nat
    BY DEF PagesInv, PageTypes
  <2>2. CASE v3' = [v3 EXCEPT !.page = v3.page + 1, !.at = "first"]
    BY <1>1, <2>1, <2>2 DEF PagesInv, PageTypes
  <2>3. CASE v3' = [v3 EXCEPT !.done = TRUE]
    BY <1>1, <2>3 DEF PagesInv, PageTypes
  <2> QED BY <1>1, <2>2, <2>3
<1>3. CASE v3' = [v3 EXCEPT !.page = v3.page + 1, !.at = "first"]
  <2>1. v3'.page = v3.page + 1 /\ v3'.at = "first" /\ v3'.seen = v3.seen /\ ~v3'.done /\ v3.page \in Nat
    BY <1>1, <1>3 DEF PagesInv, PageTypes
  <2>2. Passed = v3.page * PageSize
    BY <1>1 DEF Passed, Fetches
  <2>3. Passed' = (v3.page + 1 - 1) * PageSize
    BY <1>1, <2>1 DEF Passed, Fetches, PagesInv, PageTypes
  <2>4. v3.page + 1 - 1 = v3.page
    BY <2>1
  <2>5. ~v5 => SeenSoFar
    BY <1>1 DEF PagesInv
  <2>6. ~v5 => Leading(Passed)' \ v4' \subseteq v3'.seen
    BY <1>1, <2>1, <2>2, <2>3, <2>4, <2>5 DEF SeenSoFar, Leading
  <2>7. ~v5 => SeenSoFar'
    BY <1>1, <2>1, <2>6 DEF SeenSoFar, Fetches
  <2> QED BY <1>1, <1>2, <2>1, <2>7 DEF PagesInv, Paging!NoneSkipped
<1>4. CASE v3' = [v3 EXCEPT !.done = TRUE] /\ ~(v3.page < (v3.total + PageSize - 1) \div PageSize)
  <2>1. v3'.done /\ v3'.at = "idle" /\ v3'.page = v3.page /\ v3'.seen = v3.seen
    BY <1>1, <1>4 DEF PagesInv, PageTypes
  <2>2. v3.total <= v3.page * PageSize
    BY <1>4, LastPage, PageConstants DEF PagesInv, PageTypes
  <2>3. ~v5 => {v2[n] : n \in DOMAIN v2} \ v4 \subseteq v3.seen
    BY <1>1, <2>2 DEF PagesInv, SeenSoFar
  <2> QED BY <1>1, <1>2, <2>1, <2>3 DEF PagesInv, Paging!NoneSkipped, Paging!ToSet
<1> QED BY <1>1, <1>3, <1>4

\* What the others do.  A table that has the rows it had, none of them further in
\* front than before, and others that are counted as missed.
LEMMA PagesPushed ==
  ASSUME PagesInv, PageTypes', UNCHANGED <<v1, v3>>, ~v3.done, v4 \subseteq v4', v5' \/ ~v5,
         Len(v2') = Len(v2) \/ v5' \/ ~(Fetches /\ v1.countFirst) \/ v3.page = 0,
         v3.page > 0 => \A n \in DOMAIN v2' : v2'[n] \in v4' \/ \E m \in DOMAIN v2 : m <= n /\ v2[m] = v2'[n]
  PROVE  PagesInv'
<1>1. ASSUME v3.page > 0, ~v5, ~v5' PROVE SeenSoFar'
  <2>1. SeenSoFar
    BY <1>1 DEF PagesInv
  <2>2. Passed' = Passed /\ Passed \in Int
    BY PageConstants DEF Passed, Fetches, PagesInv, PageTypes
  <2>3. DOMAIN v2 = 1 .. Len(v2) /\ Len(v2) \in Nat /\ DOMAIN v2' = 1 .. Len(v2') /\ Len(v2') \in Nat
    BY DEF PagesInv, PageTypes
  <2>4. ASSUME NEW n \in (1 .. Passed) \cap DOMAIN v2', v2'[n] \notin v4'
        PROVE  v2'[n] \in Leading(Passed) \ v4
    <3>1. PICK m \in DOMAIN v2 : m <= n /\ v2[m] = v2'[n]
      BY <1>1, <2>4
    <3>2. m \in 1 .. Passed
      <4>1. n \in Int /\ n <= Passed /\ m <= n
        BY <2>2, <2>4, <3>1
      <4>2. m \in Int /\ m >= 1
        BY <3>1 DEF PagesInv, PageTypes
      <4> QED BY <2>2, <4>1, <4>2
    <3> QED BY <2>4, <3>1, <3>2 DEF Leading
  <2>5. Leading(Passed)' \ v4' \subseteq v3.seen
    BY <2>1, <2>2, <2>4 DEF Leading, SeenSoFar
  <2>6. {v2'[n] : n \in DOMAIN v2'} \ v4' \subseteq {v2[n] : n \in DOMAIN v2} \ v4
    BY <1>1
  <2>7. Fetches' /\ v1'.countFirst => v3'.total = Len(v2')
    BY <1>1, <2>1 DEF SeenSoFar, Fetches
  <2> QED BY <2>1, <2>5, <2>6, <2>7 DEF SeenSoFar
<1> QED BY <1>1 DEF PagesInv, Paging!NoneSkipped

LEMMA PagesShaken ==
  ASSUME PagesInv, PageTypes', UNCHANGED <<v1, v3>>, ~v3.done, v5' = (v5 \/ (v3.page > 0 /\ ~v3.done))
  PROVE  PagesInv'
BY DEF PagesInv, Paging!NoneSkipped, PageTypes

LEMMA PagesAppear ==
  ASSUME PagesInv, ~v3.done, NEW i \in Item, NEW n \in 1 .. Len(v2) + 1, Paging!Appear(i, n)
  PROVE  PagesInv'
<1>1. /\ v2' = Paging!InsertAt(v2, n, i) /\ UNCHANGED <<v1, v3>>
      /\ v4' = (IF v3.page > 0 /\ ~v3.done THEN v4 \cup {i} ELSE v4)
      /\ v5' = (v5 \/ (v1.countFirst /\ v3.at = "second"))
  BY DEF Paging!Appear, Paging!Reading
<1>2. v2 \in Seq(Item) /\ Len(v2) \in Nat /\ DOMAIN v2 = 1 .. Len(v2)
  BY DEF PagesInv, PageTypes
<1>3. /\ v2' \in Seq(Item) /\ DOMAIN v2' = 1 .. Len(v2) + 1
      /\ \A k \in 1 .. Len(v2) + 1 :
           v2'[k] = IF k < n THEN v2[k] ELSE IF k = n THEN i ELSE v2[k - 1]
  <2>1. IsInserted(Inserted(v2, n, i), v2, n, i)
    BY <1>2, WithOneMore
  <2>2. v2' = Inserted(v2, n, i)
    BY <1>1 DEF Paging!InsertAt, Inserted
  <2>3. IsInserted(v2', v2, n, i)
    BY <2>1, <2>2
  <2> QED BY <2>3 DEF IsInserted
<1>4. PageTypes'
  BY <1>1, <1>3 DEF PagesInv, PageTypes
<1>5. ASSUME v3.page > 0, NEW k \in DOMAIN v2'
      PROVE  v2'[k] \in v4' \/ \E m \in DOMAIN v2 : m <= k /\ v2[m] = v2'[k]
  <2>1. CASE k < n
    BY <1>2, <1>3, <2>1
  <2>2. CASE k = n
    BY <1>1, <1>3, <1>5, <2>2
  <2>3. CASE k > n
    <3>1. k - 1 \in DOMAIN v2 /\ k - 1 <= k /\ v2'[k] = v2[k - 1]
      BY <1>2, <1>3, <2>3
    <3> QED BY <3>1
  <2> QED BY <1>2, <1>3, <2>1, <2>2, <2>3
<1>6. v5' \/ ~(Fetches /\ v1.countFirst)
  BY <1>1 DEF Fetches
<1> QED BY <1>1, <1>4, <1>5, <1>6, PagesPushed

LEMMA PagesDisappear ==
  ASSUME PagesInv, ~v3.done, NEW n \in 1 .. Len(v2), Paging!Disappear(n)
  PROVE  PagesInv'
<1>1. v2' = Paging!RemoveAt(v2, n) /\ v5' = (v5 \/ (v3.page > 0 /\ ~v3.done)) /\ UNCHANGED <<v1, v3, v4>>
  BY DEF Paging!Disappear, Paging!Reading
<1>2. v2' \in Seq(Item)
  <2>1. v2 \in Seq(Item)
    BY DEF PagesInv, PageTypes
  <2>2. v2' = Removed(v2, n)
    BY <1>1 DEF Paging!RemoveAt, Removed
  <2> QED BY <2>1, <2>2, WithOneLess
<1>3. PageTypes'
  BY <1>1, <1>2 DEF PagesInv, PageTypes
<1> QED BY <1>1, <1>3, PagesShaken

LEMMA PagesTouch ==
  ASSUME PagesInv, ~v3.done, NEW n \in 1 .. Len(v2), Paging!Touch(n)
  PROVE  PagesInv'
<1>1. /\ v2' = <<v2[n]>> \o Paging!RemoveAt(v2, n) /\ UNCHANGED <<v1, v3, v5>>
      /\ v4' = (IF v3.page > 0 /\ ~v3.done THEN v4 \cup {v2[n]} ELSE v4)
  BY DEF Paging!Touch, Paging!Reading
<1>2. v2 \in Seq(Item) /\ Len(v2) \in Nat /\ DOMAIN v2 = 1 .. Len(v2) /\ v2[n] \in Item
  BY DEF PagesInv, PageTypes
<1>3. /\ v2' \in Seq(Item) /\ DOMAIN v2' = 1 .. Len(v2) /\ Len(v2') = Len(v2)
      /\ \A k \in 1 .. Len(v2) :
           v2'[k] = IF k = 1 THEN v2[n] ELSE IF k <= n THEN v2[k - 1] ELSE v2[k]
  <2>1. IsMoved(Moved(v2, n), v2, n)
    BY <1>2, MovedToFront
  <2>2. v2' = Moved(v2, n)
    BY <1>1 DEF Paging!RemoveAt, Removed, Moved
  <2>3. IsMoved(v2', v2, n)
    BY <2>1, <2>2
  <2> QED BY <2>3 DEF IsMoved
<1>4. PageTypes'
  BY <1>1, <1>2, <1>3, Zenon DEF PagesInv, PageTypes
<1>5. ASSUME v3.page > 0, NEW k \in DOMAIN v2'
      PROVE  v2'[k] \in v4' \/ \E m \in DOMAIN v2 : m <= k /\ v2[m] = v2'[k]
  <2>1. CASE k = 1
    BY <1>1, <1>2, <1>3, <1>5, <2>1, Zenon
  <2>2. CASE k # 1 /\ k <= n
    <3>1. k - 1 \in DOMAIN v2 /\ k - 1 <= k /\ v2'[k] = v2[k - 1]
      BY <1>2, <1>3, <2>2
    <3> QED BY <3>1
  <2>3. CASE k > n
    BY <1>2, <1>3, <2>3
  <2> QED BY <1>2, <1>3, <2>1, <2>2, <2>3
<1> QED BY <1>1, <1>3, <1>4, <1>5, PagesPushed

LEMMA PagesReorder ==
  ASSUME PagesInv, ~v3.done, NEW n \in 1 .. Len(v2), Paging!Reorder(n)
  PROVE  PagesInv'
<1>1. /\ v2' = [v2 EXCEPT ![n] = v2[n + 1], ![n + 1] = v2[n]] /\ n < Len(v2)
      /\ v5' = (v5 \/ (v3.page > 0 /\ ~v3.done)) /\ UNCHANGED <<v1, v3, v4>>
  BY DEF Paging!Reorder, Paging!Reading
<1>2. v2 \in Seq(Item) /\ Len(v2) \in Nat /\ v2 \in [1 .. Len(v2) -> Item]
  BY DEF PagesInv, PageTypes
<1>3. v2' \in [1 .. Len(v2) -> Item]
  BY <1>1, <1>2
<1>4. v2' \in Seq(Item)
  BY <1>2, <1>3, SeqDef
<1>5. PageTypes'
  BY <1>1, <1>4 DEF PagesInv, PageTypes
<1> QED BY <1>1, <1>5, PagesShaken

LEMMA PagesStep == PagesInv /\ Paging!Next => PagesInv'
<1> SUFFICES ASSUME PagesInv, Paging!Next PROVE PagesInv'
  OBVIOUS
<1>1. CASE ~v3.done /\ \E i \in Item, n \in 1 .. Len(v2) + 1 : Paging!Appear(i, n)
  BY <1>1, PagesAppear
<1>2. CASE ~v3.done /\ \E n \in 1 .. Len(v2) : Paging!Disappear(n) \/ Paging!Touch(n) \/ Paging!Reorder(n)
  BY <1>2, PagesDisappear, PagesTouch, PagesReorder
<1> QED BY <1>1, <1>2, PagesOpen, PagesCount, PagesFetch, PagesTurn DEF Paging!Next

\* The list is one of the lists, and no row is listed twice.
ListedOnce ==
  /\ v1 \in Paging!List
  /\ \A m, n \in DOMAIN v2 : v2[m] = v2[n] => m = n

LEMMA ListedInit == Paging!Init => ListedOnce
BY DEF Paging!Init, ListedOnce

LEMMA ListedAppear ==
  ASSUME PagesInv, ListedOnce, NEW i \in Item, NEW n \in 1 .. Len(v2) + 1, Paging!Appear(i, n)
  PROVE  ListedOnce'
<1>1. /\ v2' = Inserted(v2, n, i) /\ v1' = v1 /\ \A k \in DOMAIN v2 : v2[k] # i
  BY DEF Paging!Appear, Paging!InsertAt, Inserted, Paging!ToSet
<1>2. v2 \in Seq(Item) /\ Len(v2) \in Nat /\ DOMAIN v2 = 1 .. Len(v2)
  BY DEF PagesInv, PageTypes
<1>3. /\ DOMAIN v2' = 1 .. Len(v2) + 1
      /\ \A k \in 1 .. Len(v2) + 1 : v2'[k] = IF k < n THEN v2[k] ELSE IF k = n THEN i ELSE v2[k - 1]
  <2>1. IsInserted(Inserted(v2, n, i), v2, n, i)
    BY <1>2, WithOneMore
  <2>2. IsInserted(v2', v2, n, i)
    BY <1>1, <2>1
  <2> QED BY <2>2 DEF IsInserted
<1> DEFINE old(k) == IF k < n THEN k ELSE k - 1
<1>4. ASSUME NEW k \in DOMAIN v2', k # n PROVE old(k) \in DOMAIN v2 /\ v2'[k] = v2[old(k)]
  BY <1>2, <1>3, <1>4
<1>5. ASSUME NEW j \in DOMAIN v2', NEW k \in DOMAIN v2', v2'[j] = v2'[k] PROVE j = k
  <2>1. CASE j = n \/ k = n
    BY <1>1, <1>3, <1>4, <1>5, <2>1
  <2>2. CASE j # n /\ k # n
    <3>1. old(j) = old(k)
      BY <1>4, <1>5, <2>2 DEF ListedOnce
    <3> QED BY <1>3, <2>2, <3>1
  <2> QED BY <2>1, <2>2
<1> QED BY <1>1, <1>5 DEF ListedOnce

LEMMA ListedDisappear ==
  ASSUME PagesInv, ListedOnce, NEW n \in 1 .. Len(v2), Paging!Disappear(n)
  PROVE  ListedOnce'
<1>1. v2' = Removed(v2, n) /\ v1' = v1
  BY DEF Paging!Disappear, Paging!RemoveAt, Removed
<1>2. v2 \in Seq(Item) /\ Len(v2) \in Nat /\ DOMAIN v2 = 1 .. Len(v2)
  BY DEF PagesInv, PageTypes
<1>3. /\ v2' \in Seq(Item) /\ Len(v2') = Len(v2) - 1
      /\ \A k \in 1 .. Len(v2) - 1 : v2'[k] = IF k < n THEN v2[k] ELSE v2[k + 1]
  BY <1>1, <1>2, WithOneLess
<1>4. DOMAIN v2' = 1 .. Len(v2) - 1
  BY <1>3
<1> DEFINE old(k) == IF k < n THEN k ELSE k + 1
<1>5. ASSUME NEW k \in DOMAIN v2' PROVE old(k) \in DOMAIN v2 /\ v2'[k] = v2[old(k)]
  BY <1>2, <1>3, <1>4
<1>6. ASSUME NEW j \in DOMAIN v2', NEW k \in DOMAIN v2', v2'[j] = v2'[k] PROVE j = k
  <2>1. old(j) = old(k)
    BY <1>5, <1>6 DEF ListedOnce
  <2> QED BY <1>4, <2>1
<1> QED BY <1>1, <1>6 DEF ListedOnce

LEMMA ListedTouch ==
  ASSUME PagesInv, ListedOnce, NEW n \in 1 .. Len(v2), Paging!Touch(n)
  PROVE  ListedOnce'
<1>1. v2' = Moved(v2, n) /\ v1' = v1
  BY DEF Paging!Touch, Paging!RemoveAt, Removed, Moved
<1>2. v2 \in Seq(Item) /\ Len(v2) \in Nat /\ DOMAIN v2 = 1 .. Len(v2)
  BY DEF PagesInv, PageTypes
<1>3. /\ DOMAIN v2' = 1 .. Len(v2)
      /\ \A k \in 1 .. Len(v2) : v2'[k] = IF k = 1 THEN v2[n] ELSE IF k <= n THEN v2[k - 1] ELSE v2[k]
  BY <1>1, <1>2, MovedToFront DEF IsMoved
<1> DEFINE old(k) == IF k = 1 THEN n ELSE IF k <= n THEN k - 1 ELSE k
<1>4. ASSUME NEW k \in DOMAIN v2' PROVE old(k) \in DOMAIN v2 /\ v2'[k] = v2[old(k)]
  BY <1>2, <1>3
<1>5. ASSUME NEW j \in DOMAIN v2', NEW k \in DOMAIN v2', v2'[j] = v2'[k] PROVE j = k
  <2>1. old(j) = old(k)
    BY <1>4, <1>5 DEF ListedOnce
  <2> QED BY <1>2, <1>3, <2>1
<1> QED BY <1>1, <1>5 DEF ListedOnce

LEMMA ListedReorder ==
  ASSUME PagesInv, ListedOnce, NEW n \in 1 .. Len(v2), Paging!Reorder(n)
  PROVE  ListedOnce'
<1>1. v2' = [v2 EXCEPT ![n] = v2[n + 1], ![n + 1] = v2[n]] /\ n < Len(v2) /\ v1' = v1
  BY DEF Paging!Reorder
<1>2. Len(v2) \in Nat /\ v2 \in [1 .. Len(v2) -> Item]
  BY DEF PagesInv, PageTypes
<1> DEFINE old(k) == IF k = n THEN n + 1 ELSE IF k = n + 1 THEN n ELSE k
<1>3. DOMAIN v2' = 1 .. Len(v2) /\ DOMAIN v2 = 1 .. Len(v2)
  BY <1>1, <1>2
<1>4. ASSUME NEW k \in DOMAIN v2' PROVE old(k) \in DOMAIN v2 /\ v2'[k] = v2[old(k)]
  BY <1>1, <1>2, <1>3
<1>5. ASSUME NEW j \in DOMAIN v2', NEW k \in DOMAIN v2', v2'[j] = v2'[k] PROVE j = k
  <2>1. old(j) = old(k)
    BY <1>4, <1>5 DEF ListedOnce
  <2> QED BY <1>3, <2>1
<1> QED BY <1>1, <1>5 DEF ListedOnce

LEMMA ListedSteps == PagesInv /\ ListedOnce /\ Paging!Next => ListedOnce'
<1> SUFFICES ASSUME PagesInv, ListedOnce, Paging!Next PROVE ListedOnce'
  OBVIOUS
<1>1. ASSUME Paging!Open \/ Paging!Count \/ Paging!Fetch \/ Paging!Turn PROVE v1' = v1 /\ v2' = v2
  BY <1>1 DEF Paging!Open, Paging!Count, Paging!Fetch, Paging!Turn
<1>2. v1' = v1 /\ v2' = v2 => ListedOnce'
  BY DEF ListedOnce
<1> QED BY <1>1, <1>2, ListedAppear, ListedDisappear, ListedTouch, ListedReorder DEF Paging!Next

LEMMA PagesAlways == Spec => [](focus = "lists" => PagesInv /\ ListedOnce)
<1> DEFINE Inv == focus = "lists" => PagesInv /\ ListedOnce
<1>1. Init => Inv
  BY PagesInit, ListedInit DEF Init
<1>2. Inv /\ [Next]_vars => Inv'
  <2> SUFFICES ASSUME Inv, [Next]_vars, focus' = "lists" PROVE PagesInv' /\ ListedOnce'
    OBVIOUS
  <2>1. focus = "lists" /\ PagesInv /\ ListedOnce
    BY FocusStays
  <2>2. CASE Paging!Next
    BY <2>1, <2>2, PagesStep, ListedSteps
  <2>3. CASE UNCHANGED <<v1, v2, v3, v4, v5>>
    BY <2>1, <2>3 DEF ListedOnce, PagesInv, PageTypes, SeenSoFar, Leading, Passed, Fetches, Paging!NoneSkipped
  <2> QED BY <2>1, <2>2, <2>3 DEF Next, vars
<1> QED BY <1>1, <1>2, PTL DEF Spec

\* The theorem: a row that was there when the first page was asked for is on one of
\* the pages (the lists of users, tools, bookings, transactions and others), however
\* many rows appear or move to the front meanwhile, for any size of page.
THEOREM RowsShown == Spec => []NoneSkipped
<1>1. (focus = "lists" => PagesInv) => NoneSkipped
  BY DEF PagesInv, NoneSkipped
<1> QED BY <1>1, PagesAlways, PTL
-----------------------------------------------------------------------------
(***************************************************************************)
(* Windows that start with their first request.  f counts by age what was  *)
(* let through in the last W ticks; while a window is live, k ticks after  *)
(* its start, what it let through is the k + 1 youngest ages, and no more  *)
(* than its count.  The rest are older windows' and no more than a limit:  *)
(* a window is over W ticks after its start at the earliest, and nothing   *)
(* is let through between two windows.                                     *)
(***************************************************************************)
\* The oldest age that lies in a window that started k ticks ago.
Newest(W, k) == IF k < W - 1 THEN k ELSE W - 1

\* What f counts, a window that is live or not, and the count it keeps.
Windowed(f, W, live, k, count, lim) ==
  /\ f \in [0 .. W - 1 -> Nat]
  /\ live => /\ k \in Nat
             /\ Total(f, 0 .. Newest(W, k)) <= count
             /\ Total(f, 0 .. Newest(W, k)) <= lim
             /\ Total(f, 0 .. W - 1) <= Total(f, 0 .. Newest(W, k)) + lim
  /\ ~live => f[0] = 0 /\ Total(f, 0 .. W - 1) <= lim

\* Ages are finitely many.
LEMMA AgesFinite ==
  /\ \A n \in Nat : IsFiniteSet(0 .. n)
  /\ \A W \in Nat \ {0} : W - 1 \in Nat /\ IsFiniteSet(0 .. W - 1)
<1>1. ASSUME NEW n \in Nat PROVE IsFiniteSet(0 .. n)
  BY FS_Interval
<1>2. \A W \in Nat \ {0} : W - 1 \in Nat
  OBVIOUS
<1> QED BY <1>1, <1>2

\* The sums are integers, and a window has no more than there is.
LEMMA WindowSums ==
  ASSUME NEW W \in Nat \ {0}, NEW f \in [0 .. W - 1 -> Nat]
  PROVE  /\ Total(f, 0 .. W - 1) \in Int
         /\ \A k \in Nat : /\ Newest(W, k) \in 0 .. W - 1
                           /\ Total(f, 0 .. Newest(W, k)) \in Int
                           /\ Total(f, 0 .. Newest(W, k)) <= Total(f, 0 .. W - 1)
<1>1. IsFiniteSet(0 .. W - 1) /\ \A x \in 0 .. W - 1 : f[x] \in Int /\ f[x] \in Nat
  BY AgesFinite
<1>2. Total(f, 0 .. W - 1) \in Int
  BY <1>1, TotalInt
<1>3. ASSUME NEW k \in Nat
      PROVE  /\ Newest(W, k) \in 0 .. W - 1
             /\ Total(f, 0 .. Newest(W, k)) \in Int
             /\ Total(f, 0 .. Newest(W, k)) <= Total(f, 0 .. W - 1)
  <2>1. PICK n \in 0 .. W - 1 : n = Newest(W, k)
    BY DEF Newest
  <2>2. 0 .. n \in SUBSET (0 .. W - 1) /\ IsFiniteSet(0 .. n) /\ \A x \in 0 .. n : f[x] \in Int
    <3>1. n \in Nat /\ \A x \in 0 .. n : x \in 0 .. W - 1
      OBVIOUS
    <3> QED BY <3>1, AgesFinite
  <2>3. Total(f, 0 .. n) \in Int
    BY <2>2, TotalInt
  <2>4. Total(f, 0 .. n) <= Total(f, 0 .. W - 1)
    BY <1>1, <2>2, TotalFewer
  <2> QED BY <2>1, <2>3, <2>4
<1> QED BY <1>2, <1>3

\* Two windows' worth at most.
LEMMA WindowTwice ==
  ASSUME NEW W \in Nat \ {0}, NEW f, NEW live \in BOOLEAN, NEW k, NEW count, NEW lim \in Nat,
         Windowed(f, W, live, k, count, lim)
  PROVE  Total(f, 0 .. W - 1) <= 2 * lim
<1>1. f \in [0 .. W - 1 -> Nat] /\ Total(f, 0 .. W - 1) \in Int
  BY WindowSums DEF Windowed
<1>2. CASE live
  <2>1. PICK t \in Int : t = Total(f, 0 .. Newest(W, k))
    BY <1>1, <1>2, WindowSums DEF Windowed
  <2> QED BY <1>1, <1>2, <2>1 DEF Windowed
<1>3. CASE ~live
  BY <1>1, <1>3 DEF Windowed
<1> QED BY <1>2, <1>3

\* Nothing let through, and perhaps a window that starts.
LEMMA WindowStarts ==
  ASSUME NEW W \in Nat \ {0}, NEW f, NEW k, NEW count, NEW lim \in Nat,
         Windowed(f, W, FALSE, k, count, lim), NEW c \in Nat
  PROVE  Windowed(f, W, TRUE, 0, c, lim)
<1>1. f \in [0 .. W - 1 -> Nat] /\ f[0] = 0 /\ f[0] \in Int /\ Total(f, 0 .. W - 1) <= lim
  BY DEF Windowed
<1>2. Total(f, 0 .. 0) = 0
  BY <1>1, TotalFirst
<1>3. Newest(W, 0) = 0
  BY DEF Newest
<1>4. Total(f, 0 .. W - 1) \in Int
  BY <1>1, WindowSums
<1>5. /\ 0 \in Nat /\ Total(f, 0 .. Newest(W, 0)) <= c /\ Total(f, 0 .. Newest(W, 0)) <= lim
      /\ Total(f, 0 .. W - 1) <= Total(f, 0 .. Newest(W, 0)) + lim
  <2>1. Total(f, 0 .. Newest(W, 0)) = 0
    BY <1>2, <1>3
  <2>2. PICK t : t = Total(f, 0 .. Newest(W, 0))
    OBVIOUS
  <2> QED BY <1>1, <2>1, <2>2, <1>4
<1> QED BY <1>1, <1>5 DEF Windowed

\* The first let through starts a window.
LEMMA WindowOpens ==
  ASSUME NEW W \in Nat \ {0}, NEW f, NEW k, NEW count, NEW lim \in Nat \ {0},
         Windowed(f, W, FALSE, k, count, lim), NEW c \in Nat \ {0}
  PROVE  Windowed([f EXCEPT ![0] = @ + 1], W, TRUE, 0, c, lim)
<1> DEFINE e == [f EXCEPT ![0] = @ + 1]
<1>1. f \in [0 .. W - 1 -> Nat] /\ f[0] = 0 /\ Total(f, 0 .. W - 1) <= lim
  BY DEF Windowed
<1>2. /\ e \in [0 .. W - 1 -> Nat] /\ e[0] = 1 /\ e[0] \in Int /\ IsFiniteSet(0 .. W - 1)
      /\ 0 \in 0 .. W - 1
      /\ \A x \in 0 .. W - 1 : f[x] \in Int /\ e[x] \in Int
      /\ \A x \in (0 .. W - 1) \ {0} : e[x] = f[x]
  BY <1>1, AgesFinite
<1> HIDE DEF e
<1>3. Total(e, 0 .. 0) = 1
  BY <1>2, TotalFirst
<1>4. Newest(W, 0) = 0
  BY DEF Newest
<1>5. Total(e, 0 .. W - 1) = Total(f, 0 .. W - 1) - f[0] + e[0]
  BY <1>2, TotalChange
<1>6. Total(f, 0 .. W - 1) \in Int
  BY <1>1, WindowSums
<1>7. /\ 0 \in Nat /\ Total(e, 0 .. Newest(W, 0)) <= c /\ Total(e, 0 .. Newest(W, 0)) <= lim
      /\ Total(e, 0 .. W - 1) <= Total(e, 0 .. Newest(W, 0)) + lim
  <2>1. Total(e, 0 .. Newest(W, 0)) = 1
    BY <1>3, <1>4
  <2>2. PICK t : t = Total(e, 0 .. Newest(W, 0))
    OBVIOUS
  <2> QED BY <1>1, <2>1, <2>2, <1>2, <1>5, <1>6
<1>8. Windowed(e, W, TRUE, 0, c, lim)
  BY <1>2, <1>7 DEF Windowed
<1> QED BY <1>8 DEF e

\* One more in a window that is not full.
LEMMA WindowCounts ==
  ASSUME NEW W \in Nat \ {0}, NEW f, NEW k, NEW count \in Nat, NEW lim \in Nat,
         Windowed(f, W, TRUE, k, count, lim), count < lim
  PROVE  Windowed([f EXCEPT ![0] = @ + 1], W, TRUE, k, count + 1, lim)
<1> DEFINE e == [f EXCEPT ![0] = @ + 1]
<1>1. f \in [0 .. W - 1 -> Nat] /\ k \in Nat
  BY DEF Windowed
<1>2. /\ e \in [0 .. W - 1 -> Nat] /\ e[0] = f[0] + 1 /\ f[0] \in Nat
      /\ \A x \in 0 .. W - 1 : f[x] \in Int /\ e[x] \in Int
      /\ \A x \in (0 .. W - 1) \ {0} : e[x] = f[x]
  BY <1>1
<1> HIDE DEF e
<1>3. ASSUME NEW n \in 0 .. W - 1
      PROVE  Total(e, 0 .. n) = Total(f, 0 .. n) + 1 /\ Total(f, 0 .. n) \in Int
  <2>1. /\ 0 \in 0 .. n /\ IsFiniteSet(0 .. n)
        /\ \A x \in 0 .. n : f[x] \in Int /\ e[x] \in Int
        /\ \A x \in (0 .. n) \ {0} : e[x] = f[x]
    <3>1. n \in Nat /\ 0 \in 0 .. n /\ \A x \in 0 .. n : x \in 0 .. W - 1
      OBVIOUS
    <3> QED BY <1>2, <3>1, AgesFinite
  <2>2. Total(e, 0 .. n) = Total(f, 0 .. n) - f[0] + e[0]
    BY <2>1, TotalChange
  <2>3. Total(f, 0 .. n) \in Int
    BY <2>1, TotalInt
  <2> QED BY <1>2, <2>2, <2>3
<1>4. PICK n \in 0 .. W - 1 : n = Newest(W, k)
  BY <1>1, WindowSums
<1>5. W - 1 \in 0 .. W - 1
  OBVIOUS
<1>6. /\ Total(e, 0 .. n) = Total(f, 0 .. n) + 1 /\ Total(f, 0 .. n) \in Int
      /\ Total(e, 0 .. W - 1) = Total(f, 0 .. W - 1) + 1 /\ Total(f, 0 .. W - 1) \in Int
  BY <1>3, <1>5
<1>7. /\ Total(f, 0 .. n) <= count /\ Total(f, 0 .. n) <= lim
      /\ Total(f, 0 .. W - 1) <= Total(f, 0 .. n) + lim
  BY <1>4 DEF Windowed
<1>8. /\ Total(e, 0 .. n) <= count + 1 /\ Total(e, 0 .. n) <= lim
      /\ Total(e, 0 .. W - 1) <= Total(e, 0 .. n) + lim
  BY <1>6, <1>7
<1>9. Windowed(e, W, TRUE, k, count + 1, lim)
  BY <1>1, <1>2, <1>4, <1>8 DEF Windowed
<1> QED BY <1>9 DEF e

\* A count that grows without anything let through.
LEMMA WindowRefuses ==
  ASSUME NEW W \in Nat \ {0}, NEW f, NEW k, NEW count \in Nat, NEW lim \in Nat,
         Windowed(f, W, TRUE, k, count, lim), NEW c \in Nat, c >= count \/ c >= lim
  PROVE  Windowed(f, W, TRUE, k, c, lim)
<1>1. PICK t \in Int : t = Total(f, 0 .. Newest(W, k))
  BY WindowSums DEF Windowed
<1>2. t <= count /\ t <= lim
  BY <1>1 DEF Windowed
<1>3. t <= c
  BY <1>2
<1> QED BY <1>1, <1>3 DEF Windowed

\* A tick makes all a tick older; a window that is over had lasted W ticks.
LEMMA WindowTicks ==
  ASSUME NEW W \in Nat \ {0}, NEW f, NEW live \in BOOLEAN, NEW k, NEW count, NEW lim \in Nat,
         live => count \in Nat,
         Windowed(f, W, live, k, count, lim), NEW on \in BOOLEAN,
         on => live, (live /\ ~on) => k >= W - 1,
         NEW e, e = [a \in 0 .. W - 1 |-> IF a = 0 THEN 0 ELSE f[a - 1]]
  PROVE  Windowed(e, W, on, k + 1, count, lim)
<1>1. f \in [0 .. W - 1 -> Nat] /\ Total(f, 0 .. W - 1) \in Int
  BY WindowSums DEF Windowed
<1>2. e \in [0 .. W - 1 -> Nat] /\ e[0] = 0 /\ \A x \in 0 .. W - 1 : x + 1 \in 0 .. W - 1 => e[x + 1] = f[x]
  BY <1>1
<1>3. ASSUME NEW m \in Nat, m + 1 \in 0 .. W - 1
      PROVE  Total(e, 0 .. m + 1) = Total(f, 0 .. m)
  <2>1. (\A x \in 0 .. m : f[x] \in Int) /\ \A x \in 0 .. m : e[x + 1] = f[x]
    <3> SUFFICES ASSUME NEW x \in 0 .. m PROVE f[x] \in Int /\ e[x + 1] = f[x]
      OBVIOUS
    <3>1. x \in 0 .. W - 1 /\ x + 1 \in 0 .. W - 1
      BY <1>3
    <3> QED BY <1>1, <1>2, <3>1
  <2> QED BY <1>2, <2>1, TotalShift
<1>4. Total(e, 0 .. W - 1) <= Total(f, 0 .. W - 1) /\ Total(e, 0 .. W - 1) \in Int
  <2>1. Total(e, 0 .. W - 1) \in Int
    BY <1>2, WindowSums
  <2>2. CASE W = 1
    <3>1. W - 1 = 0 /\ f[0] \in Nat /\ f[0] \in Int /\ e[0] \in Int
      BY <1>1, <1>2, <2>2
    <3>2. Total(e, 0 .. 0) = 0 /\ Total(f, 0 .. 0) = f[0]
      BY <1>2, <3>1, TotalFirst
    <3> QED BY <2>1, <3>1, <3>2
  <2>3. CASE W # 1
    <3>1. PICK m \in Nat : m + 1 = W - 1
      <4>1. W - 2 \in Nat /\ (W - 2) + 1 = W - 1
        BY <2>3
      <4> QED BY <4>1
    <3>2. Total(e, 0 .. W - 1) = Total(f, 0 .. m)
      <4>1. m + 1 \in 0 .. W - 1
        BY <3>1
      <4>2. Total(e, 0 .. m + 1) = Total(f, 0 .. m)
        BY <1>3, <4>1
      <4> QED BY <3>1, <4>2
    <3>3. 0 .. m \in SUBSET (0 .. W - 1) /\ IsFiniteSet(0 .. W - 1) /\ \A x \in 0 .. W - 1 : f[x] \in Nat
      <4>1. \A x \in 0 .. m : x \in 0 .. W - 1
        BY <3>1
      <4> QED BY <1>1, <4>1, AgesFinite
    <3>4. Total(f, 0 .. m) <= Total(f, 0 .. W - 1)
      BY <3>3, TotalFewer
    <3> QED BY <2>1, <3>2, <3>4
  <2> QED BY <2>2, <2>3
<1>5. CASE ~live
  <2>1. Total(f, 0 .. W - 1) <= lim
    BY <1>5 DEF Windowed
  <2>2. Total(e, 0 .. W - 1) <= lim
    BY <1>1, <1>4, <2>1
  <2> QED BY <1>2, <1>5, <2>2 DEF Windowed
<1>6. CASE live
  <2>1. k \in Nat /\ Newest(W, k) \in 0 .. W - 1
    BY <1>1, <1>6, WindowSums DEF Windowed
  <2>2. CASE k < W - 1
    <3>1. Newest(W, k) = k /\ Newest(W, k + 1) = k + 1 /\ k + 1 \in 0 .. W - 1 /\ on
      BY <1>6, <2>1, <2>2 DEF Newest
    <3>2. Total(e, 0 .. k + 1) = Total(f, 0 .. k)
      BY <1>3, <2>1, <3>1
    <3>3. /\ Total(f, 0 .. k) <= count /\ Total(f, 0 .. k) <= lim
          /\ Total(f, 0 .. W - 1) <= Total(f, 0 .. k) + lim
      BY <1>6, <3>1 DEF Windowed
    <3>4. Total(f, 0 .. k) \in Int
      BY <1>1, <2>1, <3>1, WindowSums
    <3>5. Total(e, 0 .. W - 1) <= Total(e, 0 .. k + 1) + lim
      BY <1>1, <1>4, <3>2, <3>3, <3>4
    <3>6. k + 1 \in Nat
      BY <2>1
    <3> QED BY <1>2, <3>1, <3>2, <3>3, <3>5, <3>6 DEF Windowed
  <2>3. CASE ~(k < W - 1)
    <3>1. Newest(W, k) = W - 1 /\ Newest(W, k + 1) = W - 1 /\ k + 1 \in Nat
      BY <2>1, <2>3 DEF Newest
    <3>2. Total(f, 0 .. W - 1) <= count /\ Total(f, 0 .. W - 1) <= lim /\ count \in Nat
      BY <1>6, <3>1 DEF Windowed
    <3>3. /\ Total(e, 0 .. W - 1) <= count /\ Total(e, 0 .. W - 1) <= lim
          /\ Total(e, 0 .. W - 1) <= Total(e, 0 .. W - 1) + lim
      BY <1>1, <1>4, <3>2
    <3> QED BY <1>2, <3>1, <3>3 DEF Windowed
  <2> QED BY <2>2, <2>3
<1> QED BY <1>5, <1>6

\* Before the first request.
LEMMA WindowEmpty ==
  ASSUME NEW W \in Nat \ {0}, NEW f \in [0 .. W - 1 -> Nat], \A x \in 0 .. W - 1 : f[x] = 0,
         NEW k, NEW count, NEW lim \in Nat
  PROVE  Windowed(f, W, FALSE, k, count, lim)
<1>1. Total(f, 0 .. W - 1) = 0
  BY AgesFinite, TotalZero
<1>2. f[0] = 0
  OBVIOUS
<1> QED BY <1>1, <1>2 DEF Windowed
-----------------------------------------------------------------------------
(***************************************************************************)
(* RequestLimits: reads and writes share the count of their record, so     *)
(* both what was written and what was requested at all are within a limit  *)
(* of their own.  A block outlives the window, for a cleanup leaves the    *)
(* record that holds it.                                                   *)
(***************************************************************************)
\* The community modules' sum is the one the theorems of Sums are about.
LEMMA LimitsSum == ASSUME NEW f, NEW S PROVE Limits!SumFunctionOnSet(f, S) = Total(f, S)
BY DEF Limits!SumFunctionOnSet, Limits!FoldFunctionOnSet, Limits!MapThenFoldSet,
       Total, MapThenSumSet, MapThenFoldSet

\* The types, with requests as naturals: their bound is what is to be proved.
LimitsTypes ==
  /\ v1 \in Limits!Tick
  /\ v2 \in [kept : BOOLEAN, count : 0 .. ReadLimit + 1, reset : 0 .. LastTick + Window,
             until : 0 .. LastTick + WriteBlock + ReadBlock]
  /\ v3 \in [Limits!Age -> [Limits!Kind -> Nat]]
  /\ v4 \in 0 .. LastTick + WriteBlock + ReadBlock

\* What was let through, by age: the writes, and all of it.
Writes == [a \in 0 .. Window - 1 |-> v3[a]["write"]]
Requests == [a \in 0 .. Window - 1 |-> v3[a]["read"] + v3[a]["write"]]

\* The record's window lasts; the ticks since it started.
LimitsLive == v2.kept /\ v1 <= v2.reset
Elapsed == v1 - (v2.reset - Window)

\* A block that is to last is in the record.
LimitsInv ==
  /\ LimitsTypes
  /\ v1 < v4 => v2.kept /\ v2.until = v4
  /\ Windowed(Writes, Window, LimitsLive, Elapsed, v2.count, WriteLimit)
  /\ Windowed(Requests, Window, LimitsLive, Elapsed, v2.count, ReadLimit)

\* The configuration's numbers.
LEMMA LimitsNumbers ==
  /\ Window \in Nat \ {0} /\ ReadLimit \in Nat \ {0} /\ WriteLimit \in Nat \ {0}
  /\ ReadBlock \in Nat \ {0} /\ WriteBlock \in Nat \ {0} /\ LastTick \in Nat
  /\ WriteLimit <= ReadLimit
BY PlatformAssumption

\* Nothing was let through before the first tick.
LEMMA LimitsInit == Limits!Init => LimitsInv
<1> SUFFICES ASSUME Limits!Init PROVE LimitsInv
  OBVIOUS
<1>1. /\ v1 = 0 /\ v2 = [kept |-> FALSE, count |-> 0, reset |-> 0, until |-> 0] /\ v4 = 0
      /\ v3 = [a \in Limits!Age |-> [k \in Limits!Kind |-> 0]]
  BY DEF Limits!Init, Limits!NoRecord
<1>2. LimitsTypes
  BY <1>1, LimitsNumbers DEF LimitsTypes, Limits!Tick
<1>3. /\ Writes \in [0 .. Window - 1 -> Nat] /\ Requests \in [0 .. Window - 1 -> Nat]
      /\ \A x \in 0 .. Window - 1 : Writes[x] = 0 /\ Requests[x] = 0
  BY <1>1 DEF Writes, Requests, Limits!Age, Limits!Kind
<1>4. LimitsLive = FALSE
  BY <1>1 DEF LimitsLive
<1>5. /\ Windowed(Writes, Window, FALSE, Elapsed, v2.count, WriteLimit)
      /\ Windowed(Requests, Window, FALSE, Elapsed, v2.count, ReadLimit)
  BY <1>3, LimitsNumbers, WindowEmpty
<1>6. /\ Windowed(Writes, Window, LimitsLive, Elapsed, v2.count, WriteLimit)
      /\ Windowed(Requests, Window, LimitsLive, Elapsed, v2.count, ReadLimit)
  BY <1>4, <1>5
<1>7. ~(v1 < v4)
  BY <1>1
<1> QED BY <1>2, <1>6, <1>7 DEF LimitsInv

\* What the record of a request is.
LEMMA CurrentIs ==
  ASSUME LimitsInv
  PROVE  /\ LimitsLive => Limits!Current = v2
         /\ ~LimitsLive => Limits!Current = [kept |-> TRUE, count |-> 0, reset |-> v1 + Window, until |-> 0]
         /\ LimitsLive \in BOOLEAN
BY DEF Limits!Current, LimitsLive, Limits!Fresh, LimitsInv, LimitsTypes

\* The windows after a request that the record counts with c, and that is let
\* through in f or not.
LEMMA RequestCounted ==
  ASSUME LimitsInv, NEW f, NEW lim \in Nat \ {0}, NEW c \in Nat,
         Windowed(f, Window, LimitsLive, Elapsed, v2.count, lim),
         v1' = v1, v2'.reset = Limits!Current.reset, v2'.kept, v2'.count = c,
         c >= v2.count \/ c >= lim \/ ~LimitsLive
  PROVE  Windowed(f, Window, LimitsLive', Elapsed', c, lim)
<1>1. v1 \in Nat /\ v2.reset \in Nat /\ v2.count \in Nat /\ v2.kept \in BOOLEAN
  BY LimitsNumbers DEF LimitsInv, LimitsTypes, Limits!Tick
<1>2. CASE LimitsLive
  <2>1. LimitsLive' = TRUE /\ Elapsed' = Elapsed /\ LimitsLive = TRUE
    BY <1>1, <1>2, CurrentIs DEF LimitsLive, Elapsed
  <2>2. c >= v2.count \/ c >= lim
    BY <1>2
  <2>3. Windowed(f, Window, TRUE, Elapsed, v2.count, lim)
    BY <2>1
  <2> QED BY <1>1, <2>1, <2>2, <2>3, LimitsNumbers, WindowRefuses
<1>3. CASE ~LimitsLive
  <2>1. LimitsLive' = TRUE /\ Elapsed' = 0 /\ LimitsLive = FALSE
    BY <1>1, <1>3, LimitsNumbers, CurrentIs DEF LimitsLive, Elapsed
  <2>2. Windowed(f, Window, FALSE, Elapsed, v2.count, lim)
    BY <2>1
  <2> QED BY <2>1, <2>2, LimitsNumbers, WindowStarts
<1> QED BY <1>2, <1>3

\* The windows after a request that is let through under a limit.
LEMMA RequestPassed ==
  ASSUME LimitsInv, NEW f, NEW lim \in Nat \ {0},
         Windowed(f, Window, LimitsLive, Elapsed, v2.count, lim),
         v1' = v1, v2'.reset = Limits!Current.reset, v2'.kept, v2'.count = Limits!Current.count + 1,
         Limits!Current.count < lim
  PROVE  Windowed([f EXCEPT ![0] = @ + 1], Window, LimitsLive', Elapsed', v2'.count, lim)
<1>1. v1 \in Nat /\ v2.reset \in Nat /\ v2.count \in Nat /\ v2.kept \in BOOLEAN
  BY LimitsNumbers DEF LimitsInv, LimitsTypes, Limits!Tick
<1>2. CASE LimitsLive
  <2>1. LimitsLive' = TRUE /\ Elapsed' = Elapsed /\ LimitsLive = TRUE
        /\ v2'.count = v2.count + 1 /\ v2.count < lim
    BY <1>1, <1>2, CurrentIs DEF LimitsLive, Elapsed
  <2>2. Windowed(f, Window, TRUE, Elapsed, v2.count, lim)
    BY <2>1
  <2>3. Windowed([f EXCEPT ![0] = @ + 1], Window, TRUE, Elapsed, v2.count + 1, lim)
    BY <1>1, <2>1, <2>2, LimitsNumbers, WindowCounts
  <2> QED BY <2>1, <2>3
<1>3. CASE ~LimitsLive
  <2>1. LimitsLive' = TRUE /\ Elapsed' = 0 /\ LimitsLive = FALSE /\ v2'.count = 1
    BY <1>1, <1>3, LimitsNumbers, CurrentIs DEF LimitsLive, Elapsed
  <2>2. Windowed(f, Window, FALSE, Elapsed, v2.count, lim)
    BY <2>1
  <2>3. Windowed([f EXCEPT ![0] = @ + 1], Window, TRUE, 0, 1, lim)
    <3>1. 1 \in Nat \ {0}
      OBVIOUS
    <3> QED BY <2>2, <3>1, LimitsNumbers, WindowOpens
  <2> QED BY <2>1, <2>3
<1> QED BY <1>2, <1>3

\* The types after a request: the record is the current one but for its count.
LEMMA CurrentTypes ==
  ASSUME LimitsInv
  PROVE  /\ Limits!Current.kept
         /\ Limits!Current \in [kept : BOOLEAN, count : 0 .. ReadLimit + 1, reset : 0 .. LastTick + Window,
                               until : 0 .. LastTick + WriteBlock + ReadBlock]
         /\ v1 \in 0 .. LastTick
<1>1. CASE LimitsLive
  BY <1>1, CurrentIs DEF LimitsInv, LimitsTypes, LimitsLive, Limits!Tick
<1>2. CASE ~LimitsLive
  <2>1. v1 \in 0 .. LastTick /\ v1 + Window \in 0 .. LastTick + Window
        /\ 0 \in 0 .. ReadLimit + 1 /\ 0 \in 0 .. LastTick + WriteBlock + ReadBlock
    BY LimitsNumbers DEF LimitsInv, LimitsTypes, Limits!Tick
  <2>2. PICK c : c = Limits!Current
    OBVIOUS
  <2>3. c = [kept |-> TRUE, count |-> 0, reset |-> v1 + Window, until |-> 0]
    BY <1>2, <2>2, CurrentIs
  <2>4. c.kept /\ c \in [kept : BOOLEAN, count : 0 .. ReadLimit + 1, reset : 0 .. LastTick + Window,
                         until : 0 .. LastTick + WriteBlock + ReadBlock]
    BY <2>1, <2>3
  <2> QED BY <2>1, <2>2, <2>4
<1>3. v1 \in 0 .. LastTick
  BY DEF LimitsInv, LimitsTypes, Limits!Tick
<1> QED BY <1>1, <1>2, <1>3

\* A request that is let through, and that no block was to refuse.
LEMMA LimitsAdmit ==
  ASSUME LimitsInv, NEW kind \in Limits!Kind, Limits!Admit(kind)
  PROVE  LimitsInv' /\ v1 >= v4
<1>1. /\ v1' = v1 /\ v4' = v4
      /\ Limits!Current.count < Limits!Limit[kind] /\ ~Limits!Blocked
      /\ v2' = [Limits!Current EXCEPT !.count = @ + 1]
      /\ v3' = [v3 EXCEPT ![0][kind] = @ + 1]
  BY DEF Limits!Admit
<1>2. v1 >= v4
  BY <1>1, LimitsNumbers DEF LimitsInv, LimitsTypes, Limits!Blocked, Limits!Tick
<1>3. Limits!Limit[kind] \in Nat /\ Limits!Limit[kind] <= ReadLimit
  BY LimitsNumbers DEF Limits!Limit, Limits!Kind
<1>4. /\ v2'.kept /\ v2'.reset = Limits!Current.reset /\ v2'.count = Limits!Current.count + 1
      /\ Limits!Current.count \in Nat
  BY <1>1, CurrentTypes
<1>5. LimitsTypes'
  <2>1. v2' \in [kept : BOOLEAN, count : 0 .. ReadLimit + 1, reset : 0 .. LastTick + Window,
                 until : 0 .. LastTick + WriteBlock + ReadBlock]
    <3>1. Limits!Current.count + 1 \in 0 .. ReadLimit + 1
      BY <1>1, <1>3, <1>4, LimitsNumbers
    <3> QED BY <1>1, <3>1, CurrentTypes
  <2>2. v3' \in [Limits!Age -> [Limits!Kind -> Nat]]
    <3>1. v3 \in [Limits!Age -> [Limits!Kind -> Nat]] /\ 0 \in Limits!Age
      BY LimitsNumbers DEF LimitsInv, LimitsTypes, Limits!Age
    <3>2. PICK row \in [Limits!Kind -> Nat] : row = [v3[0] EXCEPT ![kind] = @ + 1]
      <4>1. v3[0] \in [Limits!Kind -> Nat] /\ v3[0][kind] + 1 \in Nat
        BY <3>1
      <4> QED BY <4>1
    <3>3. v3' = [v3 EXCEPT ![0] = row]
      BY <1>1, <3>2
    <3> QED BY <3>1, <3>3
  <2> QED BY <1>1, <2>1, <2>2 DEF LimitsInv, LimitsTypes
<1>6. 0 \in 0 .. Window - 1 /\ v3 \in [0 .. Window - 1 -> [{"read", "write"} -> Nat]]
  BY LimitsNumbers DEF LimitsInv, LimitsTypes, Limits!Age, Limits!Kind
<1>7. Requests' = [Requests EXCEPT ![0] = @ + 1]
  <2>1. /\ \A a \in 0 .. Window - 1 : a # 0 => v3'[a] = v3[a]
        /\ v3'[0]["read"] + v3'[0]["write"] = v3[0]["read"] + v3[0]["write"] + 1
    BY <1>1, <1>6 DEF Limits!Kind
  <2>2. ASSUME NEW a \in 0 .. Window - 1 PROVE Requests'[a] = [Requests EXCEPT ![0] = @ + 1][a]
    BY <2>1 DEF Requests
  <2> QED BY <2>2 DEF Requests
<1>8. Limits!Current.count < ReadLimit
  BY <1>1, <1>3, <1>4, LimitsNumbers
<1>9. Windowed(Requests', Window, LimitsLive', Elapsed', v2'.count, ReadLimit)
  BY <1>1, <1>4, <1>7, <1>8, LimitsNumbers, RequestPassed DEF LimitsInv
<1>10. Windowed(Writes', Window, LimitsLive', Elapsed', v2'.count, WriteLimit)
  <2>1. CASE kind = "write"
    <3>1. Writes' = [Writes EXCEPT ![0] = @ + 1] /\ Limits!Current.count < WriteLimit
      BY <1>1, <1>6, <2>1 DEF Writes, Limits!Limit, Limits!Kind
    <3> QED BY <1>1, <1>4, <3>1, LimitsNumbers, RequestPassed DEF LimitsInv
  <2>2. CASE kind = "read"
    <3>1. Writes' = Writes
      BY <1>1, <1>6, <2>2 DEF Writes
    <3>2. v2'.count \in Nat /\ (v2'.count >= v2.count \/ ~LimitsLive)
      BY <1>4, CurrentIs
    <3>3. Windowed(Writes, Window, LimitsLive', Elapsed', v2'.count, WriteLimit)
      BY <1>1, <1>4, <3>2, LimitsNumbers, RequestCounted DEF LimitsInv
    <3> QED BY <3>1, <3>3
  <2> QED BY <2>1, <2>2 DEF Limits!Kind
<1>11. (v1 < v4 => v2.kept /\ v2.until = v4)'
  BY <1>1, <1>2, LimitsNumbers DEF LimitsInv, LimitsTypes, Limits!Tick
<1> QED BY <1>2, <1>5, <1>9, <1>10, <1>11 DEF LimitsInv

\* A violation counts, lets nothing through and starts a block.
LEMMA LimitsViolate ==
  ASSUME LimitsInv, NEW kind \in Limits!Kind, Limits!Violate(kind)
  PROVE  LimitsInv'
<1> DEFINE c == Limits!Min({Limits!Current.count + 1, ReadLimit + 1})
           b == Limits!Block[kind]
<1>1. /\ v1' = v1 /\ v4' = v1 + b /\ v3' = v3
      /\ v2' = [Limits!Current EXCEPT !.count = c, !.until = v1 + b]
  BY DEF Limits!Violate
<1>2. b \in Nat /\ b <= WriteBlock + ReadBlock
  BY LimitsNumbers DEF Limits!Block, Limits!Kind
<1>3. Limits!Current.count \in Nat /\ ReadLimit \in Nat
  BY CurrentTypes, LimitsNumbers
<1>4. /\ c \in 0 .. ReadLimit + 1
      /\ c >= Limits!Current.count \/ c >= ReadLimit
  <2>1. PICK m \in Nat : m = Limits!Current.count
    BY <1>3
  <2>2. \E x \in {m + 1, ReadLimit + 1} : \A y \in {m + 1, ReadLimit + 1} : x <= y
    BY <1>3
  <2>3. c \in {m + 1, ReadLimit + 1} /\ \A y \in {m + 1, ReadLimit + 1} : c <= y
    BY <2>1, <2>2 DEF Limits!Min
  <2> HIDE DEF c
  <2> QED BY <1>3, <2>1, <2>3
<1> HIDE DEF c, b
<1>5. v2'.kept /\ v2'.reset = Limits!Current.reset /\ v2'.count = c /\ v2'.until = v1 + b /\ c \in Nat
  BY <1>1, <1>4, CurrentTypes
<1>6. LimitsTypes'
  <2>1. v1 + b \in 0 .. LastTick + WriteBlock + ReadBlock
    BY <1>2, CurrentTypes, LimitsNumbers
  <2>2. v2' \in [kept : BOOLEAN, count : 0 .. ReadLimit + 1, reset : 0 .. LastTick + Window,
                 until : 0 .. LastTick + WriteBlock + ReadBlock]
    BY <1>1, <1>4, <2>1, CurrentTypes
  <2> QED BY <1>1, <2>1, <2>2 DEF LimitsInv, LimitsTypes
<1>7. /\ c >= v2.count \/ c >= ReadLimit \/ ~LimitsLive
      /\ c >= v2.count \/ c >= WriteLimit \/ ~LimitsLive
  BY <1>4, <1>5, CurrentIs, LimitsNumbers
<1>8. Windowed(Requests, Window, LimitsLive', Elapsed', c, ReadLimit)
  BY <1>1, <1>5, <1>7, LimitsNumbers, RequestCounted DEF LimitsInv
<1>9. Windowed(Writes, Window, LimitsLive', Elapsed', c, WriteLimit)
  BY <1>1, <1>5, <1>7, LimitsNumbers, RequestCounted DEF LimitsInv
<1>10. Writes' = Writes /\ Requests' = Requests
  BY <1>1 DEF Writes, Requests
<1> QED BY <1>1, <1>5, <1>6, <1>8, <1>9, <1>10 DEF LimitsInv

\* A cleanup takes a record whose window and block are over.
LEMMA LimitsCleanup ==
  ASSUME LimitsInv, Limits!Cleanup
  PROVE  LimitsInv'
<1>1. /\ v1' = v1 /\ v3' = v3 /\ v4' = v4 /\ v2.kept /\ v1 > v2.reset
      /\ v2.until = 0 \/ v1 > v2.until
      /\ v2' = [kept |-> FALSE, count |-> 0, reset |-> 0, until |-> 0]
  BY DEF Limits!Cleanup, Limits!NoRecord
<1>2. v1 \in Nat /\ v2.reset \in Nat /\ v2.until \in Nat /\ v4 \in Nat
  BY LimitsNumbers DEF LimitsInv, LimitsTypes, Limits!Tick
<1>3. ~(v1 < v4)
  BY <1>1, <1>2 DEF LimitsInv
<1>4. LimitsLive = FALSE /\ LimitsLive' = FALSE
  BY <1>1, <1>2 DEF LimitsLive
<1>5. Writes' = Writes /\ Requests' = Requests
  BY <1>1 DEF Writes, Requests
<1>6. LimitsTypes'
  BY <1>1, LimitsNumbers DEF LimitsInv, LimitsTypes
<1>7. Windowed(Writes, Window, FALSE, Elapsed', v2'.count, WriteLimit)
      /\ Windowed(Requests, Window, FALSE, Elapsed', v2'.count, ReadLimit)
  BY <1>4 DEF LimitsInv, Windowed
<1> QED BY <1>1, <1>3, <1>4, <1>5, <1>6, <1>7 DEF LimitsInv

\* A tick.
LEMMA LimitsAdvance ==
  ASSUME LimitsInv, Limits!Advance
  PROVE  LimitsInv'
<1>1. /\ v1 < LastTick /\ v1' = v1 + 1 /\ v2' = v2 /\ v4' = v4
      /\ v3' = [a \in Limits!Age |-> IF a = 0 THEN [k \in Limits!Kind |-> 0] ELSE v3[a - 1]]
  BY DEF Limits!Advance
<1>2. /\ v1 \in Nat /\ v2.reset \in Nat /\ v2.count \in Nat /\ v4 \in Nat /\ v2.kept \in BOOLEAN
      /\ v3 \in [0 .. Window - 1 -> [{"read", "write"} -> Nat]] /\ v1 \in 0 .. LastTick
  BY LimitsNumbers DEF LimitsInv, LimitsTypes, Limits!Tick, Limits!Age, Limits!Kind
<1>3. \A a \in 0 .. Window - 1 : a # 0 => a - 1 \in 0 .. Window - 1
  BY LimitsNumbers
<1>4. v3' = [a \in 0 .. Window - 1 |-> IF a = 0 THEN [k \in {"read", "write"} |-> 0] ELSE v3[a - 1]]
  BY <1>1 DEF Limits!Age, Limits!Kind
<1>5. LimitsTypes'
  <2>1. v1' \in 0 .. LastTick
    BY <1>1, <1>2, LimitsNumbers
  <2>2. v3' \in [0 .. Window - 1 -> [{"read", "write"} -> Nat]]
    BY <1>2, <1>3, <1>4
  <2> QED BY <1>1, <2>1, <2>2 DEF LimitsInv, LimitsTypes, Limits!Tick, Limits!Age, Limits!Kind
<1>6. /\ Writes' = [a \in 0 .. Window - 1 |-> IF a = 0 THEN 0 ELSE Writes[a - 1]]
      /\ Requests' = [a \in 0 .. Window - 1 |-> IF a = 0 THEN 0 ELSE Requests[a - 1]]
  <2>1. ASSUME NEW a \in 0 .. Window - 1
        PROVE  /\ Writes'[a] = IF a = 0 THEN 0 ELSE Writes[a - 1]
               /\ Requests'[a] = IF a = 0 THEN 0 ELSE Requests[a - 1]
    <3>1. CASE a = 0
      BY <1>4, <3>1 DEF Writes, Requests
    <3>2. CASE a # 0
      <4>1. a - 1 \in 0 .. Window - 1 /\ v3'[a] = v3[a - 1]
        BY <1>3, <1>4, <3>2
      <4> QED BY <3>2, <4>1 DEF Writes, Requests
    <3> QED BY <3>1, <3>2
  <2> QED BY <2>1 DEF Writes, Requests
<1>7. /\ LimitsLive \in BOOLEAN /\ LimitsLive' \in BOOLEAN /\ (LimitsLive' => LimitsLive)
      /\ (LimitsLive /\ ~LimitsLive' => Elapsed >= Window - 1) /\ Elapsed' = Elapsed + 1
  BY <1>1, <1>2, LimitsNumbers DEF LimitsLive, Elapsed
<1>11. PICK live \in BOOLEAN, on \in BOOLEAN :
         /\ live = LimitsLive /\ on = LimitsLive' /\ (on => live)
         /\ ((live /\ ~on) => Elapsed >= Window - 1)
  BY <1>7
<1>8. Windowed(Writes', Window, LimitsLive', Elapsed', v2'.count, WriteLimit)
  <2>1. Windowed(Writes, Window, live, Elapsed, v2.count, WriteLimit)
    BY <1>11 DEF LimitsInv
  <2>2. PICK f, e, k, c : f = Writes /\ e = Writes' /\ k = Elapsed /\ c = v2.count
    OBVIOUS
  <2>3. /\ Windowed(f, Window, live, k, c, WriteLimit) /\ c \in Nat
        /\ (on => live) /\ ((live /\ ~on) => k >= Window - 1)
        /\ e = [a \in 0 .. Window - 1 |-> IF a = 0 THEN 0 ELSE f[a - 1]]
    BY <1>2, <1>6, <1>11, <2>1, <2>2
  <2>4. Windowed(e, Window, on, k + 1, c, WriteLimit)
    BY <2>3, LimitsNumbers, WindowTicks
  <2> QED BY <1>1, <1>7, <1>11, <2>2, <2>4
<1>9. Windowed(Requests', Window, LimitsLive', Elapsed', v2'.count, ReadLimit)
  <2>1. Windowed(Requests, Window, live, Elapsed, v2.count, ReadLimit)
    BY <1>11 DEF LimitsInv
  <2>2. PICK f, e, k, c : f = Requests /\ e = Requests' /\ k = Elapsed /\ c = v2.count
    OBVIOUS
  <2>3. /\ Windowed(f, Window, live, k, c, ReadLimit) /\ c \in Nat
        /\ (on => live) /\ ((live /\ ~on) => k >= Window - 1)
        /\ e = [a \in 0 .. Window - 1 |-> IF a = 0 THEN 0 ELSE f[a - 1]]
    BY <1>2, <1>6, <1>11, <2>1, <2>2
  <2>4. Windowed(e, Window, on, k + 1, c, ReadLimit)
    BY <2>3, LimitsNumbers, WindowTicks
  <2> QED BY <1>1, <1>7, <1>11, <2>2, <2>4
<1>10. (v1 < v4 => v2.kept /\ v2.until = v4)'
  BY <1>1, <1>2 DEF LimitsInv
<1> QED BY <1>5, <1>8, <1>9, <1>10 DEF LimitsInv

\* Every step keeps the invariant,
LEMMA LimitsSteps == LimitsInv /\ Limits!Next => LimitsInv'
<1> SUFFICES ASSUME LimitsInv, Limits!Next PROVE LimitsInv'
  OBVIOUS
<1>1. ASSUME UNCHANGED <<v1, v2, v3, v4>> PROVE LimitsInv'
  BY <1>1 DEF LimitsInv, LimitsTypes, LimitsLive, Elapsed, Writes, Requests
<1>2. ASSUME NEW kind \in Limits!Kind, Limits!Refuse(kind) PROVE LimitsInv'
  BY <1>1, <1>2 DEF Limits!Refuse, Limits!vars
<1> QED BY <1>2, LimitsAdmit, LimitsViolate, LimitsCleanup, LimitsAdvance DEF Limits!Next

\* What is let through, as the property adds it up.
LEMMA LatelyIs ==
  ASSUME NEW p \in [Limits!Age -> [Limits!Kind -> Nat]]
  PROVE  /\ Limits!SumFunctionOnSet([a \in Limits!Age |-> Limits!SumFunctionOnSet(p[a], {"write"})], Limits!Age)
              = Total([a \in 0 .. Window - 1 |-> p[a]["write"]], 0 .. Window - 1)
         /\ Limits!SumFunctionOnSet([a \in Limits!Age |-> Limits!SumFunctionOnSet(p[a], Limits!Kind)], Limits!Age)
              = Total([a \in 0 .. Window - 1 |-> p[a]["read"] + p[a]["write"]], 0 .. Window - 1)
<1>1. p \in [0 .. Window - 1 -> [{"read", "write"} -> Nat]]
  BY DEF Limits!Age, Limits!Kind
<1>3. ASSUME NEW f \in [{"read", "write"} -> Nat]
      PROVE  Total(f, {"read", "write"}) = f["read"] + f["write"] /\ Total(f, {"write"}) = f["write"]
  <2>1. f["read"] \in Int /\ f["write"] \in Int
    OBVIOUS
  <2>2. IsFiniteSet({"write"})
    BY FS_Singleton
  <2>3. Total(f, {"write"}) = f["write"]
    BY <2>1, <2>2, TotalOne
  <2>4. \A y \in {"write"} \cup {"read"} : f[y] \in Int
    BY <2>1
  <2>5. Total(f, {"write"} \cup {"read"}) = f["read"] + Total(f, {"write"})
    BY <2>1, <2>4, <2>2, TotalMore
  <2>6. {"read", "write"} = {"write"} \cup {"read"}
    OBVIOUS
  <2> QED BY <2>3, <2>5, <2>6
<1>4. ASSUME NEW a \in 0 .. Window - 1
      PROVE  /\ Limits!SumFunctionOnSet(p[a], {"write"}) = p[a]["write"]
             /\ Limits!SumFunctionOnSet(p[a], {"read", "write"}) = p[a]["read"] + p[a]["write"]
  <2>1. PICK f \in [{"read", "write"} -> Nat] : f = p[a]
    BY <1>1
  <2>2. /\ Limits!SumFunctionOnSet(f, {"write"}) = Total(f, {"write"})
        /\ Limits!SumFunctionOnSet(f, {"read", "write"}) = Total(f, {"read", "write"})
    BY LimitsSum
  <2> QED BY <1>3, <2>1, <2>2
<1>5. /\ [a \in 0 .. Window - 1 |-> Limits!SumFunctionOnSet(p[a], {"write"})]
           = [a \in 0 .. Window - 1 |-> p[a]["write"]]
      /\ [a \in 0 .. Window - 1 |-> Limits!SumFunctionOnSet(p[a], {"read", "write"})]
           = [a \in 0 .. Window - 1 |-> p[a]["read"] + p[a]["write"]]
  BY <1>4
<1> QED BY <1>5, LimitsSum DEF Limits!Age, Limits!Kind

\* and lets through what the property allows.
LEMMA LimitsStepOk == LimitsInv /\ Limits!Next => Limits!AdmittedStep
<1> SUFFICES ASSUME LimitsInv, Limits!Next, v1' = v1, v3' # v3
             PROVE  /\ v1 >= v4
                    /\ Limits!Lately({"write"})' <= 2 * WriteLimit
                    /\ Limits!Lately(Limits!Kind)' <= 2 * ReadLimit
  BY DEF Limits!AdmittedStep
<1>1. PICK kind \in Limits!Kind : Limits!Admit(kind)
  <2>1. ~Limits!Advance
    BY LimitsNumbers DEF Limits!Advance, LimitsInv, LimitsTypes, Limits!Tick
  <2> QED BY <2>1, Zenon DEF Limits!Next, Limits!Refuse, Limits!Violate, Limits!Cleanup, Limits!vars
<1>2. LimitsInv' /\ v1 >= v4
  BY <1>1, LimitsAdmit
<1>3. LimitsLive' \in BOOLEAN
  BY <1>2 DEF LimitsInv, LimitsTypes, LimitsLive
<1>4. Total(Writes', 0 .. Window - 1) <= 2 * WriteLimit /\ Total(Requests', 0 .. Window - 1) <= 2 * ReadLimit
  BY <1>2, <1>3, LimitsNumbers, WindowTwice DEF LimitsInv
<1>5. v3' \in [Limits!Age -> [Limits!Kind -> Nat]]
  BY <1>2 DEF LimitsInv, LimitsTypes
<1>6. /\ Limits!Lately({"write"})' = Total(Writes', 0 .. Window - 1)
      /\ Limits!Lately(Limits!Kind)' = Total(Requests', 0 .. Window - 1)
  BY <1>5, LatelyIs DEF Limits!Lately, Writes, Requests
<1> QED BY <1>2, <1>4, <1>6
-----------------------------------------------------------------------------
(***************************************************************************)
(* WebhookLimits: every key has windows of its own; a delivery that a      *)
(* level refuses is counted by the levels before, and let through by none. *)
(***************************************************************************)
\* And here too.
LEMMA DeliveriesSum == ASSUME NEW f, NEW S PROVE Deliveries!SumFunctionOnSet(f, S) = Total(f, S)
BY DEF Deliveries!SumFunctionOnSet, Deliveries!FoldFunctionOnSet, Deliveries!MapThenFoldSet,
       Total, MapThenSumSet, MapThenFoldSet

\* The types; no count exceeds the limit of its key.
DeliveryTypes ==
  /\ v1 \in 0 .. LastMinute
  /\ v2 \in [Deliveries!Key -> [count : Nat, reset : 0 .. LastMinute + Period]]
  /\ \A k \in Deliveries!Key : v2[k].count <= Deliveries!Limit[k]
  /\ v3 \in [Deliveries!Key -> [Deliveries!Ago -> Nat]]

\* The window of a key lasts; the ticks since it started.
KeyLive(k) == v1 < v2[k].reset
KeyElapsed(k) == v1 - (v2[k].reset - Period)

KeyWithin(k) ==
  Windowed(v3[k], Period, KeyLive(k), KeyElapsed(k), v2[k].count, Deliveries!Limit[k])

DeliveriesInv == DeliveryTypes /\ \A k \in Deliveries!Key : KeyWithin(k)

\* The configuration's numbers.
LEMMA DeliveryNumbers ==
  /\ Period \in Nat \ {0} /\ LastMinute \in Nat
  /\ \A k \in Deliveries!Key : Deliveries!Limit[k] \in Nat \ {0}
BY PlatformAssumption DEF Deliveries!Limit, Deliveries!Key

\* No delivery was counted at first.
LEMMA DeliveriesInit == Deliveries!Init => DeliveriesInv
<1> SUFFICES ASSUME Deliveries!Init PROVE DeliveriesInv
  OBVIOUS
<1>1. /\ v1 = 0 /\ v2 = [k \in Deliveries!Key |-> [count |-> 0, reset |-> 0]]
      /\ v3 = [k \in Deliveries!Key |-> [a \in Deliveries!Ago |-> 0]]
  BY DEF Deliveries!Init, Deliveries!NoEntry
<1>2. DeliveryTypes
  <2>1. \A k \in Deliveries!Key : 0 <= Deliveries!Limit[k]
    BY DeliveryNumbers
  <2>2. 0 \in 0 .. LastMinute /\ 0 \in 0 .. LastMinute + Period
    BY DeliveryNumbers
  <2> QED BY <1>1, <2>1, <2>2 DEF DeliveryTypes
<1>3. ASSUME NEW k \in Deliveries!Key PROVE KeyWithin(k)
  <2>1. v3[k] \in [0 .. Period - 1 -> Nat] /\ (\A x \in 0 .. Period - 1 : v3[k][x] = 0)
    BY <1>1 DEF Deliveries!Ago
  <2>2. KeyLive(k) = FALSE
    BY <1>1 DEF KeyLive
  <2>3. Windowed(v3[k], Period, FALSE, KeyElapsed(k), v2[k].count, Deliveries!Limit[k])
    BY <2>1, DeliveryNumbers, WindowEmpty
  <2> QED BY <2>2, <2>3 DEF KeyWithin
<1> QED BY <1>2, <1>3 DEF DeliveriesInv

\* What one delivery does to a key: nothing, or it is counted, and then it may be
\* let through.
LEMMA KeyDelivered ==
  ASSUME DeliveriesInv, v1' = v1, NEW k \in Deliveries!Key,
         \/ v2'[k] = v2[k] /\ v3'[k] = v3[k]
         \/ /\ ~Deliveries!Full(k) /\ v2'[k] = Deliveries!Counted(k)
            /\ \/ v3'[k] = v3[k]
               \/ v3'[k] = [v3[k] EXCEPT ![0] = @ + 1]
  PROVE  KeyWithin(k)' /\ v2'[k] \in [count : Nat, reset : 0 .. LastMinute + Period]
         /\ v2'[k].count <= Deliveries!Limit[k] /\ v3'[k] \in [Deliveries!Ago -> Nat]
<1>1. /\ v1 \in 0 .. LastMinute /\ v2[k] \in [count : Nat, reset : 0 .. LastMinute + Period]
      /\ v2[k].count <= Deliveries!Limit[k] /\ v3[k] \in [0 .. Period - 1 -> Nat]
  BY DEF DeliveriesInv, DeliveryTypes, Deliveries!Ago
<1>2. Deliveries!Limit[k] \in Nat \ {0} /\ Period \in Nat \ {0} /\ LastMinute \in Nat /\ 0 \in 0 .. Period - 1
  BY DeliveryNumbers
<1>3. CASE v2'[k] = v2[k] /\ v3'[k] = v3[k]
  BY <1>1, <1>3 DEF DeliveriesInv, KeyWithin, KeyLive, KeyElapsed, Deliveries!Ago
<1>4. CASE /\ ~Deliveries!Full(k) /\ v2'[k] = Deliveries!Counted(k)
           /\ \/ v3'[k] = v3[k]
              \/ v3'[k] = [v3[k] EXCEPT ![0] = @ + 1]
  <2> DEFINE up == [v3[k] EXCEPT ![0] = @ + 1]
  <2>1. up \in [0 .. Period - 1 -> Nat]
    BY <1>1, <1>2
  <2> HIDE DEF up
  <2>2. v3'[k] \in [Deliveries!Ago -> Nat] /\ (v3'[k] = v3[k] \/ v3'[k] = up)
    BY <1>1, <1>4, <2>1 DEF Deliveries!Ago, up
  <2>3. CASE KeyLive(k)
    <3>1. /\ v2[k].count < Deliveries!Limit[k] /\ v2'[k] = [v2[k] EXCEPT !.count = @ + 1]
      BY <1>1, <1>2, <1>4, <2>3 DEF KeyLive, Deliveries!Full, Deliveries!Expired, Deliveries!Counted
    <3>2. /\ v2'[k].count = v2[k].count + 1 /\ v2'[k].reset = v2[k].reset
          /\ v2'[k] \in [count : Nat, reset : 0 .. LastMinute + Period]
          /\ v2'[k].count <= Deliveries!Limit[k] /\ v2'[k].count \in Nat
          /\ v2'[k].count >= v2[k].count /\ v2[k].count \in Nat
      <4>1. PICK d, e : d = v2[k] /\ e = v2'[k]
        OBVIOUS
      <4>2. d \in [count : Nat, reset : 0 .. LastMinute + Period] /\ e = [d EXCEPT !.count = d.count + 1]
            /\ d.count < Deliveries!Limit[k]
        BY <1>1, <3>1, <4>1
      <4>3. e.count = d.count + 1 /\ e.reset = d.reset /\ d.count \in Nat
        BY <4>2
      <4>4. e \in [count : Nat, reset : 0 .. LastMinute + Period]
        BY <4>2
      <4>5. e.count <= Deliveries!Limit[k] /\ e.count \in Nat /\ e.count >= d.count
        BY <1>2, <4>2, <4>3
      <4> QED BY <4>1, <4>3, <4>4, <4>5
    <3>3. KeyLive(k) = TRUE /\ KeyLive(k)' = TRUE /\ KeyElapsed(k)' = KeyElapsed(k)
      BY <2>3, <3>2 DEF KeyLive, KeyElapsed
    <3>4. Windowed(v3[k], Period, TRUE, KeyElapsed(k), v2[k].count, Deliveries!Limit[k])
      BY <3>3 DEF DeliveriesInv, KeyWithin
    <3>5. Windowed(v3[k], Period, TRUE, KeyElapsed(k), v2'[k].count, Deliveries!Limit[k])
      BY <1>2, <3>2, <3>4, WindowRefuses
    <3>6. Windowed(up, Period, TRUE, KeyElapsed(k), v2[k].count + 1, Deliveries!Limit[k])
      BY <1>2, <3>1, <3>2, <3>4, WindowCounts DEF up
    <3>7. Windowed(v3'[k], Period, TRUE, KeyElapsed(k), v2'[k].count, Deliveries!Limit[k])
      BY <2>2, <3>2, <3>5, <3>6
    <3> QED BY <2>2, <3>2, <3>3, <3>7 DEF KeyWithin
  <2>4. CASE ~KeyLive(k)
    <3>1. v2'[k] = [count |-> 1, reset |-> v1 + Period]
      BY <1>1, <2>4, <1>4 DEF KeyLive, Deliveries!Expired, Deliveries!Counted
    <3>2. /\ v2'[k].count = 1 /\ v2'[k].reset = v1 + Period /\ 1 \in Nat \ {0} /\ 1 \in Nat
          /\ v2'[k] \in [count : Nat, reset : 0 .. LastMinute + Period]
          /\ v2'[k].count <= Deliveries!Limit[k]
      <4>1. v1 + Period \in 0 .. LastMinute + Period
        BY <1>1, <1>2
      <4> QED BY <1>2, <3>1, <4>1
    <3>3. KeyLive(k) = FALSE /\ KeyLive(k)' = TRUE /\ KeyElapsed(k)' = 0
      BY <1>1, <1>2, <2>4, <3>2 DEF KeyLive, KeyElapsed
    <3>4. Windowed(v3[k], Period, FALSE, KeyElapsed(k), v2[k].count, Deliveries!Limit[k])
      BY <3>3 DEF DeliveriesInv, KeyWithin
    <3>5. Windowed(v3[k], Period, TRUE, 0, 1, Deliveries!Limit[k])
      BY <1>2, <3>2, <3>4, WindowStarts
    <3>6. Windowed(up, Period, TRUE, 0, 1, Deliveries!Limit[k])
      BY <1>2, <3>2, <3>4, WindowOpens DEF up
    <3>7. Windowed(v3'[k], Period, TRUE, 0, 1, Deliveries!Limit[k])
      BY <2>2, <3>5, <3>6
    <3> QED BY <2>2, <3>2, <3>3, <3>7 DEF KeyWithin
  <2> QED BY <2>3, <2>4
<1> QED BY <1>3, <1>4

\* A delivery counts under the keys it is asked of, until one is full.
LEMMA DeliveriesDeliver ==
  ASSUME DeliveriesInv, NEW address \in Address, NEW type \in EventType, Deliveries!Deliver(address, type)
  PROVE  DeliveriesInv'
<1> DEFINE levels == <<"global", address, type>>
           asked == {i \in 1 .. 3 : \A j \in 1 .. i - 1 : ~Deliveries!Full(levels[j])}
           keys == {levels[i] : i \in asked}
           allowed == \A k \in keys : ~Deliveries!Full(k)
<1>1. /\ v2' = [k \in Deliveries!Key |-> IF k \in keys THEN Deliveries!Counted(k) ELSE v2[k]]
      /\ v3' = [k \in Deliveries!Key |-> IF allowed /\ k \in keys THEN [v3[k] EXCEPT ![0] = @ + 1] ELSE v3[k]]
      /\ v1' = v1
  BY DEF Deliveries!Deliver
<1> HIDE DEF levels, asked, keys, allowed
<1>2. ASSUME NEW k \in Deliveries!Key
      PROVE  \/ v2'[k] = v2[k] /\ v3'[k] = v3[k]
             \/ /\ ~Deliveries!Full(k) /\ v2'[k] = Deliveries!Counted(k)
                /\ \/ v3'[k] = v3[k]
                   \/ v3'[k] = [v3[k] EXCEPT ![0] = @ + 1]
  <2>1. CASE k \notin keys
    BY <1>1, <2>1
  <2>2. CASE k \in keys /\ Deliveries!Full(k)
    <3>1. ~allowed
      BY <2>2 DEF allowed
    <3>2. Deliveries!Counted(k) = v2[k]
      BY <2>2 DEF Deliveries!Counted, Deliveries!Full
    <3> QED BY <1>1, <2>2, <3>1, <3>2
  <2>3. CASE k \in keys /\ ~Deliveries!Full(k)
    BY <1>1, <2>3
  <2> QED BY <2>1, <2>2, <2>3
<1>3. ASSUME NEW k \in Deliveries!Key
      PROVE  /\ KeyWithin(k)' /\ v2'[k] \in [count : Nat, reset : 0 .. LastMinute + Period]
             /\ v2'[k].count <= Deliveries!Limit[k] /\ v3'[k] \in [Deliveries!Ago -> Nat]
  BY <1>1, <1>2, KeyDelivered
<1>4. DeliveryTypes'
  <2>1. DOMAIN v2' = Deliveries!Key /\ v2' = [k \in Deliveries!Key |-> v2'[k]]
        /\ v3' = [k \in Deliveries!Key |-> v3'[k]]
    BY <1>1
  <2> QED BY <1>1, <1>3, <2>1 DEF DeliveriesInv, DeliveryTypes
<1> QED BY <1>3, <1>4 DEF DeliveriesInv

\* A cleanup forgets the windows that are over.
LEMMA DeliveriesCleanUp ==
  ASSUME DeliveriesInv, Deliveries!CleanUp PROVE DeliveriesInv'
<1>1. /\ v2' = [k \in Deliveries!Key |-> IF Deliveries!Expired(k) THEN [count |-> 0, reset |-> 0] ELSE v2[k]]
      /\ v1' = v1 /\ v3' = v3
  BY DEF Deliveries!CleanUp, Deliveries!NoEntry
<1>2. DeliveryTypes'
  <2>1. /\ 0 \in 0 .. LastMinute + Period /\ 0 \in Nat
        /\ \A k \in Deliveries!Key : 0 <= Deliveries!Limit[k]
    BY DeliveryNumbers
  <2> QED BY <1>1, <2>1 DEF DeliveriesInv, DeliveryTypes
<1>3. ASSUME NEW k \in Deliveries!Key PROVE KeyWithin(k)'
  <2>1. CASE Deliveries!Expired(k)
    <3>1. v1 \in Nat /\ v2[k].reset \in Nat /\ v2'[k].reset = 0
      BY <1>1, <2>1, DeliveryNumbers DEF DeliveriesInv, DeliveryTypes
    <3>2. KeyLive(k) = FALSE /\ KeyLive(k)' = FALSE
      BY <1>1, <2>1, <3>1 DEF KeyLive, Deliveries!Expired
    <3>3. Windowed(v3[k], Period, FALSE, KeyElapsed(k), v2[k].count, Deliveries!Limit[k])
      BY <3>2 DEF DeliveriesInv, KeyWithin
    <3>4. Windowed(v3[k], Period, FALSE, KeyElapsed(k)', v2'[k].count, Deliveries!Limit[k])
      BY <3>3 DEF Windowed
    <3> QED BY <1>1, <3>2, <3>4 DEF KeyWithin
  <2>2. CASE ~Deliveries!Expired(k)
    BY <1>1, <2>2 DEF DeliveriesInv, KeyWithin, KeyLive, KeyElapsed
  <2> QED BY <2>1, <2>2
<1> QED BY <1>2, <1>3 DEF DeliveriesInv

\* A tick.
LEMMA DeliveriesPass ==
  ASSUME DeliveriesInv, Deliveries!Pass PROVE DeliveriesInv'
<1>1. /\ v1 < LastMinute /\ v1' = v1 + 1 /\ v2' = v2
      /\ v3' = [k \in Deliveries!Key |-> [a \in Deliveries!Ago |-> IF a = 0 THEN 0 ELSE v3[k][a - 1]]]
  BY DEF Deliveries!Pass
<1>2. v1 \in 0 .. LastMinute /\ v3 \in [Deliveries!Key -> [0 .. Period - 1 -> Nat]]
  BY DEF DeliveriesInv, DeliveryTypes, Deliveries!Ago
<1>3. DeliveryTypes'
  <2>1. v1' \in 0 .. LastMinute
    BY <1>1, <1>2, DeliveryNumbers
  <2>2. \A a \in 0 .. Period - 1 : a # 0 => a - 1 \in 0 .. Period - 1
    BY DeliveryNumbers
  <2>3. v3' \in [Deliveries!Key -> [Deliveries!Ago -> Nat]]
    BY <1>1, <1>2, <2>2 DEF Deliveries!Ago
  <2> QED BY <1>1, <2>1, <2>3 DEF DeliveriesInv, DeliveryTypes
<1>4. ASSUME NEW k \in Deliveries!Key PROVE KeyWithin(k)'
  <2>1. PICK f, e, n, c, lim : /\ f = v3[k] /\ e = v3'[k] /\ n = KeyElapsed(k) /\ c = v2[k].count
                               /\ lim = Deliveries!Limit[k]
    OBVIOUS
  <2>2. v1 \in Nat /\ v2[k].reset \in Nat /\ c \in Nat /\ lim \in Nat /\ Period \in Nat \ {0}
    BY <1>2, <2>1, DeliveryNumbers DEF DeliveriesInv, DeliveryTypes
  <2>3. /\ KeyLive(k) \in BOOLEAN /\ KeyLive(k)' \in BOOLEAN /\ (KeyLive(k)' => KeyLive(k))
        /\ (KeyLive(k) /\ ~KeyLive(k)' => n >= Period - 1) /\ KeyElapsed(k)' = n + 1
    <3>1. PICK r \in Nat : r = v2[k].reset
      BY <2>2
    <3>2. /\ KeyLive(k) = (v1 < r) /\ KeyLive(k)' = (v1 + 1 < r)
          /\ n = v1 - (r - Period) /\ KeyElapsed(k)' = (v1 + 1) - (r - Period)
      BY <1>1, <2>1, <3>1 DEF KeyLive, KeyElapsed
    <3>3. /\ (v1 < r) \in BOOLEAN /\ (v1 + 1 < r) \in BOOLEAN /\ (v1 + 1 < r => v1 < r)
          /\ (v1 < r /\ ~(v1 + 1 < r) => n >= Period - 1) /\ (v1 + 1) - (r - Period) = n + 1
      BY <2>2, <3>2
    <3> QED BY <3>2, <3>3
  <2>4. PICK live \in BOOLEAN, on \in BOOLEAN :
          /\ live = KeyLive(k) /\ on = KeyLive(k)' /\ (on => live)
          /\ ((live /\ ~on) => n >= Period - 1)
    BY <2>3
  <2>5. e = [a \in 0 .. Period - 1 |-> IF a = 0 THEN 0 ELSE f[a - 1]]
    BY <1>1, <2>1 DEF Deliveries!Ago
  <2>6. Windowed(f, Period, live, n, c, lim)
    BY <2>1, <2>4 DEF DeliveriesInv, KeyWithin
  <2>7. Windowed(e, Period, on, n + 1, c, lim)
    BY <2>2, <2>4, <2>5, <2>6, WindowTicks
  <2> QED BY <1>1, <2>1, <2>3, <2>4, <2>7 DEF KeyWithin
<1> QED BY <1>3, <1>4 DEF DeliveriesInv

\* Every step keeps the invariant,
LEMMA DeliveriesSteps == DeliveriesInv /\ Deliveries!Next => DeliveriesInv'
BY DeliveriesDeliver, DeliveriesCleanUp, DeliveriesPass DEF Deliveries!Next

\* which is within limits.
LEMMA DeliveriesOk == DeliveriesInv => Deliveries!DeliveriesWithinLimits
<1> SUFFICES ASSUME DeliveriesInv, NEW k \in Deliveries!Key
             PROVE  Deliveries!Lately(k) <= 2 * Deliveries!Limit[k]
  BY DEF Deliveries!DeliveriesWithinLimits
<1>1. KeyLive(k) \in BOOLEAN
  BY DEF KeyLive
<1>2. Total(v3[k], 0 .. Period - 1) <= 2 * Deliveries!Limit[k]
  BY <1>1, DeliveryNumbers, WindowTwice DEF DeliveriesInv, KeyWithin
<1> QED BY <1>2, DeliveriesSum DEF Deliveries!Lately, Deliveries!Ago

LEMMA LimitsAlways == Spec => []((focus = "limits" => LimitsInv) /\ (focus = "deliveries" => DeliveriesInv))
<1> DEFINE Inv == (focus = "limits" => LimitsInv) /\ (focus = "deliveries" => DeliveriesInv)
<1>1. Init => Inv
  BY LimitsInit, DeliveriesInit DEF Init
<1>2. ASSUME Inv, [Next]_vars, focus' = "limits" PROVE LimitsInv'
  <2>1. focus = "limits" /\ LimitsInv
    BY <1>2, FocusStays
  <2>2. CASE Limits!Next
    BY <2>1, <2>2, LimitsSteps
  <2>3. CASE UNCHANGED <<v1, v2, v3, v4>>
    BY <2>1, <2>3 DEF LimitsInv, LimitsTypes, LimitsLive, Elapsed, Writes, Requests
  <2> QED BY <1>2, <2>1, <2>2, <2>3 DEF Next, vars
<1>3. ASSUME Inv, [Next]_vars, focus' = "deliveries" PROVE DeliveriesInv'
  <2>1. focus = "deliveries" /\ DeliveriesInv
    BY <1>3, FocusStays
  <2>2. CASE Deliveries!Next
    BY <2>1, <2>2, DeliveriesSteps
  <2>3. CASE UNCHANGED <<v1, v2, v3>>
    BY <2>1, <2>3 DEF DeliveriesInv, DeliveryTypes, KeyWithin, KeyLive, KeyElapsed
  <2> QED BY <1>3, <2>1, <2>2, <2>3 DEF Next, vars
<1>4. Inv /\ [Next]_vars => Inv'
  BY <1>2, <1>3
<1> QED BY <1>1, <1>4, PTL DEF Spec

\* The theorem: no request passes while its key is blocked, and no stretch of time as
\* long as a window sees more than two windows' worth, of writes and altogether
\* (rate-limit.middleware.ts), nor of Stripe's deliveries under any key
\* (webhook-rate-limit.service.ts), whatever the windows, limits and blocks.
THEOREM RequestsAdmitted == Spec => AdmittedWithinLimits
<1> DEFINE Inv == (focus = "limits" => LimitsInv) /\ (focus = "deliveries" => DeliveriesInv)
           Step == /\ focus = "limits" => Limits!AdmittedStep
                   /\ focus = "deliveries" => Deliveries!DeliveriesWithinLimits'
<1>1. DeliveriesInv' => Deliveries!DeliveriesWithinLimits'
  BY DeliveriesOk, PTL
<1>2. Inv /\ Inv' /\ [Next]_vars => [Step]_vars
  <2> SUFFICES ASSUME Inv, Inv', Next PROVE Step
    BY DEF vars
  <2>1. focus = "limits" => Limits!AdmittedStep
    BY LimitsStepOk DEF Next
  <2>2. focus = "deliveries" => Deliveries!DeliveriesWithinLimits'
    BY <1>1, FocusStays
  <2> QED BY <2>1, <2>2
<1> QED BY <1>2, LimitsAlways, PTL DEF Spec, AdmittedWithinLimits
-----------------------------------------------------------------------------
(***************************************************************************)
(* Reminders: each job finds a booking in two runs at least.  A run has it *)
(* still ahead, or has served it, or a fault was counted, and the second   *)
(* run's fault is one more than the first's; so one fault forgets nobody.  *)
(***************************************************************************)
\* Both parties are told of a date.
LEMMA DateRecipients ==
  \A j \in {"start", "end", "overdue"} : Reminding!Recipients[j] = <<"renter", "owner">>
<1> SUFFICES ASSUME NEW j \in {"start", "end", "overdue"} PROVE Reminding!Recipients[j] = <<"renter", "owner">>
  OBVIOUS
<1>1. j \in DOMAIN Reminding!DateNotices /\ Reminding!DateNotices \in Reminding!Tables
  BY DEF Reminding!DateNotices, Reminding!Tables
<1>2. \A t \in Reminding!Tables : j \in DOMAIN t => t = Reminding!DateNotices
  BY DEF Reminding!Tables, Reminding!RequestNotices, Reminding!EndNotices, Reminding!DateNotices,
         Reminding!ReturnNotices, Reminding!CancelNotices
<1>3. (CHOOSE t \in Reminding!Tables : j \in DOMAIN t) = Reminding!DateNotices
  BY <1>1, <1>2
<1>4. Reminding!Recipients[j] = Reminding!DateNotices[j]
  BY <1>1, <1>3 DEF Reminding!Recipients
<1> QED BY <1>4 DEF Reminding!DateNotices, Reminding!Both

\* The day every booking ends.
End == LastDay - 4

\* The first two runs of a job that find a booking.
First(j) == CASE j = "start" -> 1
              [] j = "end" -> 4 * (End - 2) + 3
              [] j = "overdue" -> 4 * (End + 1) + 2
              [] j = "complete" -> 4 * (End + 3)
Second(j) == CASE j = "start" -> 5
               [] j = "end" -> 4 * (End - 1) + 3
               [] j = "overdue" -> 4 * (End + 2) + 2
               [] j = "complete" -> 4 * (End + 3) + 1

\* The run of the job at a time has the booking still before it.
Ahead(j, b, time) == v1 < time \/ (v1 = time /\ (v3[j].at = "due" \/ b \in v3[j].left))

\* What the job has done for the booking; a completed one is not accepted any more.
Served(j, b) == j # "complete" /\ Reminding!BothTold(b, j)

\* A run that passed without serving the booking was a fault.
ServedOrFaulted(j, b) ==
  /\ Ahead(j, b, First(j)) \/ Served(j, b) \/ v6 >= 1
  /\ Ahead(j, b, Second(j)) \/ Served(j, b) \/ v6 >= 2

\* The types; the dates of a booking never change.
ReminderTypes ==
  /\ v1 \in Nat /\ v6 \in Nat
  /\ v2 \in [Booking -> [status : Reminding!Status, start : {2}, end : {End}]]
  /\ v3 \in [Reminding!Job -> [at : {"idle", "due", "loop"}, left : SUBSET Booking]]
  /\ \A j \in Reminding!Job : v3[j].at # "loop" => v3[j].left = {}
  /\ v4 \subseteq Booking

\* Nobody becomes pending again, so that who was accepted early is reckoned with from the
\* first run on.
RemindersInv ==
  /\ ReminderTypes
  /\ \A b \in v4 : v2[b].status # "PENDING"
  /\ \A b \in v4, j \in Reminding!Job : v2[b].status = "ACCEPTED" => ServedOrFaulted(j, b)

\* The runs are after the booking's acceptance, and in this order.
LEMMA ReminderTimes ==
  /\ LastDay \in Nat /\ End \in Nat /\ End >= 2 /\ MaxFaults \in Nat
  /\ \A j \in Reminding!Job : First(j) \in Nat /\ Second(j) \in Nat /\ 0 < First(j) /\ First(j) < Second(j)
<1>1. LastDay \in Nat /\ End \in Nat /\ End >= 2 /\ MaxFaults \in Nat
  BY PlatformAssumption DEF End
<1>2. ASSUME NEW j \in Reminding!Job
      PROVE  First(j) \in Nat /\ Second(j) \in Nat /\ 0 < First(j) /\ First(j) < Second(j)
  BY <1>1 DEF First, Second, Reminding!Job
<1> QED BY <1>1, <1>2

\* Nobody is accepted yet.
LEMMA RemindersInit == Reminding!Init => RemindersInv
BY ReminderTimes DEF Reminding!Init, RemindersInv, ReminderTypes, Reminding!Idle, Reminding!Status, End

\* At the two times the job is due and finds the booking.
LEMMA JobsDue ==
  ASSUME ReminderTypes, NEW j \in Reminding!Job, NEW b \in Booking, NEW time \in {First(j), Second(j)}
  PROVE  j \in Reminding!Due(time) /\ b \in Reminding!Dated(j, time \div 4)
<1>1. End \in Nat /\ End >= 2 /\ v2[b].start = 2 /\ v2[b].end = End
  BY ReminderTimes DEF ReminderTypes
<1>2. PICK day \in Nat, quarter \in 0 .. 3 :
        /\ time = 4 * day + quarter
        /\ j = "start" => day \in {0, 1} /\ quarter = 1
        /\ j = "end" => day \in {End - 2, End - 1} /\ quarter = 3
        /\ j = "overdue" => day \in {End + 1, End + 2} /\ quarter = 2
        /\ j = "complete" => day = End + 3 /\ quarter \in {0, 1}
  <2>1. CASE j = "start"
    <3>1. time = 4 * 0 + 1 \/ time = 4 * 1 + 1
      BY <2>1 DEF First, Second
    <3> QED BY <2>1, <3>1
  <2>2. CASE j = "end"
    <3>1. time = 4 * (End - 2) + 3 \/ time = 4 * (End - 1) + 3
      BY <2>2 DEF First, Second
    <3>2. End - 2 \in Nat /\ End - 1 \in Nat
      BY <1>1
    <3> QED BY <2>2, <3>1, <3>2
  <2>3. CASE j = "overdue"
    <3>1. time = 4 * (End + 1) + 2 \/ time = 4 * (End + 2) + 2
      BY <2>3 DEF First, Second
    <3>2. End + 1 \in Nat /\ End + 2 \in Nat
      BY <1>1
    <3> QED BY <2>3, <3>1, <3>2
  <2>4. CASE j = "complete"
    <3>1. time = 4 * (End + 3) + 0 \/ time = 4 * (End + 3) + 1
      BY <1>1, <2>4 DEF First, Second
    <3>2. End + 3 \in Nat
      BY <1>1
    <3> QED BY <2>4, <3>1, <3>2
  <2> QED BY <2>1, <2>2, <2>3, <2>4 DEF Reminding!Job
<1>3. time \div 4 = day /\ time % 4 = quarter
  BY <1>2
<1>4. j \in Reminding!Jobs(quarter)
  <2>1. CASE quarter = 0
    BY <1>2, <2>1 DEF Reminding!Jobs, Reminding!Job
  <2>2. CASE quarter = 1
    BY <1>2, <2>2 DEF Reminding!Jobs, Reminding!Job
  <2>3. CASE quarter = 2
    BY <1>2, <2>3 DEF Reminding!Jobs, Reminding!Job
  <2>4. CASE quarter = 3
    BY <1>2, <2>4 DEF Reminding!Jobs, Reminding!Job
  <2> QED BY <2>1, <2>2, <2>3, <2>4
<1>5. b \in Reminding!Dated(j, day)
  <2>1. CASE j = "start"
    BY <1>1, <1>2, <2>1 DEF Reminding!Dated, Reminding!Tomorrow
  <2>2. CASE j = "end"
    BY <1>1, <1>2, <2>2 DEF Reminding!Dated, Reminding!Tomorrow
  <2>3. CASE j = "overdue"
    BY <1>1, <1>2, <2>3 DEF Reminding!Dated
  <2>4. CASE j = "complete"
    BY <1>1, <1>2, <2>4 DEF Reminding!Dated
  <2> QED BY <2>1, <2>2, <2>3, <2>4 DEF Reminding!Job
<1> QED BY <1>3, <1>4, <1>5 DEF Reminding!Due

\* What is known of a booking survives whatever leaves it accepted, takes back no notice
\* of its own, and takes it from a run only with a fault.
LEMMA StillServed ==
  ASSUME RemindersInv, NEW j \in Reminding!Job, NEW b \in v4, v2[b].status = "ACCEPTED",
         v1' = v1, v6' \in Nat, v6' >= v6,
         \A notice \in v5 : notice[1] = b => notice \in v5',
         \/ v3'[j] = v3[j]
         \/ v3'[j].at = "due" \/ b \in v3'[j].left
         \/ b \notin v3[j].left /\ v3[j].at # "due"
         \/ v6' = v6 + 1
         \/ Served(j, b)'
  PROVE  ServedOrFaulted(j, b)'
<1>1. First(j) \in Nat /\ Second(j) \in Nat /\ First(j) < Second(j) /\ v1 \in Nat /\ v6 \in Nat
  BY ReminderTimes DEF RemindersInv, ReminderTypes
<1>2. ServedOrFaulted(j, b)
  BY DEF RemindersInv
<1>3. Served(j, b) => Served(j, b)'
  BY DEF Served, Reminding!BothTold
<1>4. CASE Served(j, b)'
  BY <1>4 DEF ServedOrFaulted
<1>5. CASE v3'[j] = v3[j] \/ v3'[j].at = "due" \/ b \in v3'[j].left \/ (b \notin v3[j].left /\ v3[j].at # "due")
  <2>1. ASSUME NEW time, Ahead(j, b, time) PROVE Ahead(j, b, time)'
    BY <1>5, <2>1 DEF Ahead
  <2>2. v6' >= v6 /\ v6' \in Nat
    OBVIOUS
  <2> QED BY <1>1, <1>2, <1>3, <2>1, <2>2 DEF ServedOrFaulted
<1>6. CASE v6' = v6 + 1
  <2>1. Ahead(j, b, First(j)) \/ Served(j, b) \/ v6 >= 1
    BY <1>2 DEF ServedOrFaulted
  <2>2. v6' >= 1
    BY <1>1, <1>6
  <2>3. CASE v1 < Second(j)
    <3>1. Ahead(j, b, Second(j))'
      BY <2>3 DEF Ahead
    <3> QED BY <2>2, <3>1 DEF ServedOrFaulted
  <2>4. CASE ~(v1 < Second(j))
    <3>1. ~Ahead(j, b, First(j))
      BY <1>1, <2>4 DEF Ahead
    <3>2. Served(j, b)' \/ v6' >= 2
      BY <1>1, <1>3, <1>6, <2>1, <3>1
    <3> QED BY <2>2, <3>2 DEF ServedOrFaulted
  <2> QED BY <2>3, <2>4
<1> QED BY <1>4, <1>5, <1>6

\* A notice takes back none of another booking's, and without a fault tells both.
LEMMA NotifyTells ==
  ASSUME RemindersInv, NEW b, NEW what, NEW earlier, Reminding!Notify(b, what, earlier)
  PROVE  /\ v6' \in Nat /\ v6' >= v6 /\ earlier \subseteq v5'
         /\ v6' = v6 + 1 \/ v6' = v6
         /\ what \in {"start", "end", "overdue"} /\ b \in v4 /\ v6' = v6
              => \A p \in Reminding!Party : <<b, what, p>> \in v5'
<1>1. v6 \in Nat
  BY DEF RemindersInv, ReminderTypes
<1>2. CASE v5' = earlier \cup Reminding!Notices(b, what, Len(Reminding!Recipients[what])) /\ v6' = v6
  <2>1. ASSUME what \in {"start", "end", "overdue"}, b \in v4, NEW p \in Reminding!Party
        PROVE  <<b, what, p>> \in v5'
    <3>1. Reminding!Recipients[what] = <<"renter", "owner">>
      BY <2>1, DateRecipients
    <3>2. PICK i \in 1 .. 2 : <<"renter", "owner">>[i] = p
      <4>1. <<"renter", "owner">>[1] = "renter" /\ <<"renter", "owner">>[2] = "owner"
        OBVIOUS
      <4> QED BY <4>1 DEF Reminding!Party
    <3>3. Len(<<"renter", "owner">>) = 2
      OBVIOUS
    <3>4. <<b, what, p>> \in Reminding!Notices(b, what, 2)
      BY <2>1, <3>1, <3>2 DEF Reminding!Notices
    <3> QED BY <1>2, <3>1, <3>3, <3>4
  <2> QED BY <1>1, <1>2, <2>1
<1>3. CASE v6' = v6 + 1 /\ earlier \subseteq v5'
  BY <1>1, <1>3
<1> QED BY <1>2, <1>3 DEF Reminding!Notify, Reminding!Fault

\* What a run has left.
LEMMA LoopIs ==
  ASSUME RemindersInv, NEW j \in Reminding!Job, NEW left \in SUBSET Booking, Reminding!Loop(j, left)
  PROVE  /\ v3' \in [Reminding!Job -> [at : {"idle", "due", "loop"}, left : SUBSET Booking]]
         /\ \A i \in Reminding!Job : v3'[i].at # "loop" => v3'[i].left = {}
         /\ \A i \in Reminding!Job : i # j => v3'[i] = v3[i]
         /\ v3'[j].left = left
<1> DEFINE r == IF left = {} THEN Reminding!Idle ELSE [at |-> "loop", left |-> left]
<1>1. v3' = [v3 EXCEPT ![j] = r]
  BY DEF Reminding!Loop
<1>2. /\ r \in [at : {"idle", "due", "loop"}, left : SUBSET Booking] /\ r.left = left
      /\ r.at # "loop" => r.left = {}
  BY DEF Reminding!Idle
<1> HIDE DEF r
<1> QED BY <1>1, <1>2 DEF RemindersInv, ReminderTypes

\* The invariant after a step that changes no booking's status and accepts none.
LEMMA RunGoesOn ==
  ASSUME RemindersInv, UNCHANGED <<v1, v2, v4>>, v6' \in Nat, v6' >= v6, v5 \subseteq v5',
         NEW j \in Reminding!Job, NEW left \in SUBSET Booking, Reminding!Loop(j, left),
         \A b \in v4 : v2[b].status = "ACCEPTED" =>
           \/ b \in left
           \/ b \notin v3[j].left /\ v3[j].at # "due"
           \/ v6' = v6 + 1
           \/ Served(j, b)'
  PROVE  RemindersInv'
<1>1. ReminderTypes'
  BY LoopIs DEF RemindersInv, ReminderTypes
<1>2. ASSUME NEW b \in v4', NEW i \in Reminding!Job, v2'[b].status = "ACCEPTED"
      PROVE  ServedOrFaulted(i, b)'
  <2>1. b \in v4 /\ v2[b].status = "ACCEPTED" /\ v1' = v1
        /\ \A notice \in v5 : notice[1] = b => notice \in v5'
    BY <1>2
  <2>2. \/ v3'[i] = v3[i]
        \/ v3'[i].at = "due" \/ b \in v3'[i].left
        \/ b \notin v3[i].left /\ v3[i].at # "due"
        \/ v6' = v6 + 1
        \/ Served(i, b)'
    BY <2>1, LoopIs
  <2> QED BY <2>1, <2>2, StillServed
<1>3. \A b \in v4' : v2'[b].status # "PENDING"
  BY DEF RemindersInv
<1> QED BY <1>1, <1>2, <1>3 DEF RemindersInv

\* A handler: a booking is accepted before all the runs, or it stops being accepted.
LEMMA RemindersHandle ==
  ASSUME RemindersInv, NEW c \in Booking, NEW step \in Reminding!Life, Reminding!Handle(c, step)
  PROVE  RemindersInv'
<1>1. /\ v2[c].status = step[1] /\ v2' = [v2 EXCEPT ![c].status = step[2]]
      /\ Reminding!Notify(c, step[3], IF step[1] = step[2] THEN v5 ELSE Reminding!Others(c))
      /\ v4' = IF step[2] = "ACCEPTED" /\ v1 < Reminding!FirstReminder(c) THEN v4 \cup {c} ELSE v4
      /\ v1' = v1 /\ v3' = v3
  BY DEF Reminding!Handle
<1>2. /\ step[1] \in Reminding!Status /\ step[2] \in Reminding!Status /\ step[2] # "PENDING"
      /\ step[2] = "ACCEPTED" => step[1] = "PENDING"
  BY DEF Reminding!Life, Reminding!Status
<1>3. v6' \in Nat /\ v6' >= v6 /\ Reminding!Others(c) \subseteq v5'
  <2>1. v6' \in Nat /\ v6' >= v6 /\ (IF step[1] = step[2] THEN v5 ELSE Reminding!Others(c)) \subseteq v5'
    BY <1>1, NotifyTells
  <2> QED BY <2>1 DEF Reminding!Others
<1>4. /\ v2' \in [Booking -> [status : Reminding!Status, start : {2}, end : {End}]]
      /\ v2'[c].status = step[2] /\ v2[c].start = 2
      /\ \A b \in Booking : b # c => v2'[b] = v2[b]
  BY <1>1, <1>2 DEF RemindersInv, ReminderTypes
<1>5. ReminderTypes'
  BY <1>1, <1>3, <1>4 DEF RemindersInv, ReminderTypes
<1>6. \A b \in v4' : v2'[b].status # "PENDING"
  BY <1>1, <1>2, <1>4 DEF RemindersInv, ReminderTypes
<1>7. ASSUME NEW b \in v4', NEW j \in Reminding!Job, v2'[b].status = "ACCEPTED"
      PROVE  ServedOrFaulted(j, b)'
  <2>1. CASE b = c
    <3>1. step[1] = "PENDING" /\ step[2] = "ACCEPTED"
      BY <1>2, <1>4, <1>7, <2>1
    <3>2. c \notin v4
      BY <1>1, <3>1 DEF RemindersInv
    <3>3. v1 < Reminding!FirstReminder(c)
      BY <1>1, <1>7, <2>1, <3>2
    <3>4. v1 = 0
      BY <1>4, <3>3 DEF RemindersInv, ReminderTypes, Reminding!FirstReminder, Reminding!At
    <3>5. v1' < First(j) /\ v1' < Second(j)
      BY <1>1, <3>4, ReminderTimes
    <3> QED BY <3>5 DEF ServedOrFaulted, Ahead
  <2>2. CASE b # c
    <3>1. b \in v4 /\ b \in Booking /\ v2[b].status = "ACCEPTED"
      BY <1>1, <1>4, <1>7, <2>2 DEF RemindersInv, ReminderTypes
    <3>2. \A notice \in v5 : notice[1] = b => notice \in v5'
      BY <1>3, <2>2 DEF Reminding!Others
    <3> QED BY <1>1, <1>3, <3>1, <3>2, StillServed
  <2> QED BY <2>1, <2>2
<1> QED BY <1>5, <1>6, <1>7 DEF RemindersInv

\* A run loads every accepted booking with its dates.
LEMMA RemindersStart ==
  ASSUME RemindersInv, NEW j \in Reminding!Job, Reminding!Start(j)
  PROVE  RemindersInv'
<1>1. /\ v3[j].at = "due" /\ Reminding!Loop(j, Reminding!Selected(j))
      /\ UNCHANGED <<v1, v2, v4, v5, v6>>
  BY DEF Reminding!Start
<1>2. Reminding!Selected(j) \in SUBSET Booking
  BY DEF Reminding!Selected, Reminding!Dated
<1>3. ASSUME NEW b \in v4', NEW i \in Reminding!Job, v2'[b].status = "ACCEPTED"
      PROVE  ServedOrFaulted(i, b)'
  <2>1. b \in v4 /\ b \in Booking /\ v2[b].status = "ACCEPTED" /\ ServedOrFaulted(i, b)
    BY <1>1, <1>3 DEF RemindersInv, ReminderTypes
  <2>2. ASSUME NEW time \in {First(i), Second(i)}, Ahead(i, b, time) PROVE Ahead(i, b, time)'
    <3>1. CASE i # j \/ v1 < time
      BY <1>1, <1>2, <2>2, <3>1, LoopIs DEF Ahead
    <3>2. CASE i = j /\ v1 = time
      <4>1. b \in Reminding!Dated(j, v1 \div 4)
        BY <2>1, <3>2, JobsDue DEF RemindersInv
      <4>2. b \in Reminding!Selected(j)
        BY <2>1, <4>1 DEF Reminding!Selected, Reminding!Day
      <4>3. v3'[j].left = Reminding!Selected(j)
        BY <1>1, <1>2, LoopIs
      <4> QED BY <1>1, <3>2, <4>2, <4>3 DEF Ahead
    <3> QED BY <2>2, <3>1, <3>2 DEF Ahead
  <2>3. Served(i, b) => Served(i, b)'
    BY <1>1 DEF Served, Reminding!BothTold
  <2> QED BY <1>1, <2>1, <2>2, <2>3 DEF ServedOrFaulted
<1>4. ReminderTypes'
  BY <1>1, <1>2, LoopIs DEF RemindersInv, ReminderTypes
<1>5. \A b \in v4' : v2'[b].status # "PENDING"
  BY <1>1 DEF RemindersInv
<1> QED BY <1>3, <1>4, <1>5 DEF RemindersInv

\* A run that is lost is a fault.
LEMMA RemindersMissed ==
  ASSUME RemindersInv, NEW j \in Reminding!Job, Reminding!Missed(j)
  PROVE  RemindersInv'
<1>1. Reminding!Loop(j, {}) /\ v6' = v6 + 1 /\ UNCHANGED <<v1, v2, v4, v5>>
  BY DEF Reminding!Missed, Reminding!Fault
<1>2. v6' \in Nat /\ v6' >= v6 /\ {} \in SUBSET Booking
  BY <1>1 DEF RemindersInv, ReminderTypes
<1> QED BY <1>1, <1>2, RunGoesOn

\* A notice reaches both or is a fault.
LEMMA RemindersRemind ==
  ASSUME RemindersInv, NEW j \in Reminding!Job, NEW c \in Booking, Reminding!Remind(j, c)
  PROVE  RemindersInv'
<1>1. /\ j # "complete" /\ c \in v3[j].left /\ Reminding!Notify(c, j, v5)
      /\ Reminding!Loop(j, v3[j].left \ {c}) /\ UNCHANGED <<v1, v2, v4>>
  BY DEF Reminding!Remind
<1>2. /\ v3[j].left \ {c} \in SUBSET Booking /\ v3[j].at # "due"
  BY <1>1 DEF RemindersInv, ReminderTypes
<1>3. /\ v6' \in Nat /\ v6' >= v6 /\ v5 \subseteq v5' /\ (v6' = v6 + 1 \/ v6' = v6)
      /\ c \in v4 /\ v6' = v6 => \A p \in Reminding!Party : <<c, j, p>> \in v5'
  BY <1>1, NotifyTells DEF Reminding!Job
<1>4. ASSUME NEW b \in v4
      PROVE  \/ b \in v3[j].left \ {c}
             \/ b \notin v3[j].left /\ v3[j].at # "due"
             \/ v6' = v6 + 1
             \/ Served(j, b)'
  BY <1>1, <1>2, <1>3 DEF Served, Reminding!BothTold
<1> QED BY <1>1, <1>2, <1>3, <1>4, RunGoesOn

\* A completed booking is not accepted any more.
LEMMA RemindersAutoComplete ==
  ASSUME RemindersInv, NEW c \in Booking, Reminding!AutoComplete(c)
  PROVE  RemindersInv'
<1>1. /\ c \in v3["complete"].left /\ v2' = [v2 EXCEPT ![c].status = "COMPLETED"]
      /\ Reminding!Notify(c, "completed", Reminding!Others(c))
      /\ Reminding!Loop("complete", v3["complete"].left \ {c}) /\ UNCHANGED <<v1, v4>>
  BY DEF Reminding!AutoComplete
<1>2. "complete" \in Reminding!Job
  BY DEF Reminding!Job
<1>3. v3["complete"].left \ {c} \in SUBSET Booking /\ v3["complete"].at # "due"
  BY <1>1, <1>2 DEF RemindersInv, ReminderTypes
<1>4. v6' \in Nat /\ v6' >= v6 /\ Reminding!Others(c) \subseteq v5'
  BY <1>1, NotifyTells
<1>5. /\ v2' \in [Booking -> [status : Reminding!Status, start : {2}, end : {End}]]
      /\ v2'[c].status = "COMPLETED"
      /\ \A b \in Booking : b # c => v2'[b] = v2[b]
  BY <1>1 DEF RemindersInv, ReminderTypes, Reminding!Status
<1>6. ReminderTypes'
  BY <1>1, <1>2, <1>3, <1>4, <1>5, LoopIs DEF RemindersInv, ReminderTypes
<1>7. \A b \in v4' : v2'[b].status # "PENDING"
  BY <1>1, <1>5 DEF RemindersInv, ReminderTypes
<1>8. ASSUME NEW b \in v4', NEW i \in Reminding!Job, v2'[b].status = "ACCEPTED"
      PROVE  ServedOrFaulted(i, b)'
  <2>1. b # c /\ b \in v4 /\ b \in Booking /\ v2[b].status = "ACCEPTED"
    BY <1>1, <1>5, <1>8 DEF RemindersInv, ReminderTypes
  <2>2. \A notice \in v5 : notice[1] = b => notice \in v5'
    BY <1>4, <2>1 DEF Reminding!Others
  <2>3. \/ v3'[i] = v3[i]
        \/ b \in v3'[i].left
        \/ b \notin v3[i].left /\ v3[i].at # "due"
    <3>1. i # "complete" => v3'[i] = v3[i]
      BY <1>1, <1>2, <1>3, LoopIs
    <3>2. v3'["complete"].left = v3["complete"].left \ {c}
      BY <1>1, <1>2, <1>3, LoopIs
    <3> QED BY <1>3, <2>1, <3>1, <3>2
  <2> QED BY <1>1, <1>4, <2>1, <2>2, <2>3, StillServed
<1> QED BY <1>6, <1>7, <1>8 DEF RemindersInv

\* A completion that fails is a fault.
LEMMA RemindersAutoCompleteFails ==
  ASSUME RemindersInv, NEW c \in Booking, Reminding!AutoCompleteFails(c)
  PROVE  RemindersInv'
<1>1. /\ Reminding!Loop("complete", v3["complete"].left \ {c}) /\ v6' = v6 + 1
      /\ UNCHANGED <<v1, v2, v4, v5>>
  BY DEF Reminding!AutoCompleteFails, Reminding!Fault
<1>2. /\ v6' \in Nat /\ v6' >= v6 /\ "complete" \in Reminding!Job
      /\ v3["complete"].left \ {c} \in SUBSET Booking
  BY <1>1 DEF RemindersInv, ReminderTypes, Reminding!Job
<1> QED BY <1>1, <1>2, RunGoesOn

\* Time does not go on while a run is under way.
LEMMA RemindersTick ==
  ASSUME RemindersInv, Reminding!Tick
  PROVE  RemindersInv'
<1>1. /\ v1' = v1 + 1 /\ UNCHANGED <<v2, v4, v5, v6>>
      /\ \A j \in Reminding!Job : v3[j].at = "idle" /\ v3[j].left = {}
      /\ v3' = [j \in Reminding!Job |-> IF j \in Reminding!Due(v1 + 1) THEN [at |-> "due", left |-> {}]
                                        ELSE [at |-> "idle", left |-> {}]]
  BY DEF Reminding!Tick, Reminding!Idle
<1>2. ReminderTypes'
  BY <1>1 DEF RemindersInv, ReminderTypes
<1>3. ASSUME NEW b \in v4', NEW j \in Reminding!Job, v2'[b].status = "ACCEPTED"
      PROVE  ServedOrFaulted(j, b)'
  <2>1. b \in v4 /\ b \in Booking /\ v2[b].status = "ACCEPTED" /\ ServedOrFaulted(j, b) /\ v1 \in Nat
    BY <1>1, <1>3 DEF RemindersInv, ReminderTypes
  <2>2. ASSUME NEW time \in {First(j), Second(j)}, Ahead(j, b, time) PROVE Ahead(j, b, time)'
    <3>1. v1 < time /\ time \in Nat
      BY <1>1, <2>2, ReminderTimes DEF Ahead
    <3>2. v1 + 1 < time \/ v1 + 1 = time
      BY <2>1, <3>1
    <3>3. CASE v1 + 1 = time
      <4>1. j \in Reminding!Due(v1 + 1)
        BY <2>1, <3>3, JobsDue DEF RemindersInv
      <4> QED BY <1>1, <3>3, <4>1 DEF Ahead
    <3> QED BY <1>1, <3>2, <3>3 DEF Ahead
  <2>3. Served(j, b) => Served(j, b)'
    BY <1>1 DEF Served, Reminding!BothTold
  <2> QED BY <1>1, <2>1, <2>2, <2>3 DEF ServedOrFaulted
<1>4. \A b \in v4' : v2'[b].status # "PENDING"
  BY <1>1 DEF RemindersInv
<1> QED BY <1>2, <1>3, <1>4 DEF RemindersInv

\* Every step keeps the invariant,
LEMMA RemindersSteps == RemindersInv /\ Reminding!Next => RemindersInv'
BY RemindersHandle, RemindersStart, RemindersMissed, RemindersRemind, RemindersAutoComplete,
   RemindersAutoCompleteFails, RemindersTick DEF Reminding!Next

\* and with one fault one of the two runs has served the booking.
LEMMA RemindersOk == RemindersInv => Reminding!NobodyForgotten
<1> SUFFICES ASSUME RemindersInv, NEW b \in v4, v2[b].status = "ACCEPTED", v6 <= 1
             PROVE  /\ Reminding!Day >= v2[b].start => Reminding!BothTold(b, "start")
                    /\ Reminding!Day >= v2[b].end => Reminding!BothTold(b, "end")
                    /\ Reminding!Day >= v2[b].end + 3 => Reminding!BothTold(b, "overdue")
                    /\ Reminding!Day <= v2[b].end + 3
  BY DEF Reminding!NobodyForgotten
<1>1. v1 \in Nat /\ v6 \in Nat /\ v2[b].start = 2 /\ v2[b].end = End /\ End \in Nat
  BY ReminderTimes DEF RemindersInv, ReminderTypes
<1>2. PICK day \in Nat : day = Reminding!Day /\ 4 * day <= v1
  BY <1>1 DEF Reminding!Day
<1>3. \A j \in Reminding!Job : v1 > Second(j) => Served(j, b)
  <2> SUFFICES ASSUME NEW j \in Reminding!Job, v1 > Second(j) PROVE Served(j, b)
    OBVIOUS
  <2>1. ServedOrFaulted(j, b) /\ Second(j) \in Nat
    BY ReminderTimes DEF RemindersInv
  <2> QED BY <1>1, <2>1 DEF ServedOrFaulted, Ahead
<1>4. day >= 2 => Reminding!BothTold(b, "start")
  <2>1. day >= 2 => v1 > 5
    BY <1>1, <1>2
  <2> QED BY <1>3, <2>1 DEF Second, Served, Reminding!Job
<1>5. day >= End => Reminding!BothTold(b, "end")
  <2>1. day >= End => v1 > 4 * (End - 1) + 3
    BY <1>1, <1>2
  <2> QED BY <1>3, <2>1 DEF Second, Served, Reminding!Job
<1>6. day >= End + 3 => Reminding!BothTold(b, "overdue")
  <2>1. day >= End + 3 => v1 > 4 * (End + 2) + 2
    BY <1>1, <1>2
  <2> QED BY <1>3, <2>1 DEF Second, Served, Reminding!Job
<1>7. day <= End + 3
  <2>1. ~(day <= End + 3) => v1 > 4 * (End + 3) + 1
    BY <1>1, <1>2
  <2> QED BY <1>1, <1>3, <2>1 DEF Second, Served, Reminding!Job
<1> QED BY <1>1, <1>2, <1>4, <1>5, <1>6, <1>7

\* Time, faults and notices keep within their bounds.
Addressed == {<<"renter", "owner">>, <<"owner", "renter">>, <<"renter">>}

LEMMA NoticesAddressed ==
  /\ DOMAIN Reminding!Recipients = {"accepted", "cancelledByOwner", "rejected", "started", "completed",
                                    "start", "end", "overdue", "returned", "cancelled"}
  /\ \A what \in DOMAIN Reminding!Recipients : Reminding!Recipients[what] \in Addressed
<1>1. \A t \in Reminding!Tables : \A what \in DOMAIN t : t[what] \in Addressed
  BY DEF Reminding!Tables, Reminding!RequestNotices, Reminding!EndNotices, Reminding!DateNotices,
         Reminding!ReturnNotices, Reminding!CancelNotices, Reminding!Both, Addressed
<1>2. UNION {DOMAIN t : t \in Reminding!Tables}
        = {"accepted", "cancelledByOwner", "rejected", "started", "completed",
           "start", "end", "overdue", "returned", "cancelled"}
  BY DEF Reminding!Tables, Reminding!RequestNotices, Reminding!EndNotices, Reminding!DateNotices,
         Reminding!ReturnNotices, Reminding!CancelNotices
<1>3. DOMAIN Reminding!Recipients = UNION {DOMAIN t : t \in Reminding!Tables}
  BY DEF Reminding!Recipients
<1>4. ASSUME NEW what \in UNION {DOMAIN t : t \in Reminding!Tables}
      PROVE  Reminding!Recipients[what] \in Addressed
  <2>1. PICK t \in Reminding!Tables : t = CHOOSE u \in Reminding!Tables : what \in DOMAIN u
    OBVIOUS
  <2>2. what \in DOMAIN t
    BY <2>1
  <2>3. Reminding!Recipients[what] = t[what]
    BY <2>1 DEF Reminding!Recipients
  <2> QED BY <1>1, <2>2, <2>3
<1> QED BY <1>2, <1>3, <1>4

RemindersBounded ==
  /\ v1 \in 0 .. Reminding!At(LastDay, 3)
  /\ v5 \subseteq Booking \X (DOMAIN Reminding!Recipients) \X Reminding!Party
  /\ v6 \in 0 .. MaxFaults

LEMMA BoundedInit == Reminding!Init => RemindersBounded
BY PlatformAssumption DEF Reminding!Init, RemindersBounded, Reminding!At

LEMMA BoundedNotify ==
  ASSUME RemindersBounded, NEW b \in Booking, NEW what \in DOMAIN Reminding!Recipients,
         NEW earlier \in SUBSET v5, Reminding!Notify(b, what, earlier), v1' = v1
  PROVE  RemindersBounded'
<1>1. Reminding!Recipients[what] \in Addressed
  BY NoticesAddressed
<1>2. PICK r : r = Reminding!Recipients[what]
  OBVIOUS
<1>3. Len(r) \in Nat /\ \A i \in 1 .. Len(r) : r[i] \in Reminding!Party
  BY <1>1, <1>2 DEF Addressed, Reminding!Party
<1>4. ASSUME NEW n \in 0 .. Len(r)
      PROVE  Reminding!Notices(b, what, n) \subseteq Booking \X (DOMAIN Reminding!Recipients) \X Reminding!Party
  <2>1. \A i \in 1 .. n : <<b, what, r[i]>> \in Booking \X (DOMAIN Reminding!Recipients) \X Reminding!Party
    BY <1>3
  <2>2. (IF b \in v4 THEN 1 .. n ELSE {}) \subseteq 1 .. n
    OBVIOUS
  <2> QED BY <1>2, <2>1, <2>2 DEF Reminding!Notices
<1>5. v6' \in 0 .. MaxFaults /\ \E n \in 0 .. Len(r) : v5' = earlier \cup Reminding!Notices(b, what, n)
  <2>1. CASE v5' = earlier \cup Reminding!Notices(b, what, Len(r)) /\ v6' = v6
    BY <1>3, <2>1 DEF RemindersBounded
  <2>2. CASE v6 < MaxFaults /\ v6' = v6 + 1 /\ \E n \in 0 .. Len(r) - 1 : v5' = earlier \cup Reminding!Notices(b, what, n)
    <3>1. v6' \in 0 .. MaxFaults
      BY <2>2, PlatformAssumption DEF RemindersBounded
    <3>2. 0 .. Len(r) - 1 \subseteq 0 .. Len(r)
      BY <1>3
    <3> QED BY <2>2, <3>1, <3>2
  <2> QED BY <1>2, <2>1, <2>2 DEF Reminding!Notify, Reminding!Fault
<1> QED BY <1>4, <1>5 DEF RemindersBounded

LEMMA BoundedSteps == RemindersBounded /\ Reminding!Next => RemindersBounded'
<1> SUFFICES ASSUME RemindersBounded, Reminding!Next PROVE RemindersBounded'
  OBVIOUS
<1>0. \A b : Reminding!Others(b) \in SUBSET v5
  BY DEF Reminding!Others
<1>1. ASSUME NEW b \in Booking, NEW step \in Reminding!Life, Reminding!Handle(b, step) PROVE RemindersBounded'
  <2>1. step[3] \in DOMAIN Reminding!Recipients
    BY NoticesAddressed DEF Reminding!Life
  <2>2. PICK earlier \in SUBSET v5 : Reminding!Notify(b, step[3], earlier) /\ v1' = v1
    <3>1. (IF step[1] = step[2] THEN v5 ELSE Reminding!Others(b)) \in SUBSET v5
      BY <1>0
    <3> QED BY <1>1, <3>1 DEF Reminding!Handle
  <2> QED BY <2>1, <2>2, BoundedNotify
<1>2. ASSUME NEW b \in Booking, Reminding!AutoComplete(b) PROVE RemindersBounded'
  <2>1. "completed" \in DOMAIN Reminding!Recipients
    BY NoticesAddressed
  <2>2. Reminding!Notify(b, "completed", Reminding!Others(b)) /\ v1' = v1
    BY <1>2 DEF Reminding!AutoComplete
  <2> QED BY <1>0, <2>1, <2>2, BoundedNotify
<1>3. ASSUME NEW job \in Reminding!Job, NEW b \in Booking, Reminding!Remind(job, b) PROVE RemindersBounded'
  <2>1. job \in DOMAIN Reminding!Recipients
    BY <1>3, NoticesAddressed DEF Reminding!Remind, Reminding!Job
  <2>2. Reminding!Notify(b, job, v5) /\ v1' = v1
    BY <1>3 DEF Reminding!Remind
  <2> QED BY <2>1, <2>2, BoundedNotify
<1>4. ASSUME v1' = v1, v5' = v5, v6' = v6 \/ Reminding!Fault PROVE RemindersBounded'
  <2>1. v6' \in 0 .. MaxFaults
    BY <1>4, PlatformAssumption DEF RemindersBounded, Reminding!Fault
  <2> QED BY <1>4, <2>1 DEF RemindersBounded
<1>5. ASSUME NEW b \in Booking, Reminding!AutoCompleteFails(b) PROVE RemindersBounded'
  BY <1>4, <1>5 DEF Reminding!AutoCompleteFails
<1>6. ASSUME NEW job \in Reminding!Job, Reminding!Start(job) \/ Reminding!Missed(job) PROVE RemindersBounded'
  BY <1>4, <1>6 DEF Reminding!Start, Reminding!Missed
<1>7. ASSUME Reminding!Tick PROVE RemindersBounded'
  <2>1. v1 < Reminding!At(LastDay, 3) /\ v1' = v1 + 1 /\ v5' = v5 /\ v6' = v6
    BY <1>7 DEF Reminding!Tick
  <2>2. Reminding!At(LastDay, 3) \in Nat /\ Reminding!At(LastDay, 3)' = Reminding!At(LastDay, 3)
    BY PlatformAssumption DEF Reminding!At
  <2> QED BY <2>1, <2>2 DEF RemindersBounded
<1> QED BY <1>1, <1>2, <1>3, <1>5, <1>6, <1>7 DEF Reminding!Next

LEMMA RemindersAlways == Spec => [](focus = "reminders" => RemindersInv /\ RemindersBounded)
<1> DEFINE Inv == focus = "reminders" => RemindersInv /\ RemindersBounded
<1>1. Init => Inv
  BY RemindersInit, BoundedInit DEF Init
<1>2. Inv /\ [Next]_vars => Inv'
  <2> SUFFICES ASSUME Inv, [Next]_vars, focus' = "reminders" PROVE RemindersInv' /\ RemindersBounded'
    OBVIOUS
  <2>1. focus = "reminders" /\ RemindersInv /\ RemindersBounded
    BY FocusStays
  <2>2. CASE Reminding!Next
    BY <2>1, <2>2, RemindersSteps, BoundedSteps
  <2>3. CASE UNCHANGED <<v1, v2, v3, v4, v5, v6>>
    BY <2>1, <2>3 DEF RemindersBounded, RemindersInv, ReminderTypes, ServedOrFaulted, Ahead, Served, Reminding!BothTold
  <2> QED BY <2>1, <2>2, <2>3 DEF Next, vars
<1> QED BY <1>1, <1>2, PTL DEF Spec

\* The theorem: who is accepted in time and stays so is reminded before the first and the
\* last day, told that the booking is overdue, and completed, although one run is lost or
\* one notice fails (booking-scheduler.service.ts); for any bookings, and any last day that
\* leaves time for all of it.
THEOREM RemindedInTime == Spec => []NobodyForgotten
<1>1. (focus = "reminders" => RemindersInv) => NobodyForgotten
  BY RemindersOk DEF NobodyForgotten
<1> QED BY <1>1, RemindersAlways, PTL
-----------------------------------------------------------------------------
(***************************************************************************)
(* Reports: what is compared is inductive only together with how far the   *)
(* report has come.  Where the part is counted first, it is no more than   *)
(* what the whole would be by now, since rows that are merely created and  *)
(* moved forward only add to the whole; where the whole is counted first,  *)
(* its period is over and what it counts stays what it is, so that the parts *)
(* are counted among the same rows.                                        *)
(***************************************************************************)
AnyRow == {Reporting!Gone} \cup UNION {Reporting!Rows(t) : t \in Reporting!Read}
Stages == Len(Reporting!Report(v1))

ReportTypes ==
  /\ v1 \in Reporting!Kinds /\ v2 \in 0 .. LastDate
  /\ v3 \in [Datum -> AnyRow]
  /\ v4.stage \in 0 .. Stages /\ v4.end \in 0 .. LastDate
  /\ DOMAIN v4 = {"stage", "pending", "end"}
  /\ v5 \in [Reporting!Kept -> 0 .. Cardinality(Datum)]
  /\ v6 \in BOOLEAN /\ v7 \in BOOLEAN
  /\ ~Reporting!Reading => v5 = Reporting!NoAnswers /\ ~v6 /\ v4.pending = {}

\* How many rows a query finds by now.
Count(q) == Cardinality(Reporting!Found(q))

LEMMA ReportCardinality == \A S : Reporting!Cardinality(S) = Cardinality(S)
BY DEF Reporting!Cardinality, Cardinality

LEMMA ReportLengths == \A kind \in Reporting!Kinds : Len(Reporting!Report(kind)) \in Nat \ {0}
<1>1. /\ Len(Reporting!RevenueReport) = 1 /\ Len(Reporting!UserReport) = 1
      /\ Len(Reporting!ToolReport) = 1 /\ Len(Reporting!BookingReport) = 1
      /\ Len(Reporting!Geographic) = 1 /\ Len(Reporting!UsersByCountry) = 1
      /\ Len(Reporting!Performance) = 1 /\ Len(Reporting!Formatted) = 4
  BY DEF Reporting!RevenueReport, Reporting!UserReport, Reporting!ToolReport, Reporting!BookingReport,
         Reporting!Geographic, Reporting!UsersByCountry, Reporting!Performance, Reporting!Formatted
<1>2. /\ Len(Reporting!Overview) = 1 /\ Len(Reporting!KPIs) = 1 /\ Len(Reporting!Disputes) = 1
      /\ Len(Reporting!Stats) = 1 /\ Len(Reporting!PaymentMetrics) = 1
      /\ Len(Reporting!Refunds) = 1 /\ Len(Reporting!Withdrawals) = 1 /\ Len(Reporting!RealTime) = 1
  BY DEF Reporting!Overview, Reporting!KPIs, Reporting!Disputes, Reporting!Stats,
         Reporting!PaymentMetrics, Reporting!Refunds, Reporting!Withdrawals, Reporting!RealTime
<1>3. /\ Len(Reporting!BookingStats) = 1 /\ Len(Reporting!BookingsSince) = 1
      /\ Len(Reporting!UserStats) = 1 /\ Len(Reporting!ToolStats) = 1
      /\ Len(Reporting!RefundStats) = 1 /\ Len(Reporting!NotificationStats) = 1
  BY DEF Reporting!BookingStats, Reporting!BookingsSince, Reporting!UserStats, Reporting!ToolStats,
         Reporting!RefundStats, Reporting!NotificationStats
<1>4. /\ Len(Reporting!RequestStats) = 1 /\ Len(Reporting!Security) = 2 /\ Len(Reporting!Balance) = 1
      /\ Len(Reporting!PersonalStats) = 1 /\ Len(Reporting!UserDetail) = 1
  BY DEF Reporting!RequestStats, Reporting!Security, Reporting!Balance, Reporting!PersonalStats,
         Reporting!UserDetail
<1>5. /\ Reporting!Report("revenue") = Reporting!RevenueReport
      /\ Reporting!Report("users") = Reporting!UserReport
      /\ Reporting!Report("tools") = Reporting!ToolReport
      /\ Reporting!Report("bookings") = Reporting!BookingReport
      /\ Reporting!Report("geographic") = Reporting!Geographic
      /\ Reporting!Report("countries") = Reporting!UsersByCountry
      /\ Reporting!Report("performance") = Reporting!Performance
      /\ Reporting!Report("formatted") = Reporting!Formatted
  BY DEF Reporting!Report
<1>6. /\ Reporting!Report("overview") = Reporting!Overview
      /\ Reporting!Report("kpis") = Reporting!KPIs
      /\ Reporting!Report("disputes") = Reporting!Disputes
      /\ Reporting!Report("stats") = Reporting!Stats
      /\ Reporting!Report("metrics") = Reporting!PaymentMetrics
      /\ Reporting!Report("refunds") = Reporting!Refunds
      /\ Reporting!Report("withdrawals") = Reporting!Withdrawals
      /\ Reporting!Report("realTime") = Reporting!RealTime
  BY DEF Reporting!Report
<1>7. /\ Reporting!Report("bookingStats") = Reporting!BookingStats
      /\ Reporting!Report("bookingsSince") = Reporting!BookingsSince
      /\ Reporting!Report("userStats") = Reporting!UserStats
      /\ Reporting!Report("toolStats") = Reporting!ToolStats
      /\ Reporting!Report("refundStats") = Reporting!RefundStats
      /\ Reporting!Report("notificationStats") = Reporting!NotificationStats
  BY DEF Reporting!Report
<1>8. /\ Reporting!Report("requestStats") = Reporting!RequestStats
      /\ Reporting!Report("security") = Reporting!Security
      /\ Reporting!Report("balance") = Reporting!Balance
      /\ Reporting!Report("personal") = Reporting!PersonalStats
      /\ Reporting!Report("detail") = Reporting!UserDetail
  BY DEF Reporting!Report
<1> QED BY <1>1, <1>2, <1>3, <1>4, <1>5, <1>6, <1>7, <1>8 DEF Reporting!Kinds

\* The kind of report never changes, and with it what is read and what is kept.
LEMMA ReportKind ==
  ASSUME v1' = v1
  PROVE  /\ Reporting!Kept' = Reporting!Kept /\ Reporting!NoAnswers' = Reporting!NoAnswers
         /\ Stages' = Stages /\ AnyRow' = AnyRow
<1>1. Reporting!Kept' = Reporting!Kept
  BY DEF Reporting!Kept
<1>2. Reporting!NoAnswers' = Reporting!NoAnswers
  BY <1>1 DEF Reporting!NoAnswers
<1>3. Stages' = Stages
  BY DEF Stages
<1>4. Reporting!Read' = Reporting!Read
  BY DEF Reporting!Read
<1>5. \A t : Reporting!Rows(t)' = Reporting!Rows(t)
  BY DEF Reporting!Rows
<1>6. AnyRow' = AnyRow
  BY <1>4, <1>5 DEF AnyRow
<1> QED BY <1>1, <1>2, <1>3, <1>6

LEMMA StagesNat == v1 \in Reporting!Kinds => Stages \in Nat \ {0}
BY ReportLengths DEF Stages

LEMMA NoAnswersType == Reporting!NoAnswers \in [Reporting!Kept -> 0 .. Cardinality(Datum)]
BY FS_CardinalityType, PlatformAssumption DEF Reporting!NoAnswers

\* Nothing that one of these leaves alone.
LEMMA ReportsType == ReportTypes => Reporting!TypeOK
<1> SUFFICES ASSUME ReportTypes PROVE Reporting!TypeOK
  OBVIOUS
<1>1. v3 \in [Datum -> {Reporting!Gone} \cup UNION {Reporting!Rows(t) : t \in Reporting!Read}]
  BY DEF ReportTypes, AnyRow
<1>2. v4.stage \in 0 .. Len(Reporting!Report(v1))
  BY DEF ReportTypes, Stages
<1>3. v1 \in Reporting!Kinds /\ v2 \in 0 .. LastDate /\ v4.end \in 0 .. LastDate
  BY DEF ReportTypes
<1>4. v5 \in [Reporting!Kept -> 0 .. Cardinality(Datum)] /\ v6 \in BOOLEAN /\ v7 \in BOOLEAN
  BY DEF ReportTypes
<1> QED BY <1>1, <1>2, <1>3, <1>4, ReportCardinality DEF Reporting!TypeOK

LEMMA ReportRows ==
  ASSUME ReportTypes, NEW r \in Datum
  PROVE  \/ v3[r] = Reporting!Gone
         \/ \E t \in Reporting!Read : v3[r] \in Reporting!Rows(t)
BY DEF ReportTypes, AnyRow

LEMMA RowFields ==
  ASSUME NEW t, NEW row \in Reporting!Rows(t)
  PROVE  /\ row.of = t /\ row.created \in 0 .. LastDate
         /\ DOMAIN row = {"of", "created", "status", "group"}
BY DEF Reporting!Rows

LEMMA FoundRows ==
  ASSUME NEW q
  PROVE  /\ Reporting!Found(q) \subseteq Datum /\ IsFiniteSet(Reporting!Found(q))
         /\ Count(q) \in 0 .. Cardinality(Datum)
<1>1. Reporting!Found(q) \in SUBSET Datum
  BY DEF Reporting!Found
<1>2. IsFiniteSet(Reporting!Found(q)) /\ Cardinality(Reporting!Found(q)) <= Cardinality(Datum)
  BY <1>1, FS_Subset, PlatformAssumption
<1> QED BY <1>1, <1>2, FS_CardinalityType, PlatformAssumption DEF Count

\* A row that is stored has the fields of a row, and so has one that is none.
LEMMA StoredFields ==
  ASSUME ReportTypes, NEW r \in Datum
  PROVE  v3[r].created \in Int /\ DOMAIN v3[r] = {"of", "created", "status", "group"}
BY ReportRows, RowFields, PlatformAssumption DEF Reporting!Gone

LEMMA ReportsInit == Reporting!Init => ReportTypes
<1> SUFFICES ASSUME Reporting!Init PROVE ReportTypes
  OBVIOUS
<1>1. v1 \in Reporting!Kinds /\ Stages \in Nat \ {0}
  BY StagesNat DEF Reporting!Init
<1>2. v5 = Reporting!NoAnswers /\ v5 \in [Reporting!Kept -> 0 .. Cardinality(Datum)]
  BY NoAnswersType DEF Reporting!Init
<1>3. v3 \in [Datum -> AnyRow]
  BY DEF Reporting!Init, AnyRow
<1>4. v4.stage = 0 /\ v4.end = 0 /\ v4.pending = {} /\ DOMAIN v4 = {"stage", "pending", "end"}
  BY DEF Reporting!Init, Reporting!Idle
<1>5. v2 \in 0 .. LastDate /\ 0 \in 0 .. LastDate
  BY PlatformAssumption DEF Reporting!Init
<1>6. v6 \in BOOLEAN /\ ~v6 /\ v7 \in BOOLEAN
  BY Zenon DEF Reporting!Init
<1> QED BY <1>1, <1>2, <1>3, <1>4, <1>5, <1>6 DEF ReportTypes

LEMMA ReportsBegin ==
  ASSUME ReportTypes, Reporting!Begin
  PROVE  ReportTypes'
<1>1. v1' = v1 /\ Stages \in Nat \ {0} /\ v2 \in Nat /\ LastDate \in Nat
  BY StagesNat, PlatformAssumption DEF Reporting!Begin, ReportTypes
<1> USE <1>1, ReportKind
<1>2. /\ v4'.stage = 1 /\ v4'.end = v2 /\ DOMAIN v4' = {"stage", "pending", "end"}
      /\ v2' = v2 + 1 /\ v2 < LastDate /\ v3' = v3 /\ v5' = v5 /\ v6' = v6 /\ v7' = v7
  BY DEF Reporting!Begin
<1> QED BY <1>2 DEF Reporting!Reading, ReportTypes

LEMMA ReportsNextStage ==
  ASSUME ReportTypes, Reporting!NextStage
  PROVE  ReportTypes'
<1>0. /\ v1' = v1 /\ Stages \in Nat \ {0} /\ v2 \in Nat /\ LastDate \in Nat
  BY StagesNat, PlatformAssumption DEF Reporting!NextStage, ReportTypes
<1>1. v1' = v1 /\ Stages \in Nat \ {0} /\ v2 \in Nat /\ LastDate \in Nat /\ v4.stage \in 1 .. Stages - 1
  BY <1>0 DEF Reporting!NextStage, ReportTypes, Reporting!Answered, Reporting!Reading, Stages
<1> USE <1>1, ReportKind
<1>2. /\ v4'.stage = v4.stage + 1 /\ v4'.end \in {v2, v4.end}
      /\ DOMAIN v4' = {"stage", "pending", "end"}
      /\ v2' = v2 \/ (v2' = v2 + 1 /\ v2 < LastDate)
      /\ v3' = v3 /\ v5' = v5 /\ v6' = v6 /\ v7' = v7
  BY DEF Reporting!NextStage
<1> QED BY <1>2 DEF Reporting!Reading, ReportTypes

LEMMA ReportsEnd ==
  ASSUME ReportTypes, Reporting!End
  PROVE  ReportTypes'
<1>1. v1' = v1 /\ Stages \in Nat \ {0} /\ LastDate \in Nat
  BY StagesNat, PlatformAssumption DEF Reporting!End, ReportTypes
<1> USE <1>1, ReportKind
<1>2. /\ v5' = Reporting!NoAnswers /\ v6' \in BOOLEAN /\ ~v6'
      /\ v2' = v2 /\ v3' = v3 /\ v7' = v7
  BY Zenon DEF Reporting!End
<1>3. v4'.stage = 0 /\ v4'.end = 0 /\ v4'.pending = {} /\ DOMAIN v4' = {"stage", "pending", "end"}
  BY DEF Reporting!End, Reporting!Idle
<1>4. 0 \in 0 .. LastDate
  BY <1>1
<1> QED BY <1>2, <1>3, <1>4, NoAnswersType DEF Reporting!Reading, ReportTypes

LEMMA ReportsTick ==
  ASSUME ReportTypes, Reporting!Tick
  PROVE  ReportTypes'
<1>1. /\ v1' = v1 /\ v2' = v2 + 1 /\ v2 < LastDate /\ v2 \in Nat /\ LastDate \in Nat
      /\ v3' = v3 /\ v4' = v4 /\ v5' = v5 /\ v6' = v6 /\ v7' = v7
  BY PlatformAssumption DEF Reporting!Tick, ReportTypes
<1> USE <1>1, ReportKind
<1> QED BY DEF ReportTypes, Reporting!Reading

\* What a query answers is kept when nothing disturbed the report.
LEMMA ReportsQuery ==
  ASSUME ReportTypes, NEW chain \in v4.pending, Reporting!Query(chain), Reporting!Reading
  PROVE  /\ ReportTypes' /\ Reporting!Reading'
         /\ v1' = v1 /\ v3' = v3 /\ v6' = v6 /\ v4'.stage = v4.stage /\ v4'.end = v4.end
         /\ v4'.pending = (v4.pending \ {chain}) \cup (IF Len(chain) > 1 THEN {Tail(chain)} ELSE {})
         /\ ~v6 => v5' = [name \in Reporting!Kept |->
                            IF name = Head(chain).name THEN Count(Head(chain)) ELSE v5[name]]
<1>1. v1' = v1 /\ v2' = v2 /\ v3' = v3 /\ v6' = v6
  BY DEF Reporting!Query
<1> USE <1>1, ReportKind
<1>2. /\ v4'.stage = v4.stage /\ v4'.end = v4.end /\ DOMAIN v4' = DOMAIN v4
      /\ v4'.pending = (v4.pending \ {chain}) \cup (IF Len(chain) > 1 THEN {Tail(chain)} ELSE {})
  BY DEF Reporting!Query, ReportTypes
<1>3. PICK q : q = Head(chain)
  OBVIOUS
<1>4. v5' = [name \in Reporting!Kept |-> IF name = q.name /\ ~v6 THEN Count(q) ELSE v5[name]]
  <2>1. v5' = [name \in Reporting!Kept |->
                 IF name = Head(chain).name /\ ~v6 THEN Cardinality(Reporting!Found(Head(chain)))
                 ELSE v5[name]]
    BY ReportCardinality DEF Reporting!Query
  <2> QED BY <1>3, <2>1 DEF Count
<1>5. Count(q) \in 0 .. Cardinality(Datum)
  BY FoundRows
<1>6. v5' \in [Reporting!Kept -> 0 .. Cardinality(Datum)]
  BY <1>4, <1>5 DEF ReportTypes
<1>7. v7' \in BOOLEAN
  BY DEF Reporting!Query, ReportTypes
<1>8. Reporting!Reading'
  BY <1>2 DEF Reporting!Reading
<1>9. ReportTypes'
  BY <1>2, <1>6, <1>7, <1>8 DEF ReportTypes
<1> QED BY <1>2, <1>3, <1>4, <1>8, <1>9

\* What others do to the rows, and whether it disturbs the report.
LEMMA ReportsDisturb ==
  ASSUME ReportTypes, NEW now \in BOOLEAN, Reporting!Disturb(now),
         v1' = v1, v2' = v2, v4' = v4, v7' = v7, v3' \in [Datum -> AnyRow]
  PROVE  /\ ReportTypes' /\ Reporting!Reading' = Reporting!Reading
         /\ v6' \/ (~v6 /\ v5' = v5 /\ (Reporting!Reading /\ Reporting!Kept # {} => ~now))
<1> USE ReportKind
<1>1. v6' \in BOOLEAN /\ v5' \in {v5, Reporting!NoAnswers} /\ (~v6' => v5' = v5)
  BY DEF Reporting!Disturb, ReportTypes
<1>2. v5' \in [Reporting!Kept -> 0 .. Cardinality(Datum)]
  BY <1>1, NoAnswersType DEF ReportTypes
<1>3. ~Reporting!Reading => ~v6' /\ v5' = v5
  BY DEF Reporting!Disturb, ReportTypes
<1>4. Reporting!Reading' = Reporting!Reading
  BY DEF Reporting!Reading
<1>5. v6' \/ (~v6 /\ v5' = v5 /\ (Reporting!Reading /\ Reporting!Kept # {} => ~now))
  BY <1>1 DEF Reporting!Disturb
<1>6. ReportTypes'
  BY <1>1, <1>2, <1>3, <1>4 DEF ReportTypes
<1> QED BY <1>4, <1>5, <1>6

LEMMA ReportsInsert ==
  ASSUME ReportTypes, NEW r \in Datum, NEW t \in Reporting!Read, NEW row \in Reporting!Rows(t),
         Reporting!Insert(r, row)
  PROVE  /\ ReportTypes' /\ Reporting!Reading' = Reporting!Reading
         /\ v6' \/ (~v6 /\ v5' = v5 /\ (Reporting!Reading /\ Reporting!Kept # {} => ~(row.created <= v4.end)))
<1>1. v3' \in [Datum -> AnyRow]
  BY DEF Reporting!Insert, ReportTypes, AnyRow
<1>2. (row.created <= v4.end) \in BOOLEAN
  OBVIOUS
<1> QED BY <1>1, <1>2, ReportsDisturb DEF Reporting!Insert

LEMMA ReportsMove ==
  ASSUME ReportTypes, NEW r \in Datum, NEW move \in Reporting!Moves, Reporting!Move(r, move)
  PROVE  /\ ReportTypes' /\ Reporting!Reading' = Reporting!Reading
         /\ v3' = [v3 EXCEPT ![r] = [v3[r] EXCEPT !.status = move[3]]]
         /\ v6' \/ (~v6 /\ v5' = v5 /\ (Reporting!Reading /\ Reporting!Kept # {}
                                   => ~(move[1] = "transactions" \/ move[2] = "COMPLETED")))
<1>1. v3' = [v3 EXCEPT ![r] = [v3[r] EXCEPT !.status = move[3]]]
  BY DEF Reporting!Move
<1>2. move[1] \in Reporting!Read
  <2>1. v3[r] # Reporting!Gone
    BY DEF Reporting!Move, Reporting!Moves, Reporting!Gone
  <2> QED BY <2>1, ReportRows, RowFields DEF Reporting!Move
<1>3. [v3[r] EXCEPT !.status = move[3]] \in AnyRow
  BY <1>2 DEF Reporting!Move, AnyRow
<1>4. v3' \in [Datum -> AnyRow]
  BY <1>1, <1>3 DEF ReportTypes
<1>5. (move[1] = "transactions" \/ move[2] = "COMPLETED") \in BOOLEAN
  OBVIOUS
<1> QED BY <1>1, <1>4, <1>5, ReportsDisturb DEF Reporting!Move

LEMMA ReportsDelete ==
  ASSUME ReportTypes, NEW r \in Datum, Reporting!Delete(r)
  PROVE  /\ ReportTypes' /\ Reporting!Reading' = Reporting!Reading
         /\ v6' \/ ~Reporting!Reading \/ Reporting!Kept = {}
<1>1. v3' \in [Datum -> AnyRow]
  BY DEF Reporting!Delete, ReportTypes, AnyRow
<1> QED BY <1>1, ReportsDisturb DEF Reporting!Delete

\* The rows that a query finds depend on the rows and on the end of the period.
LEMMA SameFound ==
  ASSUME v3' = v3, v4'.end = v4.end, NEW q
  PROVE  Count(q)' = Count(q)
<1>1. Reporting!Found(q)' = Reporting!Found(q)
  BY DEF Reporting!Found, Reporting!Within
<1> QED BY <1>1 DEF Count

LEMMA FoundFewer ==
  ASSUME NEW p, NEW q, Reporting!Found(p) \subseteq Reporting!Found(q)
  PROVE  Count(p) <= Count(q)
<1>1. Reporting!Found(p) \in SUBSET Reporting!Found(q) /\ IsFiniteSet(Reporting!Found(q))
  BY FoundRows
<1> QED BY <1>1, FS_Subset DEF Count

\* A step of the others that leaves the report undisturbed.
Quiet ==
  /\ ReportTypes /\ Reporting!Reading /\ Reporting!Kept # {} /\ ~v6'
  /\ v1' = v1 /\ v4' = v4
  /\ \/ \E r \in Datum : \E t \in Reporting!Read : \E row \in Reporting!Rows(t) : Reporting!Insert(r, row)
     \/ \E r \in Datum : \E move \in Reporting!Moves : Reporting!Move(r, move)

\* A query whose rows keep their place in it, and one that finds the same ones.
Growing(q) ==
  /\ q.of # "none"
  /\ \A move \in Reporting!Moves :
       move[1] = q.of /\ move[2] \in q.status
         => move[3] \in q.status \/ move[2] = "COMPLETED" \/ move[1] = "transactions"

Sealed(q) ==
  /\ Growing(q) /\ q.period = "period"
  /\ \A move \in Reporting!Moves :
       move[1] = q.of /\ move[3] \in q.status
         => move[2] \in q.status \/ move[2] = "COMPLETED" \/ move[1] = "transactions"

LEMMA QuietInsert ==
  ASSUME Quiet, NEW r \in Datum, NEW t \in Reporting!Read, NEW row \in Reporting!Rows(t),
         Reporting!Insert(r, row)
  PROVE  /\ v3[r] = Reporting!Gone /\ v3' = [v3 EXCEPT ![r] = row] /\ ~(row.created <= v4.end)
         /\ \A s \in Datum : s # r => v3'[s] = v3[s]
         /\ v3'[r] = row
<1>1. v3[r] = Reporting!Gone /\ v3' = [v3 EXCEPT ![r] = row] /\ v3 \in [Datum -> AnyRow]
  BY DEF Reporting!Insert, Quiet, ReportTypes
<1>2. ~(row.created <= v4.end)
  BY ReportsInsert DEF Quiet
<1> QED BY <1>1, <1>2

LEMMA QuietMove ==
  ASSUME Quiet, NEW r \in Datum, NEW move \in Reporting!Moves, Reporting!Move(r, move)
  PROVE  /\ ~(move[1] = "transactions" \/ move[2] = "COMPLETED")
         /\ v3[r].of = move[1] /\ v3[r].status = move[2]
         /\ \A s \in Datum : s # r => v3'[s] = v3[s]
         /\ v3'[r].of = v3[r].of /\ v3'[r].created = v3[r].created /\ v3'[r].group = v3[r].group
         /\ v3'[r].status = move[3]
<1>1. v3' = [v3 EXCEPT ![r] = [v3[r] EXCEPT !.status = move[3]]] /\ v3 \in [Datum -> AnyRow]
  BY ReportsMove DEF Quiet, ReportTypes
<1>2. DOMAIN v3[r] = {"of", "created", "status", "group"}
  BY StoredFields DEF Quiet
<1>3. ~(move[1] = "transactions" \/ move[2] = "COMPLETED")
  BY ReportsMove DEF Quiet
<1>4. PICK row : row = v3[r]
  OBVIOUS
<1>5. v3'[r] = [row EXCEPT !.status = move[3]] /\ \A s \in Datum : s # r => v3'[s] = v3[s]
  BY <1>1, <1>4
<1> QED BY <1>2, <1>3, <1>4, <1>5 DEF Reporting!Move

\* What is not taken back is found again.
LEMMA FoundAgain ==
  ASSUME Quiet, NEW q, Growing(q)
  PROVE  Reporting!Found(q) \subseteq Reporting!Found(q)' /\ Count(q) <= Count(q)'
<1>1. ASSUME NEW s \in Reporting!Found(q) PROVE s \in Reporting!Found(q)'
  <2>1. /\ s \in Datum /\ v3[s].of = q.of /\ v3[s].status \in q.status /\ v3[s].group \in q.group
        /\ Reporting!Within(v3[s].created, q.period) /\ q.of # "none"
    BY <1>1 DEF Reporting!Found, Growing
  <2>2. v4' = v4
    BY DEF Quiet
  <2>3. CASE \E r \in Datum : \E t \in Reporting!Read : \E row \in Reporting!Rows(t) : Reporting!Insert(r, row)
    <3>1. v3'[s] = v3[s]
      BY <2>1, <2>3, QuietInsert DEF Reporting!Gone
    <3> QED BY <2>1, <2>2, <3>1 DEF Reporting!Found, Reporting!Within
  <2>4. CASE \E r \in Datum : \E move \in Reporting!Moves : Reporting!Move(r, move)
    <3>1. /\ v3'[s].of = v3[s].of /\ v3'[s].created = v3[s].created /\ v3'[s].group = v3[s].group
          /\ v3'[s].status \in q.status
      BY <2>1, <2>4, QuietMove DEF Growing
    <3> QED BY <2>1, <2>2, <3>1 DEF Reporting!Found, Reporting!Within
  <2> QED BY <2>3, <2>4 DEF Quiet
<1>2. Reporting!Found(q) \subseteq Reporting!Found(q)'
  BY <1>1
<1>3. Reporting!Found(q)' \in SUBSET Datum
  BY DEF Reporting!Found
<1>4. IsFiniteSet(Reporting!Found(q)')
  BY <1>3, FS_Subset, PlatformAssumption
<1>5. Reporting!Found(q) \in SUBSET (Reporting!Found(q)')
  BY <1>2
<1> QED BY <1>2, <1>4, <1>5, FS_Subset DEF Count

\* What was created since does not belong to the period.
LEMMA FoundSame ==
  ASSUME Quiet, NEW q, Sealed(q)
  PROVE  Count(q)' = Count(q)
<1>1. ASSUME NEW s \in Reporting!Found(q)' PROVE s \in Reporting!Found(q)
  <2>1. /\ s \in Datum /\ v3'[s].of = q.of /\ v3'[s].status \in q.status /\ v3'[s].group \in q.group
        /\ v3'[s].created \in v4.end - Span .. v4.end /\ q.period = "period"
    BY <1>1 DEF Reporting!Found, Sealed, Quiet, Reporting!Within
  <2>2. v4.end \in Int
    BY PlatformAssumption DEF Quiet, ReportTypes
  <2>3. CASE \E r \in Datum : \E t \in Reporting!Read : \E row \in Reporting!Rows(t) : Reporting!Insert(r, row)
    <3>1. v3'[s] = v3[s]
      BY <2>1, <2>2, <2>3, QuietInsert
    <3> QED BY <2>1, <3>1 DEF Reporting!Found, Reporting!Within
  <2>4. CASE \E r \in Datum : \E move \in Reporting!Moves : Reporting!Move(r, move)
    <3>1. /\ v3'[s].of = v3[s].of /\ v3'[s].created = v3[s].created /\ v3'[s].group = v3[s].group
          /\ v3[s].status \in q.status
      BY <2>1, <2>4, QuietMove DEF Sealed
    <3> QED BY <2>1, <3>1 DEF Reporting!Found, Reporting!Within
  <2> QED BY <2>3, <2>4 DEF Quiet
<1>2. Reporting!Found(q) \subseteq Reporting!Found(q)'
  BY FoundAgain DEF Sealed
<1>3. Reporting!Found(q)' = Reporting!Found(q)
  BY <1>1, <1>2
<1> QED BY <1>3 DEF Count

\* The queries that are still to come after a chain has begun.
Later(Q) == Seq(Q) \ {<<>>}

LEMMA LaterChain ==
  ASSUME NEW Q, NEW k \in Later(Q)
  PROVE  Head(k) \in Q /\ (Len(k) > 1 => Tail(k) \in Later(Q))
<1>1. k \in Seq(Q) /\ k # <<>>
  BY DEF Later
<1>2. /\ Head(k) \in Q /\ Tail(k) \in Seq(Q)
      /\ Len(Tail(k)) = Len(k) - 1
  BY <1>1, HeadTailProperties
<1>3. Len(k) > 1 => Tail(k) # <<>>
  BY <1>1, <1>2
<1> QED BY <1>2, <1>3 DEF Later

\* The part is counted, then the whole, and then what nothing is compared with.
PartFirst(p, w, c, Q) ==
  \/ v4.pending = {c}
  \/ v4.pending = {Tail(c)} /\ v5[p.name] <= Count(w)
  \/ v4.pending \subseteq Later(Q) /\ v5[p.name] <= v5[w.name]

\* The whole is counted, and then its parts.
WholeFirst(w, P, c, Q) ==
  \/ v4.pending = {c} /\ \A p \in P : v5[p.name] = 0
  \/ /\ v4.pending \subseteq Later(Q) /\ v5[w.name] = Count(w)
     /\ \A p \in P : v5[p.name] \in {0, Count(p)}

LEMMA PartFirstQuery ==
  ASSUME NEW p, NEW w, NEW c, NEW Q, PartFirst(p, w, c, Q),
         Head(c) = p, Len(c) > 1, Head(Tail(c)) = w, Len(Tail(c)) > 1 => Tail(Tail(c)) \in Later(Q),
         p.name \in Reporting!Kept, w.name \in Reporting!Kept, p.name # w.name,
         \A q \in Q : q.name # p.name /\ q.name # w.name,
         Reporting!Found(p) \subseteq Reporting!Found(w),
         ReportTypes, Reporting!Reading, ~v6, NEW chain \in v4.pending, Reporting!Query(chain)
  PROVE  PartFirst(p, w, c, Q)'
<1>1. /\ v4'.pending = (v4.pending \ {chain}) \cup (IF Len(chain) > 1 THEN {Tail(chain)} ELSE {})
      /\ v5' = [name \in Reporting!Kept |-> IF name = Head(chain).name THEN Count(Head(chain)) ELSE v5[name]]
      /\ Count(w)' = Count(w)
  BY ReportsQuery, SameFound
<1>2. Count(p) <= Count(w) /\ Count(w) \in Int
  BY FoundFewer, FoundRows
<1>3. CASE v4.pending = {c}
  <2>1. v4'.pending = {Tail(c)} /\ v5'[p.name] = Count(p)
    BY <1>1, <1>3
  <2> QED BY <1>1, <1>2, <2>1 DEF PartFirst
<1>4. CASE v4.pending = {Tail(c)} /\ v5[p.name] <= Count(w)
  <2>1. v4'.pending \subseteq Later(Q)
    BY <1>1, <1>4
  <2>2. v5'[p.name] = v5[p.name] /\ v5'[w.name] = Count(w)
    BY <1>1, <1>4
  <2> QED BY <1>4, <2>1, <2>2 DEF PartFirst
<1>5. CASE v4.pending \subseteq Later(Q) /\ v5[p.name] <= v5[w.name]
  <2>1. Head(chain) \in Q /\ (Len(chain) > 1 => Tail(chain) \in Later(Q))
    BY <1>5, LaterChain
  <2>2. v4'.pending \subseteq Later(Q)
    BY <1>1, <1>5, <2>1
  <2>3. v5'[p.name] = v5[p.name] /\ v5'[w.name] = v5[w.name]
    BY <1>1, <2>1
  <2> QED BY <1>5, <2>2, <2>3 DEF PartFirst
<1> QED BY <1>3, <1>4, <1>5 DEF PartFirst

LEMMA PartFirstQuiet ==
  ASSUME NEW p, NEW w, NEW c, NEW Q, PartFirst(p, w, c, Q), Growing(w), Quiet, v5' = v5,
         v5[p.name] \in Int
  PROVE  PartFirst(p, w, c, Q)'
<1>1. Count(w) <= Count(w)' /\ v4' = v4
  BY FoundAgain DEF Quiet
<1>2. Count(w) \in Int /\ Count(w)' \in Int
  <2>1. Reporting!Found(w)' \in SUBSET Datum
    BY DEF Reporting!Found
  <2>2. IsFiniteSet(Reporting!Found(w)')
    BY <2>1, FS_Subset, PlatformAssumption
  <2> QED BY <2>2, FoundRows, FS_CardinalityType DEF Count
<1> QED BY <1>1, <1>2 DEF PartFirst

LEMMA WholeFirstQuery ==
  ASSUME NEW w, NEW P, NEW c, NEW Q, WholeFirst(w, P, c, Q),
         Head(c) = w, Len(c) > 1, Tail(c) \in Later(Q),
         w.name \in Reporting!Kept, \A p \in P : p.name \in Reporting!Kept /\ p.name # w.name,
         \A q \in Q : q.name # w.name /\ \A p \in P : q.name = p.name => q = p,
         ReportTypes, Reporting!Reading, ~v6, NEW chain \in v4.pending, Reporting!Query(chain)
  PROVE  WholeFirst(w, P, c, Q)'
<1>1. /\ v4'.pending = (v4.pending \ {chain}) \cup (IF Len(chain) > 1 THEN {Tail(chain)} ELSE {})
      /\ v5' = [name \in Reporting!Kept |-> IF name = Head(chain).name THEN Count(Head(chain)) ELSE v5[name]]
      /\ \A q : Count(q)' = Count(q)
  BY ReportsQuery, SameFound
<1>2. CASE v4.pending = {c} /\ \A p \in P : v5[p.name] = 0
  <2>1. v4'.pending \subseteq Later(Q) /\ v5'[w.name] = Count(w)
    BY <1>1, <1>2
  <2>2. \A p \in P : v5'[p.name] = 0
    BY <1>1, <1>2
  <2> QED BY <1>1, <2>1, <2>2 DEF WholeFirst
<1>3. CASE /\ v4.pending \subseteq Later(Q) /\ v5[w.name] = Count(w)
           /\ \A p \in P : v5[p.name] \in {0, Count(p)}
  <2>1. Head(chain) \in Q /\ (Len(chain) > 1 => Tail(chain) \in Later(Q))
    BY <1>3, LaterChain
  <2>2. v4'.pending \subseteq Later(Q)
    BY <1>1, <1>3, <2>1
  <2>3. v5'[w.name] = v5[w.name]
    BY <1>1, <2>1
  <2>4. \A p \in P : v5'[p.name] \in {0, Count(p)}
    BY <1>1, <1>3, <2>1
  <2> QED BY <1>1, <1>3, <2>2, <2>3, <2>4 DEF WholeFirst
<1> QED BY <1>2, <1>3 DEF WholeFirst

LEMMA WholeFirstQuiet ==
  ASSUME NEW w, NEW P, NEW c, NEW Q, WholeFirst(w, P, c, Q), Sealed(w), \A p \in P : Sealed(p),
         Quiet, v5' = v5
  PROVE  WholeFirst(w, P, c, Q)'
<1>1. Count(w)' = Count(w) /\ (\A p \in P : Count(p)' = Count(p)) /\ v4' = v4
  BY FoundSame DEF Quiet
<1> QED BY <1>1 DEF WholeFirst

Chart == Reporting!With("chart", "bookings", "COMPLETED", "period")
AllRevenue == Reporting!With("total", "bookings", "COMPLETED", "always")
AllUsers == Reporting!All("allUsers", "users", "always")
SignedUp == Reporting!All("signedUp", "users", "period")
Converted == Reporting!With("converted", "users", "booked", "period")
ByStatus == Reporting!All("byStatus", "disputes", "always")
AllDisputes == Reporting!All("disputes", "disputes", "always")
Resolved == Reporting!With("resolved", "disputes", "RESOLVED", "always")
Monthly == Reporting!All("monthly", "disputes", "since")
Transactions == Reporting!All("transactions", "transactions", "period")
Of(status) == Reporting!With(status, "transactions", status, "period")
OfEach == {Of("COMPLETED"), Of("FAILED"), Of("PENDING"), Of("CANCELLED")}
Earned(period) == Reporting!With("earned", "transactions", "COMPLETED", period)
Logs == Reporting!All("logs", "logs", "after")
Handled == Reporting!With("resolved", "logs", "resolved", "after")
Critical == Reporting!Ask("critical", "logs", Reporting!Statuses["logs"], {"critical"}, "after")
ByType == Reporting!All("byType", "logs", "after")
BySeverity == Reporting!All("bySeverity", "logs", "after")

RevenueChain == <<Chart, AllRevenue>>
CountryChain == <<Reporting!ByCountry, AllUsers>>
DisputeChain == <<ByStatus, AllDisputes, Resolved, Monthly>>
PerformanceChain == <<SignedUp, Converted>>
StatsChain == <<Transactions, Of("COMPLETED"), Of("FAILED"), Of("PENDING"), Of("CANCELLED"),
                Earned("period"), Earned("before")>>

SecuritySound ==
  \/ /\ v4.stage = 1 /\ v4.pending \subseteq {<<Logs>>, <<Handled>>, <<Critical>>}
     /\ v5["critical"] <= Count(BySeverity)
  \/ /\ v4.stage = 2 /\ v4.pending \in {{<<ByType, BySeverity>>}, {<<BySeverity>>}}
     /\ v5["critical"] <= Count(BySeverity)
  \/ v4.stage = 2 /\ v4.pending = {} /\ v5["critical"] <= v5["bySeverity"]

ReportSound ==
  Reporting!Reading /\ ~v6 =>
    /\ v1 = "revenue" => PartFirst(Chart, AllRevenue, RevenueChain, {})
    /\ v1 = "countries" => PartFirst(Reporting!ByCountry, AllUsers, CountryChain, {})
    /\ v1 = "disputes" => PartFirst(ByStatus, AllDisputes, DisputeChain, {Resolved, Monthly})
    /\ v1 = "performance" => /\ WholeFirst(SignedUp, {}, PerformanceChain, {Converted})
                             /\ v5["converted"] <= Count(SignedUp)
    /\ v1 = "stats" => WholeFirst(Transactions, OfEach, StatsChain,
                                  OfEach \cup {Earned("period"), Earned("before")})
    /\ v1 = "security" => SecuritySound

ReportsInv == ReportTypes /\ ReportSound

USE DEF Reporting!All, Reporting!With, Reporting!Ask

LEMMA Names ==
  /\ Chart.name = "chart" /\ AllRevenue.name = "total" /\ Reporting!ByCountry.name = "byCountry"
  /\ AllUsers.name = "allUsers" /\ SignedUp.name = "signedUp" /\ Converted.name = "converted"
  /\ ByStatus.name = "byStatus" /\ AllDisputes.name = "disputes" /\ Resolved.name = "resolved"
  /\ Monthly.name = "monthly" /\ Transactions.name = "transactions"
  /\ \A s : Of(s).name = s
  /\ \A p : Earned(p).name = "earned"
  /\ Logs.name = "logs" /\ Handled.name = "resolved" /\ Critical.name = "critical"
  /\ ByType.name = "byType" /\ BySeverity.name = "bySeverity"
BY DEF Chart, AllRevenue, Reporting!ByCountry, AllUsers, SignedUp, Converted, ByStatus, AllDisputes,
       Resolved, Monthly, Transactions, Of, Earned, Logs, Handled, Critical, ByType, BySeverity

\* What is kept of the reports in which something is compared.
LEMMA KeptNames ==
  /\ v1 = "revenue" => Reporting!Kept = {"chart", "total"}
  /\ v1 = "countries" => Reporting!Kept = {"byCountry", "allUsers"}
  /\ v1 = "performance" => Reporting!Kept = {"converted", "signedUp"}
  /\ v1 = "security" => Reporting!Kept = {"critical", "bySeverity"}
  /\ v1 = "disputes" => Reporting!Kept = {"byStatus", "disputes"}
  /\ v1 = "stats" => Reporting!Kept = {"COMPLETED", "FAILED", "PENDING", "CANCELLED", "transactions"}
BY DEF Reporting!Kept, Reporting!Compared

LEMMA OneStage ==
  /\ Reporting!Report("revenue") = <<{RevenueChain}>>
  /\ Reporting!Report("countries") = <<{CountryChain}>>
  /\ Reporting!Report("disputes") = <<{DisputeChain}>>
  /\ Reporting!Report("performance") = <<{PerformanceChain}>>
  /\ Reporting!Report("stats") = <<{StatsChain}>>
  /\ Reporting!Report("security") = <<{<<Logs>>, <<Handled>>, <<Critical>>}, {<<ByType, BySeverity>>}>>
<1>1. Reporting!Report("revenue") = <<{RevenueChain}>>
  BY DEF Reporting!Report, Reporting!RevenueReport, Reporting!Revenue, RevenueChain, Chart, AllRevenue
<1>2. Reporting!Report("countries") = <<{CountryChain}>>
  BY DEF Reporting!Report, Reporting!UsersByCountry, CountryChain, AllUsers
<1>3. Reporting!Report("disputes") = <<{DisputeChain}>>
  BY DEF Reporting!Report, Reporting!Disputes, DisputeChain, ByStatus, AllDisputes, Resolved, Monthly
<1>4. Reporting!Report("performance") = <<{PerformanceChain}>>
  BY DEF Reporting!Report, Reporting!Performance, PerformanceChain, SignedUp, Converted
<1>5. Reporting!Report("stats") = <<{StatsChain}>>
  BY DEF Reporting!Report, Reporting!Stats, StatsChain, Transactions, Of, Earned
<1>6. Reporting!Report("security") = <<{<<Logs>>, <<Handled>>, <<Critical>>}, {<<ByType, BySeverity>>}>>
  BY DEF Reporting!Report, Reporting!Security, Logs, Handled, Critical, ByType, BySeverity
<1> QED BY <1>1, <1>2, <1>3, <1>4, <1>5, <1>6

\* The wholes, and what is counted after them.
LEMMA WholesGrow ==
  /\ Growing(AllRevenue) /\ Growing(AllUsers) /\ Growing(AllDisputes) /\ Growing(BySeverity)
  /\ Sealed(SignedUp) /\ Sealed(Transactions)
  /\ \A q \in OfEach : Sealed(q)
<1>1. Growing(AllRevenue)
  BY DEF Growing, AllRevenue, Reporting!Moves
<1>2. Growing(AllUsers)
  BY DEF Growing, AllUsers, Reporting!Moves, Reporting!Statuses
<1>3. Growing(AllDisputes)
  BY DEF Growing, AllDisputes, Reporting!Moves, Reporting!Statuses
<1>4. Growing(BySeverity)
  BY DEF Growing, BySeverity, Reporting!Moves, Reporting!Statuses
<1>5. Sealed(SignedUp)
  BY DEF Sealed, Growing, SignedUp, Reporting!Moves, Reporting!Statuses
<1>7. Sealed(Transactions)
  BY DEF Sealed, Growing, Transactions, Reporting!Moves, Reporting!Statuses
<1>8. ASSUME NEW q \in OfEach PROVE Sealed(q)
  BY DEF Sealed, Growing, OfEach, Of, Reporting!Moves
<1> QED BY <1>1, <1>2, <1>3, <1>4, <1>5, <1>7, <1>8

\* A part finds rows that the whole finds.
LEMMA PartsOfWholes ==
  /\ Reporting!Found(Chart) \subseteq Reporting!Found(AllRevenue)
  /\ Reporting!Found(Reporting!ByCountry) \subseteq Reporting!Found(AllUsers)
  /\ Reporting!Found(ByStatus) \subseteq Reporting!Found(AllDisputes)
  /\ Reporting!Found(Converted) \subseteq Reporting!Found(SignedUp)
  /\ Reporting!Found(Critical) \subseteq Reporting!Found(BySeverity)
  /\ \A q \in OfEach : Reporting!Found(q) \subseteq Reporting!Found(Transactions)
<1>1. Reporting!Found(Chart) \subseteq Reporting!Found(AllRevenue)
  BY DEF Reporting!Found, Reporting!Within, Chart, AllRevenue
<1>2. Reporting!Found(Reporting!ByCountry) \subseteq Reporting!Found(AllUsers)
  BY DEF Reporting!Found, Reporting!Within, Reporting!ByCountry, AllUsers, Reporting!Groups, Reporting!Statuses
<1>3. Reporting!Found(ByStatus) \subseteq Reporting!Found(AllDisputes)
  BY DEF Reporting!Found, ByStatus, AllDisputes
<1>4. Reporting!Found(Converted) \subseteq Reporting!Found(SignedUp)
  BY DEF Reporting!Found, Converted, SignedUp, Reporting!Statuses
<1>5. Reporting!Found(Critical) \subseteq Reporting!Found(BySeverity)
  BY DEF Reporting!Found, Critical, BySeverity, Reporting!Groups, Reporting!Statuses
<1>6. ASSUME NEW q \in OfEach PROVE Reporting!Found(q) \subseteq Reporting!Found(Transactions)
  BY DEF Reporting!Found, OfEach, Of, Transactions, Reporting!Statuses
<1> QED BY <1>1, <1>2, <1>3, <1>4, <1>5, <1>6

LEMMA SixInSeq ==
  ASSUME NEW Q, NEW a \in Q, NEW b \in Q, NEW c \in Q, NEW d \in Q, NEW e \in Q, NEW f \in Q
  PROVE  <<a, b, c, d, e, f>> \in Seq(Q) /\ <<a, b, c, d, e, f>> # <<>>
OBVIOUS

\* Each chain begins with what it is to begin with.
LEMMA Chains ==
  /\ Head(RevenueChain) = Chart /\ Len(RevenueChain) > 1 /\ Head(Tail(RevenueChain)) = AllRevenue
  /\ ~(Len(Tail(RevenueChain)) > 1)
  /\ Head(CountryChain) = Reporting!ByCountry /\ Len(CountryChain) > 1 /\ Head(Tail(CountryChain)) = AllUsers
  /\ ~(Len(Tail(CountryChain)) > 1)
  /\ Head(DisputeChain) = ByStatus /\ Len(DisputeChain) > 1 /\ Head(Tail(DisputeChain)) = AllDisputes
  /\ Tail(Tail(DisputeChain)) \in Later({Resolved, Monthly})
  /\ Head(PerformanceChain) = SignedUp /\ Len(PerformanceChain) > 1
  /\ Tail(PerformanceChain) \in Later({Converted})
  /\ Head(StatsChain) = Transactions /\ Len(StatsChain) > 1
  /\ Tail(StatsChain) \in Later(OfEach \cup {Earned("period"), Earned("before")})
<1>1. /\ Head(RevenueChain) = Chart /\ Len(RevenueChain) > 1 /\ Tail(RevenueChain) = <<AllRevenue>>
      /\ Head(CountryChain) = Reporting!ByCountry /\ Len(CountryChain) > 1 /\ Tail(CountryChain) = <<AllUsers>>
  BY DEF RevenueChain, CountryChain
<1>2. /\ Head(DisputeChain) = ByStatus /\ Len(DisputeChain) > 1
      /\ Tail(DisputeChain) = <<AllDisputes, Resolved, Monthly>>
  BY DEF DisputeChain
<1>3. Tail(<<AllDisputes, Resolved, Monthly>>) = <<Resolved, Monthly>>
  OBVIOUS
<1>4. /\ Head(PerformanceChain) = SignedUp /\ Len(PerformanceChain) > 1
      /\ Tail(PerformanceChain) = <<Converted>>
  BY DEF PerformanceChain
<1>5. /\ Head(StatsChain) = Transactions /\ Len(StatsChain) > 1
      /\ Tail(StatsChain) = <<Of("COMPLETED"), Of("FAILED"), Of("PENDING"), Of("CANCELLED"),
                              Earned("period"), Earned("before")>>
  BY DEF StatsChain
<1>6. <<Resolved, Monthly>> \in Later({Resolved, Monthly}) /\ <<Converted>> \in Later({Converted})
  BY DEF Later
<1>7. Tail(StatsChain) \in Later(OfEach \cup {Earned("period"), Earned("before")})
  <2> DEFINE Q == OfEach \cup {Earned("period"), Earned("before")}
  <2>1. /\ Of("COMPLETED") \in Q /\ Of("FAILED") \in Q /\ Of("PENDING") \in Q /\ Of("CANCELLED") \in Q
        /\ Earned("period") \in Q /\ Earned("before") \in Q
    BY DEF OfEach
  <2> HIDE DEF Q
  <2>2. LET t == <<Of("COMPLETED"), Of("FAILED"), Of("PENDING"), Of("CANCELLED"), Earned("period"),
                   Earned("before")>>
        IN  t \in Seq(Q) /\ t # <<>>
    BY ONLY <2>1, SixInSeq
  <2>3. Tail(StatsChain) \in Seq(Q) /\ Tail(StatsChain) # <<>>
    BY ONLY <1>5, <2>2
  <2> QED BY <2>3 DEF Later, Q
<1>8. ASSUME NEW q PROVE Head(<<q>>) = q /\ ~(Len(<<q>>) > 1)
  OBVIOUS
<1>9. Head(Tail(DisputeChain)) = AllDisputes /\ Tail(Tail(DisputeChain)) = <<Resolved, Monthly>>
  <2>1. Head(<<AllDisputes, Resolved, Monthly>>) = AllDisputes
    OBVIOUS
  <2> QED BY ONLY <1>2, <1>3, <2>1, Zenon
<1> QED BY ONLY <1>1, <1>2, <1>4, <1>5, <1>6, <1>7, <1>8, <1>9

HIDE DEF Reporting!All, Reporting!With, Reporting!Ask

\* One stage, but for the security report.
LEMMA StageIs ==
  ASSUME ReportTypes, Reporting!Reading
  PROVE  /\ v1 \in {"revenue", "countries", "disputes", "performance", "stats"} => Stages = 1
         /\ v1 = "security" => Stages = 2
         /\ v4.stage \in 1 .. Stages
<1>1. v1 \in {"revenue", "countries", "disputes", "performance", "stats"} => Stages = 1
  BY OneStage DEF Stages
<1>2. v1 = "security" => Stages = 2
  BY OneStage DEF Stages
<1> QED BY <1>1, <1>2, StagesNat DEF ReportTypes, Reporting!Reading

LEMMA CountInt == ASSUME NEW q PROVE Count(q) \in Nat
BY FoundRows, FS_CardinalityType, PlatformAssumption

LEMMA CountNext == ASSUME NEW q PROVE Count(q)' \in Nat
<1>1. Reporting!Found(q)' \in SUBSET Datum
  BY DEF Reporting!Found
<1>2. IsFiniteSet(Reporting!Found(q)')
  BY <1>1, FS_Subset, PlatformAssumption
<1> QED BY <1>2, FS_CardinalityType DEF Count

LEMMA SoundInit == Reporting!Init => ReportsInv
BY ReportsInit DEF ReportsInv, ReportSound, Reporting!Init, Reporting!Idle, Reporting!Reading

LEMMA SoundBegin ==
  ASSUME ReportsInv, Reporting!Begin
  PROVE  ReportsInv'
<1>1. ReportTypes /\ ReportTypes'
  BY ReportsBegin DEF ReportsInv
<1>2. /\ v1' = v1 /\ v5' = v5 /\ v5 = Reporting!NoAnswers
      /\ v4'.stage = 1 /\ v4'.pending = Reporting!Report(v1)[1]
  BY <1>1 DEF Reporting!Begin, ReportTypes
<1>3. \A q : Count(q)' \in Nat
  BY CountNext
<1>4. v1 = "revenue" => PartFirst(Chart, AllRevenue, RevenueChain, {})'
  BY <1>2, OneStage DEF PartFirst
<1>5. v1 = "countries" => PartFirst(Reporting!ByCountry, AllUsers, CountryChain, {})'
  BY <1>2, OneStage DEF PartFirst
<1>6. v1 = "disputes" => PartFirst(ByStatus, AllDisputes, DisputeChain, {Resolved, Monthly})'
  BY <1>2, OneStage DEF PartFirst
<1>7. v1 = "performance" => WholeFirst(SignedUp, {}, PerformanceChain, {Converted})'
  BY <1>2, OneStage DEF WholeFirst
<1>8. v1 = "performance" => v5'["converted"] <= Count(SignedUp)'
  BY <1>2, <1>3, KeptNames DEF Reporting!NoAnswers
<1>9. v1 = "stats" => WholeFirst(Transactions, OfEach, StatsChain, OfEach \cup {Earned("period"), Earned("before")})'
  BY <1>2, OneStage, KeptNames, Names DEF WholeFirst, OfEach, Reporting!NoAnswers
<1>10. v1 = "security" => SecuritySound'
  <2>1. ASSUME v1 = "security" PROVE v5'["critical"] <= Count(BySeverity)'
    BY <1>2, <1>3, <2>1, KeptNames DEF Reporting!NoAnswers
  <2> QED BY <1>2, <2>1, OneStage DEF SecuritySound
<1> QED BY <1>1, <1>2, <1>4, <1>5, <1>6, <1>7, <1>8, <1>9, <1>10 DEF ReportsInv, ReportSound

LEMMA SoundNextStage ==
  ASSUME ReportsInv, Reporting!NextStage
  PROVE  ReportsInv'
<1>1. ReportTypes /\ ReportTypes' /\ Reporting!Reading
  BY ReportsNextStage DEF ReportsInv, Reporting!NextStage
<1>2. v4.stage # Stages /\ v4.pending = {} /\ v1' = v1 /\ v6' = v6 /\ v5' = v5 /\ v3' = v3
  BY DEF Reporting!NextStage, Reporting!Answered, Stages
<1>3. v1 \notin {"revenue", "countries", "disputes", "performance", "stats"}
  BY <1>1, <1>2, StageIs
<1>4. ASSUME v1 = "security", ~v6 PROVE SecuritySound'
  <2>1. v4.stage = 1 /\ v5["critical"] <= Count(BySeverity)
    BY <1>1, <1>2, <1>4, StageIs DEF ReportsInv, ReportSound, SecuritySound
  <2>2. v4'.stage = 2 /\ v4'.end = v4.end /\ v4'.pending = {<<ByType, BySeverity>>}
    BY <1>4, <2>1, OneStage DEF Reporting!NextStage, Reporting!ReadsClock
  <2>3. Count(BySeverity)' = Count(BySeverity)
    BY <1>2, <2>2, SameFound
  <2> QED BY <1>2, <2>1, <2>2, <2>3 DEF SecuritySound
<1> QED BY <1>1, <1>2, <1>3, <1>4 DEF ReportsInv, ReportSound

LEMMA SoundEnd ==
  ASSUME ReportsInv, Reporting!End
  PROVE  ReportsInv'
<1>1. ~Reporting!Reading'
  BY DEF Reporting!End, Reporting!Reading, Reporting!Idle
<1> QED BY <1>1, ReportsEnd DEF ReportsInv, ReportSound

LEMMA SoundTick ==
  ASSUME ReportsInv, Reporting!Tick
  PROVE  ReportsInv'
<1>1. v1' = v1 /\ v3' = v3 /\ v4' = v4 /\ v5' = v5 /\ v6' = v6
  BY DEF Reporting!Tick
<1>2. \A q : Count(q)' = Count(q)
  BY <1>1, SameFound
<1>3. ReportTypes'
  BY ReportsTick DEF ReportsInv
<1>4. \A p, w, c, Q : PartFirst(p, w, c, Q) => PartFirst(p, w, c, Q)'
  BY <1>1, <1>2 DEF PartFirst
<1>5. \A w, P, c, Q : WholeFirst(w, P, c, Q) => WholeFirst(w, P, c, Q)'
  BY <1>1, <1>2 DEF WholeFirst
<1>6. SecuritySound => SecuritySound'
  BY <1>1, <1>2 DEF SecuritySound
<1>7. Reporting!Reading' = Reporting!Reading
  BY <1>1 DEF Reporting!Reading
<1> QED BY <1>1, <1>2, <1>3, <1>4, <1>5, <1>6, <1>7 DEF ReportsInv, ReportSound

\* A report that is disturbed is not asked to agree, nor is one that nobody puts together.
LEMMA SoundDisturbed ==
  ASSUME ReportTypes', v6' \/ ~Reporting!Reading' \/ Reporting!Kept' = {}
  PROVE  ReportsInv'
<1>1. CASE v6' \/ ~Reporting!Reading'
  BY <1>1 DEF ReportsInv, ReportSound
<1>2. CASE Reporting!Kept' = {}
  <2>1. v1' \notin {"revenue", "countries", "disputes", "performance", "stats", "security"}
    BY <1>2 DEF Reporting!Kept, Reporting!Compared
  <2> QED BY <2>1 DEF ReportsInv, ReportSound
<1> QED BY <1>1, <1>2

LEMMA SecurityQuery ==
  ASSUME ReportTypes, Reporting!Reading, ~v6, v1 = "security", SecuritySound,
         NEW chain \in v4.pending, Reporting!Query(chain)
  PROVE  SecuritySound'
<1>1. /\ v4'.stage = v4.stage
      /\ v4'.pending = (v4.pending \ {chain}) \cup (IF Len(chain) > 1 THEN {Tail(chain)} ELSE {})
      /\ v5' = [name \in {"critical", "bySeverity"} |->
                  IF name = Head(chain).name THEN Count(Head(chain)) ELSE v5[name]]
      /\ \A q : Count(q)' = Count(q)
  BY ReportsQuery, SameFound, KeptNames
<1>2. Count(Critical) <= Count(BySeverity) /\ Count(BySeverity) \in Nat
  BY PartsOfWholes, FoundFewer, CountInt
<1>3. ASSUME NEW q PROVE Head(<<q>>) = q /\ ~(Len(<<q>>) > 1)
  OBVIOUS
<1>4. /\ Head(<<ByType, BySeverity>>) = ByType /\ Len(<<ByType, BySeverity>>) > 1
      /\ Tail(<<ByType, BySeverity>>) = <<BySeverity>>
  OBVIOUS
<1>5. CASE /\ v4.stage = 1 /\ v4.pending \subseteq {<<Logs>>, <<Handled>>, <<Critical>>}
           /\ v5["critical"] <= Count(BySeverity)
  <2>1. chain \in {<<Logs>>, <<Handled>>, <<Critical>>}
    BY <1>5
  <2>2. v4'.pending \subseteq {<<Logs>>, <<Handled>>, <<Critical>>}
    BY <1>1, <1>3, <1>5, <2>1
  <2>3. v5'["critical"] \in {v5["critical"], Count(Critical)}
    BY <1>1, <1>3, <2>1, Names
  <2>4. v5'["critical"] <= Count(BySeverity)
    BY <1>2, <1>5, <2>3
  <2> QED BY <1>1, <1>5, <2>2, <2>4 DEF SecuritySound
<1>6. CASE v4.stage = 2 /\ v4.pending = {<<ByType, BySeverity>>} /\ v5["critical"] <= Count(BySeverity)
  <2>1. v4'.pending = {<<BySeverity>>} /\ v5'["critical"] = v5["critical"]
    BY <1>1, <1>4, <1>6, Names
  <2> QED BY <1>1, <1>6, <2>1 DEF SecuritySound
<1>7. CASE v4.stage = 2 /\ v4.pending = {<<BySeverity>>} /\ v5["critical"] <= Count(BySeverity)
  <2>1. v4'.pending = {} /\ v5'["critical"] = v5["critical"] /\ v5'["bySeverity"] = Count(BySeverity)
    BY <1>1, <1>3, <1>7, Names
  <2> QED BY <1>1, <1>7, <2>1 DEF SecuritySound
<1> QED BY <1>5, <1>6, <1>7 DEF SecuritySound

LEMMA SoundQuery ==
  ASSUME ReportsInv, Reporting!Reading, NEW chain \in v4.pending, Reporting!Query(chain)
  PROVE  ReportsInv'
<1>1. ReportTypes /\ ReportTypes' /\ v1' = v1 /\ v6' = v6
  BY ReportsQuery DEF ReportsInv
<1> SUFFICES ASSUME ~v6 PROVE ReportsInv'
  BY <1>1, SoundDisturbed
<1>2. v1 = "revenue" => PartFirst(Chart, AllRevenue, RevenueChain, {})'
  <2> SUFFICES ASSUME v1 = "revenue" PROVE PartFirst(Chart, AllRevenue, RevenueChain, {})'
    OBVIOUS
  <2>1. PartFirst(Chart, AllRevenue, RevenueChain, {})
    BY DEF ReportsInv, ReportSound
  <2> QED BY <1>1, <2>1, Chains, Names, KeptNames, PartsOfWholes, PartFirstQuery
<1>3. v1 = "countries" => PartFirst(Reporting!ByCountry, AllUsers, CountryChain, {})'
  <2> SUFFICES ASSUME v1 = "countries" PROVE PartFirst(Reporting!ByCountry, AllUsers, CountryChain, {})'
    OBVIOUS
  <2>1. PartFirst(Reporting!ByCountry, AllUsers, CountryChain, {})
    BY DEF ReportsInv, ReportSound
  <2> QED BY <1>1, <2>1, Chains, Names, KeptNames, PartsOfWholes, PartFirstQuery
<1>4. v1 = "disputes" => PartFirst(ByStatus, AllDisputes, DisputeChain, {Resolved, Monthly})'
  <2> SUFFICES ASSUME v1 = "disputes"
               PROVE  PartFirst(ByStatus, AllDisputes, DisputeChain, {Resolved, Monthly})'
    OBVIOUS
  <2>1. PartFirst(ByStatus, AllDisputes, DisputeChain, {Resolved, Monthly})
    BY DEF ReportsInv, ReportSound
  <2>2. /\ ByStatus.name = "byStatus" /\ AllDisputes.name = "disputes"
        /\ ByStatus.name \in Reporting!Kept /\ AllDisputes.name \in Reporting!Kept
        /\ \A q \in {Resolved, Monthly} : q.name # "byStatus" /\ q.name # "disputes"
    BY Names, KeptNames
  <2>3. /\ Head(DisputeChain) = ByStatus /\ Len(DisputeChain) > 1
        /\ Head(Tail(DisputeChain)) = AllDisputes
        /\ Tail(Tail(DisputeChain)) \in Later({Resolved, Monthly})
        /\ Reporting!Found(ByStatus) \subseteq Reporting!Found(AllDisputes)
    BY Chains, PartsOfWholes
  <2>4. \A q \in {Resolved, Monthly} : q.name # ByStatus.name /\ q.name # AllDisputes.name
    BY <2>2
  <2> QED BY <1>1, <2>1, <2>2, <2>3, <2>4, PartFirstQuery
<1>5. v1 = "performance" => /\ WholeFirst(SignedUp, {}, PerformanceChain, {Converted})'
                            /\ v5'["converted"] <= Count(SignedUp)'
  <2> SUFFICES ASSUME v1 = "performance"
               PROVE  /\ WholeFirst(SignedUp, {}, PerformanceChain, {Converted})'
                      /\ v5'["converted"] <= Count(SignedUp)'
    OBVIOUS
  <2>1. WholeFirst(SignedUp, {}, PerformanceChain, {Converted}) /\ v5["converted"] <= Count(SignedUp)
    BY DEF ReportsInv, ReportSound
  <2>2. WholeFirst(SignedUp, {}, PerformanceChain, {Converted})'
    BY <1>1, <2>1, Chains, Names, KeptNames, WholeFirstQuery
  <2>3. Head(chain) \in {SignedUp, Converted}
    BY <2>1, Chains, LaterChain DEF WholeFirst
  <2>4. v5'["converted"] \in {v5["converted"], Count(Converted)}
    BY <1>1, <2>3, ReportsQuery, Names, KeptNames
  <2>5. Count(Converted) <= Count(SignedUp) /\ Count(SignedUp)' = Count(SignedUp)
    BY <1>1, PartsOfWholes, FoundFewer, ReportsQuery, SameFound
  <2> QED BY <2>1, <2>2, <2>4, <2>5
<1>6. v1 = "stats" =>
        WholeFirst(Transactions, OfEach, StatsChain, OfEach \cup {Earned("period"), Earned("before")})'
  <2> DEFINE Q == OfEach \cup {Earned("period"), Earned("before")}
  <2> SUFFICES ASSUME v1 = "stats" PROVE WholeFirst(Transactions, OfEach, StatsChain, Q)'
    OBVIOUS
  <2>1. WholeFirst(Transactions, OfEach, StatsChain, Q)
    BY DEF ReportsInv, ReportSound
  <2>2. /\ Transactions.name \in Reporting!Kept
        /\ \A p \in OfEach : p.name \in Reporting!Kept /\ p.name # Transactions.name
        /\ \A q \in Q : q.name # Transactions.name /\ \A p \in OfEach : q.name = p.name => q = p
    BY Names, KeptNames DEF OfEach
  <2>3. Head(StatsChain) = Transactions /\ Len(StatsChain) > 1 /\ Tail(StatsChain) \in Later(Q)
    BY Chains
  <2> HIDE DEF Q
  <2> QED BY <1>1, <2>1, <2>2, <2>3, WholeFirstQuery
<1>7. v1 = "security" => SecuritySound'
  BY <1>1, SecurityQuery DEF ReportsInv, ReportSound
<1> QED BY <1>1, <1>2, <1>3, <1>4, <1>5, <1>6, <1>7 DEF ReportsInv, ReportSound

LEMMA SoundQuiet ==
  ASSUME ReportsInv, Quiet, ReportTypes', v5' = v5, ~v6
  PROVE  ReportsInv'
<1>1. Reporting!Reading /\ v1' = v1 /\ v4' = v4 /\ Reporting!Kept # {}
  BY DEF Quiet
<1>2. \A name \in Reporting!Kept : v5[name] \in Int
  BY DEF ReportsInv, ReportTypes
<1>3. v1 = "revenue" => PartFirst(Chart, AllRevenue, RevenueChain, {})'
  BY <1>1, <1>2, KeptNames, Names, WholesGrow, PartFirstQuiet DEF ReportsInv, ReportSound
<1>4. v1 = "countries" => PartFirst(Reporting!ByCountry, AllUsers, CountryChain, {})'
  BY <1>1, <1>2, KeptNames, Names, WholesGrow, PartFirstQuiet DEF ReportsInv, ReportSound
<1>5. v1 = "disputes" => PartFirst(ByStatus, AllDisputes, DisputeChain, {Resolved, Monthly})'
  BY <1>1, <1>2, KeptNames, Names, WholesGrow, PartFirstQuiet DEF ReportsInv, ReportSound
<1>6. v1 = "performance" => /\ WholeFirst(SignedUp, {}, PerformanceChain, {Converted})'
                            /\ v5'["converted"] <= Count(SignedUp)'
  BY <1>1, WholesGrow, WholeFirstQuiet, FoundSame DEF ReportsInv, ReportSound
<1>7. v1 = "stats" =>
        WholeFirst(Transactions, OfEach, StatsChain, OfEach \cup {Earned("period"), Earned("before")})'
  BY <1>1, WholesGrow, WholeFirstQuiet DEF ReportsInv, ReportSound
<1>8. v1 = "security" => SecuritySound'
  <2> SUFFICES ASSUME v1 = "security" PROVE SecuritySound'
    OBVIOUS
  <2>1. SecuritySound
    BY <1>1 DEF ReportsInv, ReportSound
  <2>2. Count(BySeverity) <= Count(BySeverity)'
    BY FoundAgain, WholesGrow
  <2>3. Count(BySeverity) \in Int /\ v5["critical"] \in Int
    BY <1>2, KeptNames, CountInt
  <2>4. Count(BySeverity)' \in Int
    BY CountNext
  <2> QED BY <1>1, <2>1, <2>2, <2>3, <2>4 DEF SecuritySound
<1> QED BY <1>1, <1>3, <1>4, <1>5, <1>6, <1>7, <1>8 DEF ReportsInv, ReportSound

LEMMA SoundSteps ==
  ASSUME ReportsInv, Reporting!Next
  PROVE  ReportsInv'
<1>1. ReportTypes
  BY DEF ReportsInv
<1>2. CASE Reporting!Begin
  BY <1>2, SoundBegin
<1>3. CASE Reporting!NextStage
  BY <1>3, SoundNextStage
<1>4. CASE Reporting!End
  BY <1>4, SoundEnd
<1>5. CASE Reporting!Tick
  BY <1>5, SoundTick
<1>6. CASE \E chain \in v4.pending : Reporting!Query(chain)
  <2>1. PICK chain \in v4.pending : Reporting!Query(chain)
    BY <1>6
  <2>2. Reporting!Reading
    BY <1>1, <2>1 DEF ReportTypes
  <2> QED BY <2>1, <2>2, SoundQuery
<1>7. CASE \E r \in Datum : Reporting!Delete(r)
  <2>1. v1' = v1
    BY <1>7 DEF Reporting!Delete
  <2>2. /\ ReportTypes' /\ Reporting!Reading' = Reporting!Reading
        /\ v6' \/ ~Reporting!Reading \/ Reporting!Kept = {}
    BY <1>1, <1>7, ReportsDelete
  <2> QED BY <2>1, <2>2, ReportKind, SoundDisturbed
<1>8. CASE \E r \in Datum : \E move \in Reporting!Moves : Reporting!Move(r, move)
  <2>1. v1' = v1 /\ v4' = v4
    BY <1>8 DEF Reporting!Move
  <2>2. /\ ReportTypes' /\ Reporting!Reading' = Reporting!Reading
        /\ v6' \/ (~v6 /\ v5' = v5)
    BY <1>1, <1>8, ReportsMove
  <2>3. CASE v6' \/ ~Reporting!Reading \/ Reporting!Kept = {}
    BY <2>1, <2>2, <2>3, ReportKind, SoundDisturbed
  <2>4. CASE ~(v6' \/ ~Reporting!Reading \/ Reporting!Kept = {})
    BY <1>1, <1>8, <2>1, <2>2, <2>4, SoundQuiet DEF Quiet
  <2> QED BY <2>3, <2>4
<1>9. CASE \E r \in Datum : v3[r] = Reporting!Gone /\ \E t \in Reporting!Read :
             \E row \in Reporting!Rows(t) : Reporting!Insert(r, row)
  <2>1. v1' = v1 /\ v4' = v4
    BY <1>9 DEF Reporting!Insert
  <2>2. /\ ReportTypes' /\ Reporting!Reading' = Reporting!Reading
        /\ v6' \/ (~v6 /\ v5' = v5)
    BY <1>1, <1>9, ReportsInsert
  <2>3. CASE v6' \/ ~Reporting!Reading \/ Reporting!Kept = {}
    BY <2>1, <2>2, <2>3, ReportKind, SoundDisturbed
  <2>4. CASE ~(v6' \/ ~Reporting!Reading \/ Reporting!Kept = {})
    BY <1>1, <1>9, <2>1, <2>2, <2>4, SoundQuiet DEF Quiet
  <2> QED BY <2>3, <2>4
<1> QED BY <1>2, <1>3, <1>4, <1>5, <1>6, <1>7, <1>8, <1>9 DEF Reporting!Next

LEMMA ReportSum == ASSUME NEW f, NEW S PROVE Reporting!SumFunctionOnSet(f, S) = Total(f, S)
BY DEF Reporting!SumFunctionOnSet, Reporting!FoldFunctionOnSet, Reporting!MapThenFoldSet,
       Total, MapThenSumSet, MapThenFoldSet

\* A transaction has one status: it is counted once.
LEMMA FourParts ==
  Count(Of("COMPLETED")) + Count(Of("FAILED")) + Count(Of("PENDING")) + Count(Of("CANCELLED"))
    <= Count(Transactions)
<1> DEFINE C == Reporting!Found(Of("COMPLETED"))
           F == Reporting!Found(Of("FAILED"))
           P == Reporting!Found(Of("PENDING"))
           X == Reporting!Found(Of("CANCELLED"))
<1>1. C \cap F = {} /\ (C \cup F) \cap P = {} /\ (C \cup F \cup P) \cap X = {}
  <2>1. ASSUME NEW s, NEW r \in Reporting!Found(Of(s)) PROVE v3[r].status = s
    BY DEF Reporting!Found, Of, Reporting!With, Reporting!Ask
  <2> QED BY <2>1
<1>2. (C \cup F \cup P \cup X) \in SUBSET Reporting!Found(Transactions)
  BY PartsOfWholes DEF OfEach
<1>3. /\ IsFiniteSet(C) /\ IsFiniteSet(F) /\ IsFiniteSet(P) /\ IsFiniteSet(X)
      /\ IsFiniteSet(Reporting!Found(Transactions))
  BY FoundRows
<1> HIDE DEF C, F, P, X
<1>4. IsFiniteSet(C \cup F) /\ Cardinality(C \cup F) = Cardinality(C) + Cardinality(F) - Cardinality(C \cap F)
  BY <1>3, FS_Union
<1>5. /\ IsFiniteSet(C \cup F \cup P)
      /\ Cardinality(C \cup F \cup P) = Cardinality(C \cup F) + Cardinality(P) - Cardinality((C \cup F) \cap P)
  BY <1>3, <1>4, FS_Union
<1>6. Cardinality(C \cup F \cup P \cup X)
        = Cardinality(C \cup F \cup P) + Cardinality(X) - Cardinality((C \cup F \cup P) \cap X)
  BY <1>3, <1>5, FS_Union
<1>7. Cardinality(C \cup F \cup P \cup X) <= Cardinality(Reporting!Found(Transactions))
  BY <1>2, <1>3, FS_Subset
<1>8. /\ Cardinality(C) \in Nat /\ Cardinality(F) \in Nat /\ Cardinality(P) \in Nat /\ Cardinality(X) \in Nat
      /\ Cardinality({}) = 0
  BY <1>3, FS_CardinalityType, FS_EmptySet
<1>9. Cardinality(C) + Cardinality(F) + Cardinality(P) + Cardinality(X)
        <= Cardinality(Reporting!Found(Transactions))
  <2>1. /\ Cardinality(C \cup F) = Cardinality(C) + Cardinality(F) - Cardinality({})
        /\ Cardinality(C \cup F \cup P) = Cardinality(C \cup F) + Cardinality(P) - Cardinality({})
        /\ Cardinality(C \cup F \cup P \cup X)
             = Cardinality(C \cup F \cup P) + Cardinality(X) - Cardinality({})
    BY <1>1, <1>4, <1>5, <1>6
  <2> QED BY <1>7, <1>8, <2>1
<1> QED BY <1>9 DEF C, F, P, X, Count

LEMMA StatsAddUp ==
  ASSUME v1 = "stats", ReportTypes, WholeFirst(Transactions, OfEach, StatsChain,
         OfEach \cup {Earned("period"), Earned("before")}), v4.pending = {}
  PROVE  Total(v5, {"COMPLETED", "FAILED", "PENDING", "CANCELLED"}) <= v5["transactions"]
<1>1. /\ v5["transactions"] = Count(Transactions)
      /\ v5["COMPLETED"] \in {0, Count(Of("COMPLETED"))} /\ v5["FAILED"] \in {0, Count(Of("FAILED"))}
      /\ v5["PENDING"] \in {0, Count(Of("PENDING"))} /\ v5["CANCELLED"] \in {0, Count(Of("CANCELLED"))}
  BY Names DEF WholeFirst, OfEach
<1>2. PICK f : f = v5
  OBVIOUS
<1>3. \A x \in {"COMPLETED", "FAILED", "PENDING", "CANCELLED"} : f[x] \in Int
  BY <1>2, KeptNames DEF ReportTypes
<1>4. /\ IsFiniteSet({"COMPLETED"}) /\ IsFiniteSet({"COMPLETED"} \cup {"FAILED"})
      /\ IsFiniteSet({"COMPLETED"} \cup {"FAILED"} \cup {"PENDING"})
  <2>1. IsFiniteSet({"COMPLETED"})
    BY FS_Singleton
  <2>2. IsFiniteSet({"COMPLETED"} \cup {"FAILED"})
    BY <2>1, FS_AddElement
  <2> QED BY <2>1, <2>2, FS_AddElement
<1>5. Total(f, {"COMPLETED"}) = f["COMPLETED"]
  BY <1>3, TotalOne
<1>6. Total(f, {"COMPLETED"} \cup {"FAILED"}) = f["FAILED"] + Total(f, {"COMPLETED"})
  BY <1>3, <1>4, TotalMore
<1>7. Total(f, {"COMPLETED"} \cup {"FAILED"} \cup {"PENDING"})
        = f["PENDING"] + Total(f, {"COMPLETED"} \cup {"FAILED"})
  BY <1>3, <1>4, TotalMore
<1>8. Total(f, {"COMPLETED"} \cup {"FAILED"} \cup {"PENDING"} \cup {"CANCELLED"})
        = f["CANCELLED"] + Total(f, {"COMPLETED"} \cup {"FAILED"} \cup {"PENDING"})
  BY <1>3, <1>4, TotalMore
<1>9. {"COMPLETED", "FAILED", "PENDING", "CANCELLED"}
        = {"COMPLETED"} \cup {"FAILED"} \cup {"PENDING"} \cup {"CANCELLED"}
  OBVIOUS
<1>10. Total(f, {"COMPLETED", "FAILED", "PENDING", "CANCELLED"})
         = f["COMPLETED"] + f["FAILED"] + f["PENDING"] + f["CANCELLED"]
  BY <1>3, <1>5, <1>6, <1>7, <1>8, <1>9
<1>11. /\ Count(Of("COMPLETED")) \in Nat /\ Count(Of("FAILED")) \in Nat /\ Count(Of("PENDING")) \in Nat
       /\ Count(Of("CANCELLED")) \in Nat /\ Count(Transactions) \in Nat
  BY CountInt
<1> QED BY <1>1, <1>2, <1>10, <1>11, FourParts

LEMMA SoundAgrees == ReportsInv => Reporting!ReportsAgree
<1> SUFFICES ASSUME ReportsInv, v1 \in DOMAIN Reporting!Compared, Reporting!Answered, ~v6
             PROVE  Reporting!Total(Reporting!Compared[v1][1]) <= v5[Reporting!Compared[v1][2]]
  BY DEF Reporting!ReportsAgree
<1>1. ReportTypes /\ v4.pending = {} /\ v4.stage = Stages
  BY DEF ReportsInv, Reporting!Answered, Stages
<1>2. Reporting!Reading
  BY <1>1, StagesNat DEF ReportTypes, Reporting!Reading
<1>3. \A S : Reporting!Total(S) = Total(v5, S)
  BY ReportSum DEF Reporting!Total
<1>4. \A name \in Reporting!Kept : v5[name] \in Int
  BY <1>1 DEF ReportTypes
<1>5. \A name \in Reporting!Kept : Total(v5, {name}) = v5[name]
  BY <1>4, TotalOne, Zenon
<1>6. v1 \in {"revenue", "countries", "performance", "security", "disputes", "stats"}
  BY DEF Reporting!Compared
<1>7. CASE v1 = "revenue"
  <2>1. v5["chart"] <= v5["total"]
    BY <1>1, <1>2, <1>7, Names DEF ReportsInv, ReportSound, PartFirst
  <2> QED BY <1>3, <1>5, <1>7, <2>1, KeptNames DEF Reporting!Compared
<1>8. CASE v1 = "countries"
  <2>1. v5["byCountry"] <= v5["allUsers"]
    BY <1>1, <1>2, <1>8, Names DEF ReportsInv, ReportSound, PartFirst
  <2> QED BY <1>3, <1>5, <1>8, <2>1, KeptNames DEF Reporting!Compared
<1>9. CASE v1 = "disputes"
  <2>1. v5["byStatus"] <= v5["disputes"]
    BY <1>1, <1>2, <1>9, Names DEF ReportsInv, ReportSound, PartFirst
  <2> QED BY <1>3, <1>5, <1>9, <2>1, KeptNames DEF Reporting!Compared
<1>10. CASE v1 = "performance"
  <2>1. v5["converted"] <= v5["signedUp"]
    BY <1>1, <1>2, <1>10, Names DEF ReportsInv, ReportSound, WholeFirst
  <2> QED BY <1>3, <1>5, <1>10, <2>1, KeptNames DEF Reporting!Compared
<1>11. CASE v1 = "security"
  <2>1. v5["critical"] <= v5["bySeverity"]
    <3>1. SecuritySound /\ v4.stage = 2 /\ v4.pending = {}
      BY <1>1, <1>2, <1>11, StageIs DEF ReportsInv, ReportSound
    <3>2. v4.pending \notin {{<<ByType, BySeverity>>}, {<<BySeverity>>}}
      BY <3>1
    <3> QED BY <3>1, <3>2 DEF SecuritySound
  <2> QED BY <1>3, <1>5, <1>11, <2>1, KeptNames DEF Reporting!Compared
<1>12. CASE v1 = "stats"
  <2>1. Total(v5, {"COMPLETED", "FAILED", "PENDING", "CANCELLED"}) <= v5["transactions"]
    BY <1>1, <1>2, <1>12, StatsAddUp DEF ReportsInv, ReportSound
  <2> QED BY <1>3, <1>12, <2>1 DEF Reporting!Compared
<1> QED BY <1>6, <1>7, <1>8, <1>9, <1>10, <1>11, <1>12

LEMMA ReportsAlways == Spec => [](focus = "reports" => ReportsInv)
<1> DEFINE Inv == focus = "reports" => ReportsInv
<1>1. Init => Inv
  BY SoundInit DEF Init
<1>2. Inv /\ [Next]_vars => Inv'
  <2> SUFFICES ASSUME Inv, [Next]_vars, focus' = "reports" PROVE ReportsInv'
    OBVIOUS
  <2>1. focus = "reports" /\ ReportsInv
    BY FocusStays
  <2>2. CASE Reporting!Next
    BY <2>1, <2>2, SoundSteps
  <2>3. CASE UNCHANGED <<v1, v2, v3, v4, v5, v6, v7>>
    <3>1. \A q : Count(q)' = Count(q)
      BY <2>3, SameFound
    <3>2. ReportTypes'
      BY <2>1, <2>3, ReportKind DEF ReportsInv, ReportTypes, Reporting!Reading
    <3>3. \A p, w, c, Q : PartFirst(p, w, c, Q) => PartFirst(p, w, c, Q)'
      BY <2>3, <3>1 DEF PartFirst
    <3>4. \A w, P, c, Q : WholeFirst(w, P, c, Q) => WholeFirst(w, P, c, Q)'
      BY <2>3, <3>1 DEF WholeFirst
    <3>5. SecuritySound => SecuritySound'
      BY <2>3, <3>1 DEF SecuritySound
    <3>6. Reporting!Reading' = Reporting!Reading /\ v1' = v1 /\ v5' = v5 /\ v6' = v6
      BY <2>3 DEF Reporting!Reading
    <3> QED BY <2>1, <3>1, <3>2, <3>3, <3>4, <3>5, <3>6 DEF ReportsInv, ReportSound
  <2> QED BY <2>1, <2>2, <2>3 DEF Next, vars
<1> QED BY <1>1, <1>2, PTL DEF Spec

\* The theorem: a report whose rows nobody takes back or moves while it is put together
\* does not contradict itself (admin-analytics.service.ts, admin-security.service.ts,
\* admin-dashboard.service.ts, admin-transactions.service.ts); for any number of rows.
THEOREM ReportsConsistent == Spec => []ReportsAgree
<1>1. (focus = "reports" => ReportsInv) => ReportsAgree
  BY SoundAgrees DEF ReportsAgree
<1> QED BY <1>1, ReportsAlways, PTL
-----------------------------------------------------------------------------
\* Each service's invariant has its types.
LEMMA TypesOfServices ==
  /\ ListingInv => Moderating!TypeOK
  /\ AlertInv => Alerting!TypeOK
  /\ AccountInv /\ v2 \subseteq Account!Belonging => Account!TypeOK
  /\ ReviewInv => Reviewing!TypeOK
  /\ GalleryInv => Photographing!TypeOK
  /\ PagesInv /\ ListedOnce => Paging!TypeOK
  /\ LimitsInv => Limits!TypeOK
  /\ DeliveriesInv => Deliveries!TypeOK
  /\ RemindersInv /\ RemindersBounded => Reminding!TypeOK
  /\ ReportsInv => Reporting!TypeOK
<1>1. ListingInv => Moderating!TypeOK
  BY DEF ListingInv, ListingTypes, Moderating!TypeOK
<1>2. AlertInv => Alerting!TypeOK
  BY DEF AlertInv, AlertTypes, RuleState, PollState, Alerting!TypeOK
<1>3. AccountInv /\ v2 \subseteq Account!Belonging => Account!TypeOK
  BY DEF AccountInv, AccountTypes, VisitState, Account!TypeOK
<1>4. ReviewInv => Reviewing!TypeOK
  BY DEF ReviewInv, ReviewTypes, ReviewRow, ReviewCall, Reviewing!TypeOK
<1>5. GalleryInv => Photographing!TypeOK
  BY DEF GalleryInv, PhotoTypes, PhotosHold, JobState, Photographing!Live, Photographing!TypeOK
<1>6. PagesInv /\ ListedOnce => Paging!TypeOK
  BY DEF PagesInv, PageTypes, ListedOnce, Paging!IsInjective, Paging!TypeOK
<1>7. LimitsInv => Limits!TypeOK
  BY DEF LimitsInv, LimitsTypes, Limits!TypeOK
<1>8. DeliveriesInv => Deliveries!TypeOK
  BY DEF DeliveriesInv, DeliveryTypes, Deliveries!TypeOK
<1>9. RemindersInv /\ RemindersBounded => Reminding!TypeOK
  <2> SUFFICES ASSUME RemindersInv, RemindersBounded PROVE Reminding!TypeOK
    OBVIOUS
  <2>1. v2 \in [Booking -> [status : Reminding!Status, start : Nat, end : Nat]]
    BY ReminderTimes DEF RemindersInv, ReminderTypes
  <2> QED BY <2>1 DEF RemindersInv, ReminderTypes, RemindersBounded, Reminding!TypeOK
<1>10. ReportsInv => Reporting!TypeOK
  <2>1. Reporting!Cardinality(Datum) = Cardinality(Datum)
    BY DEF Reporting!Cardinality, Cardinality
  <2> QED BY <2>1 DEF ReportsInv, ReportTypes, AnyRow, Stages, Reporting!TypeOK
<1> QED BY <1>1, <1>2, <1>3, <1>4, <1>5, <1>6, <1>7, <1>8, <1>9, <1>10

\* The theorem: the twelve services keep their types and bounds, whatever the constants.
THEOREM TypeCorrect == Spec => []TypeOK
<1> DEFINE Inv ==
      /\ focus = "listings" => ListingInv
      /\ focus = "push" => PushInv
      /\ focus = "alerts" => AlertInv
      /\ focus = "accounts" => AccountInv /\ v2 \subseteq Account!Belonging
      /\ focus = "reviews" => ReviewInv
      /\ focus = "gallery" => GalleryInv
      /\ focus = "editorial" => EditorialInv
      /\ focus = "lists" => PagesInv /\ ListedOnce
      /\ (focus = "limits" => LimitsInv) /\ (focus = "deliveries" => DeliveriesInv)
      /\ focus = "reminders" => RemindersInv /\ RemindersBounded
      /\ focus = "reports" => ReportsInv
<1>1. Inv => TypeOK
  <2>1. PushInv => Push!TypeOK
    BY DEF PushInv, PushTypes
  <2>2. EditorialInv => Editing!TypeOK
    BY DEF EditorialInv
  <2> QED BY <2>1, <2>2, TypesOfServices DEF TypeOK
<1> QED BY <1>1, ListingAlways, PushAlways, AlertsAlways, AccountAlways, ReviewsAlways, GalleryAlways,
           EditorialAlways, PagesAlways, LimitsAlways, RemindersAlways, ReportsAlways, PTL
=============================================================================
