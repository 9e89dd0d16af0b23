------------------------------- MODULE Listings -------------------------------
(***************************************************************************)
(* A tool between its owner and the moderators: tools.service.ts and       *)
(* admin-tools.service.ts.  The owner's edit is one UPDATE of the columns  *)
(* that are sent, and sets the tool back to Pending.  Every other call     *)
(* loads the whole row, assigns its columns, and saves: save() selects the *)
(* row again and updates every column that differs from what was loaded.   *)
(* Between load, select and update other calls run.                        *)
(*                                                                         *)
(* Of the tool's columns there are its two statuses and its content, which *)
(* stands for the other columns a moderator looks at.  Its photos are rows *)
(* of their own, saved after the edit that brings them.                    *)
(***************************************************************************)
EXTENDS Naturals, FiniteSets

CONSTANTS Caller,      \* the slots of calls in flight
          ToolStatus,  \* the tool statuses besides PUBLISHED and ARCHIVED
          LastContent  \* bound on the owner's edits

VARIABLES tool,      \* the row, or Gone
          caller,    \* the calls in flight
          reviewed   \* history: the contents some call loaded to confirm them, or
                     \* that a save left in a row it had not selected

vars == <<tool, caller, reviewed>>

Content == 1 .. LastContent
Status == ToolStatus \cup {"PUBLISHED", "ARCHIVED"}
Moderation == {"Pending", "Confirmed", "Rejected"}
Field == {"content", "status", "moderation"}
Tool == [content : Content, status : Status, moderation : Moderation]
Gone == [content |-> 0, status |-> "ARCHIVED", moderation |-> "Pending"]
NoCaller == [at |-> "idle", ent |-> Gone, diff |-> {}, mixed |-> FALSE]

TypeOK ==
  /\ tool \in Tool \cup {Gone}
  /\ caller \in [Caller -> [at : {"idle", "select", "update", "insert"},
                            ent : [content : 0 .. LastContent, status : Status, moderation : Moderation],
                            diff : SUBSET Field, mixed : BOOLEAN]]
  /\ reviewed \subseteq Content

Init ==
  /\ tool = Gone
  /\ caller = [c \in Caller |-> NoCaller]
  /\ reviewed = {}
-----------------------------------------------------------------------------
\* The row is written, and the calls in `done` end: what others have selected is old.
Touched(done) ==
  caller' = [c \in Caller |->
    IF c \in done THEN NoCaller
    ELSE IF tool' # tool /\ caller[c].at = "update" THEN [caller[c] EXCEPT !.mixed = TRUE]
    ELSE caller[c]]

\* A new listing: the owner may send its status.
Create(status) ==
  /\ tool = Gone /\ reviewed = {}
  /\ \A c \in Caller : caller[c] = NoCaller
  /\ tool' = [content |-> 1, status |-> status, moderation |-> "Pending"]
  /\ UNCHANGED <<caller, reviewed>>

\* A mutant: an edit leaves the moderation as it is.
EditConfirmed(content, status) ==
  /\ tool # Gone
  /\ content \in {tool.content, tool.content + 1} \cap Content
  /\ tool' = [tool EXCEPT !.content = content, !.status = status]
  /\ Touched({}) /\ UNCHANGED reviewed

\* update: new content, or the old one, and a status if one is sent.
Edit(content, status) ==
  /\ tool # Gone
  /\ content \in {tool.content, tool.content + 1} \cap Content
  /\ tool' = [content |-> content, status |-> status, moderation |-> "Pending"]
  /\ Touched({}) /\ UNCHANGED reviewed

\* remove and deleteTool.
Delete ==
  /\ tool # Gone
  /\ tool' = Gone
  /\ Touched({}) /\ UNCHANGED reviewed

(* A call loads the tool, its guard holds, and it assigns the fields of    *)
(* `change`.  A call that confirms has its content reviewed.               *)
Load(c, guard, status, moderation) ==
  /\ caller[c] = NoCaller /\ tool # Gone /\ guard
  /\ caller' = [caller EXCEPT ![c] = [NoCaller EXCEPT !.at = "select",
       !.ent = [content |-> tool.content, status |-> status, moderation |-> moderation]]]
  /\ reviewed' = IF moderation = "Confirmed" THEN reviewed \cup {tool.content}
                 ELSE reviewed
  /\ UNCHANGED tool

ApproveTool(c) == Load(c, tool.status # "PUBLISHED", "PUBLISHED", "Confirmed")
RejectTool(c) == Load(c, tool.moderation # "Rejected", "DRAFT", "Rejected")
ArchiveTool(c) == Load(c, tool.status # "ARCHIVED", "ARCHIVED", "Confirmed")
RestoreTool(c) == Load(c, tool.status = "ARCHIVED", "PUBLISHED", "Confirmed")

\* The moderators' updateToolStatus confirms what it publishes.
AdminStatus(c, status) ==
  Load(c, TRUE, status, IF status = "PUBLISHED" THEN "Confirmed" ELSE tool.moderation)

\* The owner's updateToolStatus, updateModerationStatus and updateAvailability.
UpdateToolStatus(c, status) == Load(c, TRUE, status, tool.moderation)
UpdateModerationStatus(c, moderation) == Load(c, TRUE, tool.status, moderation)
UpdateAvailability(c) == Load(c, TRUE, tool.status, tool.moderation)

\* save(): a tool that was deleted meanwhile is inserted again; of the row that is
\* there the columns that differ are going to be written.
Select(c) ==
  LET ent == caller[c].ent
      diff == {f \in Field : ent[f] # tool[f]}
  IN  /\ caller[c].at = "select"
      /\ caller' = [caller EXCEPT ![c] =
           IF tool = Gone THEN [@ EXCEPT !.at = "insert"]
           ELSE [NoCaller EXCEPT !.at = "update", !.diff = diff,
                   !.ent = [f \in Field |-> IF f \in diff THEN ent[f] ELSE Gone[f]]]]
      /\ UNCHANGED <<tool, reviewed>>

Merged(c) == [f \in Field |-> IF f \in caller[c].diff THEN caller[c].ent[f] ELSE tool[f]]

\* A mutant: the update of a row that is gone writes its columns nevertheless.
UpdateGone(c) ==
  /\ caller[c].at = "update"
  /\ tool' = Merged(c)
  /\ Touched({c})
  /\ UNCHANGED reviewed

\* The update writes nothing when the row is gone.
Update(c) ==
  /\ caller[c].at = "update"
  /\ tool' = IF tool = Gone THEN Gone ELSE Merged(c)
  /\ reviewed' = IF tool # Gone /\ caller[c].mixed THEN reviewed \cup {tool'.content}
                 ELSE reviewed
  /\ Touched({c})

Insert(c) ==
  /\ caller[c].at = "insert"
  /\ tool' = IF tool = Gone THEN caller[c].ent ELSE tool
  /\ Touched({c})
  /\ UNCHANGED reviewed

(* The save is rolled back: the database is out of reach, or a photo that  *)
(* was added since the load would be left without its tool.                *)
SaveFails(c) ==
  /\ caller[c].at \in {"update", "insert"}
  /\ caller' = [caller EXCEPT ![c] = NoCaller]
  /\ UNCHANGED <<tool, reviewed>>

Next ==
  \/ \E status \in Status : Create(status)
  \/ \E content \in Content, status \in Status : Edit(content, status)
  \/ Delete
  \/ \E c \in Caller :
       \/ ApproveTool(c) \/ RejectTool(c) \/ ArchiveTool(c) \/ RestoreTool(c)
       \/ \E s \in Status : AdminStatus(c, s) \/ UpdateToolStatus(c, s)
       \/ \E m \in Moderation : UpdateModerationStatus(c, m)
       \/ UpdateAvailability(c)
       \/ Select(c) \/ Update(c) \/ Insert(c) \/ SaveFails(c)
-----------------------------------------------------------------------------
(* A confirmed tool shows what the call that confirmed it had loaded: no   *)
(* stale save of another call, and no re-insertion of a deleted tool,      *)
(* brings a confirmation together with content nobody looked at.  Left out *)
(* is a row that changed between the select and the update of a save,      *)
(* which then writes some of its columns next to others it did not read.   *)
ConfirmedWasSeen ==
  tool.moderation = "Confirmed" => tool.content \in reviewed
=============================================================================
