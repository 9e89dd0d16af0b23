-------------------------------- MODULE Gallery --------------------------------
(***************************************************************************)
(* The photos of a tool: tools.service.ts.  A photo is a row and a file of *)
(* the store; one photo is to be the primary one, which a flag of its row  *)
(* says.  Making a photo primary is two statements, one that clears the    *)
(* flags of the tool's photos and one that sets the new one, and the       *)
(* removal of the primary photo makes another one primary afterwards.      *)
(*                                                                         *)
(* update also replaces the primary photo by a file sent as primaryImage;  *)
(* FileUploadMiddleware refuses a request with a field of that name, so    *)
(* that this branch is never taken and is left out.                        *)
(***************************************************************************)
EXTENDS Naturals, FiniteSets

CONSTANTS Photo,    \* ids of photos
          Editor    \* calls in flight

VARIABLES tool,     \* the tool's row
          photo,    \* tool_photo
          primary,  \* tool_photo.is_primary
          lost,     \* the store: the photos whose file was deleted
          job,      \* the calls
          crossed,  \* history: a photo was made primary while another call was about to
          excused   \* history: what a failure or a stale save left without its file

vars == <<tool, photo, primary, lost, job, crossed, excused>>

State == {"unused", "live", "deleted"}
Op == {"create", "update", "add", "promote", "remove", "delete"}
Label == {"idle", "demote", "attach", "select", "write", "restore", "unstore", "remove", "first", "drop"}
NoJob == [at |-> "idle", op |-> "update", photos |-> {}, main |-> FALSE, gone |-> {}]

TypeOK ==
  /\ tool \in State /\ photo \in [Photo -> State] /\ primary \subseteq Photo /\ lost \subseteq Photo
  /\ job \in [Editor -> [at : Label, op : Op, photos : SUBSET Photo, main : BOOLEAN, gone : SUBSET Photo]]
  /\ crossed \in BOOLEAN /\ excused \subseteq Photo

Init ==
  /\ tool = "unused" /\ photo = [p \in Photo |-> "unused"] /\ primary = {} /\ lost = {}
  /\ job = [e \in Editor |-> NoJob] /\ crossed = FALSE /\ excused = {}
-----------------------------------------------------------------------------
Live == {p \in Photo : photo[p] = "live"}
Unused == {p \in Photo : photo[p] = "unused"}
Missing == Live \cap lost

Begin(e, op, at, photos, main) ==
  /\ job[e] = NoJob
  /\ job' = [job EXCEPT ![e] = [at |-> at, op |-> op, photos |-> photos, main |-> main, gone |-> {}]]
  /\ UNCHANGED <<photo, primary, lost, crossed, excused>>

Goto(e, label) == job' = [job EXCEPT ![e].at = label]
End(e) == job' = [job EXCEPT ![e] = NoJob]

\* A call that is going to make a photo primary, and has looked at those that are.
Making(e) ==
  \/ job[e].at \in {"select", "write", "restore", "first"}
  \/ job[e].at \in {"attach", "unstore", "remove"} /\ job[e].main
Crosses(e) == crossed' = (crossed \/ \E f \in Editor \ {e} : Making(f))
-----------------------------------------------------------------------------
\* create: the photos follow the tool, the one at primaryPhotoIndex as the primary
\* one; the index may be past the last.
Create(e) ==
  /\ tool = "unused" /\ tool' = "live"
  /\ \E main \in BOOLEAN : Begin(e, "create", "attach", {}, main)

Update(e) == tool = "live" /\ Begin(e, "update", "attach", {}, FALSE) /\ UNCHANGED tool

\* isPrimary is converted to a Boolean: any text but the empty one is true.
addToolPhoto(e) ==
  /\ tool = "live"
  /\ \E main \in BOOLEAN : Begin(e, "add", IF main THEN "demote" ELSE "attach", {}, main)
  /\ UNCHANGED tool

setToolPhotoPrimary(e) ==
  \E p \in Live : Begin(e, "promote", "demote", {p}, TRUE) /\ UNCHANGED tool

\* Whether the photo is the primary one is known from here on.
removeToolPhoto(e) ==
  \E p \in Live : Begin(e, "remove", "unstore", {p}, p \in primary) /\ UNCHANGED tool

Remove(e) == tool = "live" /\ Begin(e, "delete", "unstore", Live, FALSE) /\ UNCHANGED tool

\* deleteTool of the administrators, which leaves the files.
DeleteTool(e) == tool = "live" /\ Begin(e, "delete", "drop", {}, FALSE) /\ UNCHANGED tool
-----------------------------------------------------------------------------
Demote(e) ==
  /\ job[e].at = "demote"
  /\ primary' = primary \ Live
  /\ Goto(e, IF job[e].op = "add" THEN "attach" ELSE "select")
  /\ UNCHANGED <<tool, photo, lost, crossed, excused>>

\* The files are in the store; their rows are written together, if the tool is there.
Attach(e) ==
  /\ job[e].at = "attach" /\ tool = "live"
  /\ \E fresh \in SUBSET Unused \ {{}} :
       /\ job[e].op = "add" => Cardinality(fresh) = 1
       /\ photo' = [p \in Photo |-> IF p \in fresh THEN "live" ELSE photo[p]]
       /\ IF job[e].main THEN (\E p \in fresh : primary' = primary \cup {p}) /\ Crosses(e)
          ELSE UNCHANGED <<primary, crossed>>
  /\ End(e)
  /\ UNCHANGED <<tool, lost, excused>>

\* save of a photo with its flag set: it selects the row, and writes the flag if it
\* differs, or the whole row if it is gone.
Select(e) ==
  /\ job[e].at = "select"
  /\ IF job[e].photos \subseteq Live
     THEN IF job[e].photos \subseteq primary THEN End(e) ELSE Goto(e, "write")
     ELSE Goto(e, "restore")
  /\ UNCHANGED <<tool, photo, primary, lost, crossed, excused>>

Write(e) ==
  /\ job[e].at = "write"
  /\ primary' = primary \cup (job[e].photos \cap Live)
  /\ Crosses(e) /\ End(e)
  /\ UNCHANGED <<tool, photo, lost, excused>>

\* A row that another call has written meanwhile, or whose tool is gone, is not inserted.
Restore(e) ==
  /\ job[e].at = "restore"
  /\ IF tool = "live" /\ job[e].photos \cap Live = {}
     THEN /\ photo' = [p \in Photo |-> IF p \in job[e].photos THEN "live" ELSE photo[p]]
          /\ primary' = primary \cup job[e].photos
          /\ excused' = excused \cup (job[e].photos \cap lost)
          /\ Crosses(e)
     ELSE UNCHANGED <<photo, primary, excused, crossed>>
  /\ End(e)
  /\ UNCHANGED <<tool, lost>>
-----------------------------------------------------------------------------
\* Of the files some may not be deleted; the error is logged.
Unstore(e) ==
  /\ job[e].at = "unstore"
  /\ \E gone \in SUBSET job[e].photos :
       /\ lost' = lost \cup gone
       /\ job' = [job EXCEPT ![e].at = "remove", ![e].gone = gone]
  /\ UNCHANGED <<tool, photo, primary, crossed, excused>>

\* A mutant: another photo is made primary whichever is removed.
RemovedAny(e) ==
  /\ job[e].at = "remove"
  /\ photo' = [p \in Photo |-> IF p \in job[e].photos \cap Live THEN "deleted" ELSE photo[p]]
  /\ primary' = primary \ job[e].photos
  /\ Goto(e, IF job[e].op = "delete" THEN "drop" ELSE "first")
  /\ UNCHANGED <<tool, lost, crossed, excused>>

RemoveRows(e) ==
  /\ job[e].at = "remove"
  /\ photo' = [p \in Photo |-> IF p \in job[e].photos \cap Live THEN "deleted" ELSE photo[p]]
  /\ primary' = primary \ job[e].photos
  /\ IF job[e].op = "delete" THEN Goto(e, "drop")
     ELSE IF job[e].main THEN Goto(e, "first") ELSE End(e)
  /\ UNCHANGED <<tool, lost, crossed, excused>>

\* The oldest photo that remains is made primary; which it is, is not told apart.
First(e) ==
  /\ job[e].at = "first"
  /\ \/ Live = {} /\ End(e)
     \/ \E p \in Live : job' = [job EXCEPT ![e].at = "select", ![e].photos = {p}, ![e].gone = {}]
  /\ UNCHANGED <<tool, photo, primary, lost, crossed, excused>>

\* The tool's photos go with it (ON DELETE CASCADE).
Drop(e) ==
  /\ job[e].at = "drop"
  /\ tool' = "deleted" /\ primary' = {}
  /\ photo' = [p \in Photo |-> IF p \in Live THEN "deleted" ELSE photo[p]]
  /\ End(e)
  /\ UNCHANGED <<lost, crossed, excused>>

\* An error, or a crash: what the call has done stays.
Fail(e) ==
  /\ job[e] # NoJob /\ End(e)
  /\ excused' = excused \cup (job[e].gone \cap Missing)
  /\ UNCHANGED <<tool, photo, primary, lost, crossed>>

Next ==
  \E e \in Editor :
    \/ Create(e) \/ Update(e) \/ addToolPhoto(e) \/ setToolPhotoPrimary(e)
    \/ removeToolPhoto(e) \/ Remove(e) \/ DeleteTool(e)
    \/ Demote(e) \/ Attach(e) \/ Select(e) \/ Write(e) \/ Restore(e)
    \/ Unstore(e) \/ RemoveRows(e) \/ First(e) \/ Drop(e) \/ Fail(e)
-----------------------------------------------------------------------------
(* A tool has at most one primary photo, unless a call made one primary    *)
(* while another was between looking at the flags and setting its own: two *)
(* photos made primary at once, or one made primary while the primary one  *)
(* is being removed.  Stale saves, which insert a removed photo again, and *)
(* failures in between make no second one.  (tools.service.ts)             *)
OnePrimary == Cardinality(primary \cap Live) <= 1 \/ crossed

(* A photo that is shown has its file, but for a removal that failed after *)
(* it had deleted the file, or a save that brought the photo back.         *)
(* (tools.service.ts)                                                      *)
ShownIsStored == Missing \subseteq excused \cup UNION {job[e].gone : e \in Editor}
=============================================================================
