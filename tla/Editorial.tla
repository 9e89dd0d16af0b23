------------------------------- MODULE Editorial -------------------------------
(***************************************************************************)
(* Articles, their sections and their images: news.service.ts and          *)
(* sections.service.ts.  An article has sections as a section has          *)
(* paragraphs and images: `kind` says which of the two the parent is.      *)
(*                                                                         *)
(* A call loads the parent with its children, or some children, and then   *)
(* works through its steps.  Saving a parent saves the children it was     *)
(* loaded with: those that are gone are inserted again, and one that it    *)
(* does not know would lose its parent, which the column does not allow,   *)
(* so that the save fails.  Image files are deleted from the store before  *)
(* the rows that show them.                                                *)
(***************************************************************************)
EXTENDS Integers, Sequences, FiniteSets

CONSTANTS Child,     \* ids of sections, or of paragraphs and images
          File,      \* uploads of main images
          NoFile,    \* an article without an image, or with one of another site
          Editor     \* calls in flight

VARIABLES kind, parent, main,   \* the parent: which it is, its row and its imageUrl
          child,                \* the rows below it
          file,                 \* the store: main images
          lost,                 \* the store: the children whose own image was deleted
          edit,                 \* the calls
          excused               \* history: what a failure or a stale save left without its file

vars == <<kind, parent, main, child, file, lost, edit, excused>>

State == {"unused", "live", "deleted"}
Step == {"insert", "unfile", "upload", "clear", "make", "save", "drop",
         "add", "unstore", "remove", "change"}
Given == {"nothing", "none", "some"}   \* the children in a request: not there, empty or not
NoEdit == [steps |-> <<>>, children |-> {}, image |-> NoFile, own |-> FALSE, deleted |-> {}]

TypeOK ==
  /\ kind \in {"news", "section"} /\ parent \in State /\ main \in File \cup {NoFile}
  /\ child \in [Child -> State] /\ lost \subseteq Child /\ file \in [File -> State]
  /\ edit \in [Editor -> [steps : Seq(Step), children : SUBSET Child, image : File \cup {NoFile},
                          own : BOOLEAN, deleted : SUBSET (Child \cup {"main"})]]
  /\ excused \subseteq Child \cup {"main"}

\* A section is there, with one child; an article is still to be written.
Init ==
  /\ kind \in {"news", "section"}
  /\ parent = IF kind = "news" THEN "unused" ELSE "live"
  /\ \E c \in Child :
       child = [x \in Child |-> IF x = c /\ kind = "section" THEN "live" ELSE "unused"]
  /\ main = NoFile /\ file = [f \in File |-> "unused"] /\ lost = {}
  /\ edit = [e \in Editor |-> NoEdit] /\ excused = {}
-----------------------------------------------------------------------------
Live == {c \in Child : child[c] = "live"}
Idle(e) == edit[e] = NoEdit
At(e, step) == Head(edit[e].steps) = step

\* A call goes on with its next step, or is over.
Advanced(e, changed) ==
  edit' = [edit EXCEPT ![e] = IF Len(edit[e].steps) = 1 THEN NoEdit
                              ELSE [changed EXCEPT !.steps = Tail(edit[e].steps)]]
Advance(e) == Advanced(e, edit[e])

\* What is shown and is no longer in the store.
MissingIn(row, image, children, files, gone) ==
  (IF row = "live" /\ image \in File /\ files[image] = "deleted" THEN {"main"} ELSE {})
    \cup {c \in gone : children[c] = "live"}
Missing == MissingIn(parent, main, child, file, lost)

\* An error, or a crash: what the call has done stays.
Fail(e) ==
  /\ edit' = [edit EXCEPT ![e] = NoEdit]
  /\ excused' = excused \cup (edit[e].deleted \cap Missing)
  /\ UNCHANGED <<kind, parent, main, child, file, lost>>
-----------------------------------------------------------------------------
Begin(e, steps, children) ==
  /\ edit' = [edit EXCEPT ![e] = [NoEdit EXCEPT !.steps = steps, !.children = children, !.image = main]]
  /\ UNCHANGED <<kind, parent, main, child, file, lost, excused>>

Opt(condition, step) == IF condition THEN <<step>> ELSE <<>>
Replaced(given) == Opt(given # "nothing", "clear") \o Opt(given = "some", "make")

\* create, which saves sections with the article, as the relation cascades, and
\* once more in createSections; it uploads a main image that comes as a file.
Create(e) ==
  /\ kind = "news" /\ parent = "unused"
  /\ \E files \in BOOLEAN, given \in Given :
       Begin(e, Opt(files, "upload") \o <<"insert">> \o Opt(given = "some", "make"), {})

\* A mutant: the old image is deleted whenever files come with the update.
DeletedWithFiles(e) ==
  /\ kind = "news" /\ parent = "live"
  /\ \E given \in Given : Begin(e, <<"unfile">> \o Replaced(given) \o <<"save">>, Live)

\* update of an article: the sections are replaced before it is saved.  An imageUrl
\* in the request, of a file that the call does not upload, is left out.
UpdateArticle(e) ==
  /\ kind = "news" /\ parent = "live"
  /\ \E replaceMainImage \in BOOLEAN, given \in Given :
       Begin(e, (IF replaceMainImage THEN <<"unfile", "upload">> ELSE <<>>)
                  \o Replaced(given) \o <<"save">>, Live)

\* update of a section: its children are replaced after it is saved.
UpdateSection(e) ==
  /\ kind = "section" /\ parent = "live"
  /\ \E given \in Given : Begin(e, <<"save">> \o Replaced(given), Live)

\* toggleFeatured, togglePublic; reorder
Toggle(e) == parent = "live" /\ Begin(e, <<"save">>, Live)

\* remove of both services
Remove(e) == parent = "live" /\ Begin(e, Opt(kind = "news", "unfile") \o <<"drop">>, Live)

\* createSection; createSectionParagraph, addParagraph, createSectionImageWithUrl,
\* uploadSectionImage
AddChild(e) == parent = "live" /\ Begin(e, <<"add">>, {})

\* create of sections.service.ts does not look for the article.
AddUnchecked(e) == kind = "news" /\ Begin(e, <<"add">>, {})

\* updateParagraph, updateSectionImage; reorder or update of a section
ChangeChild(e) == \E c \in Live : Begin(e, <<"change">>, {c})

\* deleteSectionImage, deleteParagraph; remove of a section.  Only an image has a
\* file, and only one in the service's own store.
DeleteChild(e) ==
  \E c \in Live, stored \in BOOLEAN :
    Begin(e, Opt(kind = "section" /\ stored, "unstore") \o <<"remove">>, {c})

\* deleteSectionImagesBySectionId, deleteSectionParagraphsBySectionId
DeleteChildren(e) ==
  /\ kind = "section"
  /\ \E images \in SUBSET Live : Begin(e, Opt(images # {}, "unstore") \o <<"clear">>, images)
-----------------------------------------------------------------------------
\* uploadFile of the S3 service
Upload(e) ==
  /\ At(e, "upload")
  /\ \E f \in File : /\ file[f] = "unused"
                     /\ file' = [file EXCEPT ![f] = "live"]
                     /\ Advanced(e, [edit[e] EXCEPT !.image = f, !.own = TRUE])
  /\ UNCHANGED <<kind, parent, main, child, lost, excused>>

\* An error of the store is logged, and the call goes on.
Unfile(e) ==
  /\ At(e, "unfile")
  /\ \E deleted \in (IF edit[e].image = NoFile THEN {FALSE} ELSE BOOLEAN) :
       /\ file' = IF deleted THEN [file EXCEPT ![edit[e].image] = "deleted"] ELSE file
       /\ Advanced(e, [edit[e] EXCEPT !.deleted = IF deleted THEN {"main"} ELSE {}])
  /\ UNCHANGED <<kind, parent, main, child, lost, excused>>

\* Of the files some may not be deleted.
Unstore(e) ==
  /\ At(e, "unstore")
  /\ \E deleted \in SUBSET edit[e].children :
       lost' = lost \cup deleted /\ Advanced(e, [edit[e] EXCEPT !.deleted = deleted])
  /\ UNCHANGED <<kind, parent, main, child, file, excused>>

\* One article is written here.
Insert(e) ==
  /\ At(e, "insert") /\ parent = "unused"
  /\ parent' = "live" /\ main' = edit[e].image
  /\ IF Len(edit[e].steps) > 1
     THEN \E c \in Child : child[c] = "unused" /\ child' = [child EXCEPT ![c] = "live"]
     ELSE UNCHANGED child
  /\ Advance(e)
  /\ UNCHANGED <<kind, file, lost, excused>>

\* The children go; of an article's, the call has only the given ones from here.
Clear(e) ==
  /\ At(e, "clear")
  /\ child' = [c \in Child |-> IF child[c] = "live" THEN "deleted" ELSE child[c]]
  /\ Advanced(e, [edit[e] EXCEPT !.children = {}])
  /\ UNCHANGED <<kind, parent, main, file, lost, excused>>

\* A child needs its parent (foreign key); the id is new.
New(e, step) ==
  /\ At(e, step) /\ parent = "live"
  /\ \E c \in Child : child[c] = "unused" /\ child' = [child EXCEPT ![c] = "live"]
  /\ Advance(e)
  /\ UNCHANGED <<kind, parent, main, file, lost, excused>>

\* save of the parent.  What it writes was read before: it may have been deleted since.
Orphans(e) == Live \ edit[e].children

Save(e) ==
  /\ At(e, "save")
  /\ IF Orphans(e) # {} THEN Fail(e)
     ELSE LET written == [c \in Child |-> IF c \in edit[e].children THEN "live" ELSE child[c]]
              stale == MissingIn("live", edit[e].image, written, file, lost) \ Missing
          IN /\ parent' = "live" /\ main' = edit[e].image /\ child' = written
             /\ excused' = (IF edit[e].own THEN excused \ {"main"} ELSE excused) \cup stale
             /\ Advance(e)
             /\ UNCHANGED <<kind, file, lost>>

\* save of a child
Change(e) ==
  /\ At(e, "change") /\ parent = "live"
  /\ child' = [c \in Child |-> IF c \in edit[e].children THEN "live" ELSE child[c]]
  /\ excused' = excused \cup ((edit[e].children \ Live) \cap lost)
  /\ Advance(e)
  /\ UNCHANGED <<kind, parent, main, file, lost>>

RemoveChild(e) ==
  /\ At(e, "remove")
  /\ child' = [c \in Child |-> IF c \in Live \cap edit[e].children THEN "deleted" ELSE child[c]]
  /\ Advance(e)
  /\ UNCHANGED <<kind, parent, main, file, lost, excused>>

\* The rows below go with the parent (ON DELETE CASCADE).
Drop(e) ==
  /\ At(e, "drop")
  /\ parent' = "deleted"
  /\ child' = [c \in Child |-> IF child[c] = "live" THEN "deleted" ELSE child[c]]
  /\ Advance(e)
  /\ UNCHANGED <<kind, main, file, lost, excused>>

Next ==
  \E e \in Editor :
    \/ /\ Idle(e)
       /\ \/ Create(e) \/ UpdateArticle(e) \/ UpdateSection(e) \/ Toggle(e) \/ Remove(e)
          \/ AddChild(e) \/ AddUnchecked(e) \/ ChangeChild(e) \/ DeleteChild(e) \/ DeleteChildren(e)
    \/ /\ ~Idle(e)
       /\ \/ Upload(e) \/ Unfile(e) \/ Unstore(e) \/ Insert(e) \/ Clear(e) \/ New(e, "make") \/ New(e, "add")
          \/ Save(e) \/ Change(e) \/ RemoveChild(e) \/ Drop(e) \/ Fail(e)
-----------------------------------------------------------------------------
(* What is shown is in the store: the main image of an article, and the    *)
(* images of a section.  Only a call that deleted the file and failed, or  *)
(* one that saves again what it read before, leaves a row without one.     *)
(* (news.service.ts, sections.service.ts)                                  *)
ShownIsStored ==
  Missing \subseteq excused \cup UNION {edit[e].deleted : e \in Editor}
=============================================================================
