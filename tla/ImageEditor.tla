---- MODULE ImageEditor ----
(***************************************************************************)
(* The image editor (rip/ImageEditor.cpp) and the two pages that share its *)
(* one object: the editor page, which edits, undoes, redoes and saves a    *)
(* job's picture, and the imposition page, which draws on whatever picture *)
(* the object still holds and then composes a new file.  Both lie over the *)
(* details page of a job, which holds a file of its own accord: what the   *)
(* job named when the page was opened.                                     *)
(*                                                                         *)
(* A picture is the job it shows, its number, and the number of the        *)
(* picture it was made from.  A job's files are numbered: 0 is its own,    *)
(* i+1 is file i imposed.  Blank is a file that is absent or unreadable.   *)
(***************************************************************************)
EXTENDS Integers, SequencesExt

CONSTANTS Artworks, MaxEdits, MaxImposed

ASSUME EditorAssumption == MaxImposed \in Nat

VARIABLES
    image, loaded,   \* m_image, m_imageLoaded
    undo, redo,      \* the stacks
    files,           \* <<job, i>> -> picture
    path,            \* of a job: which of its files it names
    page, open,      \* the page on top and its job
    held,            \* which of the job's files the details page holds
    dirty, drawn,    \* isDirty of the editor page, hasDrawnElements
    made,            \* pictures made so far
    stray,           \* the imposition page drew since the stacks were cleared,
                     \* or the file opened was saved in such a state
    spoiled          \* files saved from a stray history

evars == <<image, loaded, undo, redo, files, path, page, open, held, dirty,
           drawn, made, stray, spoiled>>

Blank == [of |-> "none", n |-> 0, from |-> 0]
Own(j) == [of |-> j, n |-> 0, from |-> 0]
Edited(p) == [of |-> p.of, n |-> made + 1, from |-> p.n]
FileOf(j) == <<j, path[j]>>
FileHeld == <<open, held>>

EInit ==
    /\ image = Blank /\ loaded = FALSE /\ undo = <<>> /\ redo = <<>>
    /\ files = [f \in Artworks \X (0..MaxImposed) |->
                  IF f[2] = 0 THEN Own(f[1]) ELSE Blank]
    /\ path = [j \in Artworks |-> 0]
    /\ page = "list" /\ open \in Artworks /\ held = 0 /\ dirty = FALSE /\ drawn = FALSE
    /\ made = 0 /\ stray = FALSE /\ spoiled = {}

(* loadImage(): the stacks stay as they are; a failure leaves no picture.  *)
LoadImage(f) ==
    \/ files[f] # Blank /\ image' = files[f] /\ loaded' = TRUE
    \/ image' = Blank /\ loaded' = FALSE

(* saveImage() writes in place: a failure may leave an unreadable file.    *)
Written(f, picture) == files' = [files EXCEPT ![f] = picture]
NotWritten(f) == files' = files \/ files' = [files EXCEPT ![f] = Blank]

(* The redo pictures survive a new edit.  *)
PushKeepingRedo == undo' = Append(undo, image) /\ UNCHANGED redo
PushUndoState == undo' = Append(undo, image) /\ redo' = <<>>
ClearUndoRedoStacks == undo' = <<>> /\ redo' = <<>> /\ stray' = FALSE

-----------------------------------------------------------------------------
OpenDetailsPage(j) ==
    /\ page = "list" /\ page' = "details" /\ open' = j /\ held' = path[j]
    /\ UNCHANGED <<image, loaded, undo, redo, files, path, dirty, drawn, made,
                   stray, spoiled>>
LeaveDetails ==
    /\ page = "details" /\ page' = "list"
    /\ UNCHANGED <<image, loaded, undo, redo, files, path, open, held, dirty, drawn,
                   made, stray, spoiled>>

(* beginEditorSession(): the picture, saved to and loaded from a working   *)
(* copy; any of the three may fail, and the page stays open all the same.  *)
OpenEditor ==
    /\ page = "details" /\ page' = "edit" /\ dirty' = FALSE
    /\ LoadImage(FileHeld)
    /\ stray' = (stray \/ FileHeld \in spoiled)
    /\ UNCHANGED <<undo, redo, files, path, open, held, drawn, made, spoiled>>

(* An edit pushes the picture first and then asks the library, which may   *)
(* fail; without a picture nothing happens.                                *)
Perform ==
    /\ loaded /\ made < MaxEdits /\ Len(undo) < MaxEdits
    /\ PushUndoState
    /\ \/ image' = Edited(image) /\ made' = made + 1 /\ dirty' = TRUE
       \/ UNCHANGED <<image, made, dirty>>
    /\ UNCHANGED <<loaded, files, path, page, open, held, spoiled>>

Reshape == page = "edit" /\ Perform /\ UNCHANGED <<drawn, stray>>
Adjust  == page = "edit" /\ Perform /\ UNCHANGED <<drawn, stray>>
Filter  == page = "edit" /\ Perform /\ UNCHANGED <<drawn, stray>>

UndoEdit ==
    /\ page = "edit" /\ undo # <<>>
    /\ redo' = Append(redo, image) /\ image' = Last(undo) /\ undo' = Front(undo)
    /\ dirty' = TRUE
    /\ UNCHANGED <<loaded, files, path, page, open, held, drawn, made, stray, spoiled>>

RedoEdit ==
    /\ page = "edit" /\ redo # <<>>
    /\ undo' = Append(undo, image) /\ image' = Last(redo) /\ redo' = Front(redo)
    /\ dirty' = TRUE
    /\ UNCHANGED <<loaded, files, path, page, open, held, drawn, made, stray, spoiled>>

SaveEdited ==
    /\ page = "edit" /\ loaded
    /\ \/ /\ Written(FileHeld, image) /\ dirty' = FALSE
          /\ spoiled' = IF stray THEN spoiled \union {FileHeld}
                        ELSE spoiled \ {FileHeld}
       \/ NotWritten(FileHeld) /\ UNCHANGED <<dirty, spoiled>>
    /\ UNCHANGED <<image, loaded, undo, redo, path, page, open, held, drawn, made, stray>>

(* Back warns once of unsaved edits, then leaves and clears the stacks.    *)
LeaveEditor ==
    /\ page = "edit"
    /\ IF dirty
       THEN dirty' = FALSE /\ UNCHANGED <<page, undo, redo, stray>>
       ELSE page' = "details" /\ ClearUndoRedoStacks /\ UNCHANGED dirty
    /\ UNCHANGED <<image, loaded, files, path, open, held, drawn, made, spoiled>>

-----------------------------------------------------------------------------
(* The imposition page loads nothing.  *)
OpenImposition ==
    /\ page = "details" /\ page' = "impose" /\ drawn' = FALSE
    /\ UNCHANGED <<image, loaded, undo, redo, files, path, open, held, dirty, made,
                   stray, spoiled>>

(* Text or a rectangle, on the picture the object holds, if any.           *)
Draw ==
    /\ page = "impose" /\ drawn' = TRUE
    /\ \/ loaded /\ stray' = TRUE /\ Perform
       \/ ~loaded /\ UNCHANGED <<image, loaded, undo, redo, files, path, page,
                                 open, held, dirty, made, stray, spoiled>>

(* applyImpositionEdits(): load, compose, save beside the original; the    *)
(* stacks are cleared at the very end.  Whatever it returns, the page      *)
(* renames the job's picture.                                              *)
SaveImposition ==
    LET f == FileOf(open)
        next == <<open, path[open] + 1>>
        canvas == Edited(files[f])
    IN  /\ page = "impose" /\ drawn /\ path[open] < MaxImposed /\ made < MaxEdits
        /\ path' = [path EXCEPT ![open] = @ + 1]
        /\ \/ /\ UNCHANGED <<image, loaded>> \/ LoadImage(f)
              /\ UNCHANGED <<undo, redo, files, made, stray>>
           \/ /\ files[f] # Blank /\ image' = canvas /\ loaded' = TRUE
              /\ made' = made + 1
              /\ \/ Written(next, canvas) /\ ClearUndoRedoStacks
                 \/ NotWritten(next) /\ UNCHANGED <<undo, redo, stray>>
        /\ spoiled' = IF f \in spoiled THEN spoiled \union {next} ELSE spoiled
        /\ UNCHANGED <<page, open, held, dirty, drawn>>

LeaveImposition ==
    /\ page = "impose" /\ page' = "details"
    /\ UNCHANGED <<image, loaded, undo, redo, files, path, open, held, dirty, drawn,
                   made, stray, spoiled>>

ENext ==
    \/ \E j \in Artworks : OpenDetailsPage(j)
    \/ LeaveDetails \/ OpenEditor \/ OpenImposition
    \/ Reshape \/ Adjust \/ Filter \/ UndoEdit \/ RedoEdit
    \/ SaveEdited \/ LeaveEditor \/ Draw \/ SaveImposition \/ LeaveImposition

-----------------------------------------------------------------------------
(* While a job's picture is edited, undo and redo walk one line of         *)
(* pictures of that job, each made from the one before it by one edit (or  *)
(* the same, after an edit that failed), and a saved file shows its own    *)
(* job: one editor object serves all jobs and clears its history only on   *)
(* the way out (ImageEditor.cpp:22-36, 397-439).  Not so after the         *)
(* imposition page has drawn on the object (ImpositionView.qml:63-75): its *)
(* strokes join the history of the next job that is edited.                *)
UndoStaysInThePicture ==
    LET line == undo \o <<image>> \o Reverse(redo)
    IN  /\ page = "edit" /\ ~stray =>
             /\ loaded => \A i \in DOMAIN line : line[i].of = open
             /\ \A i \in 1..(Len(line) - 1) :
                  line[i + 1] = line[i] \/ line[i + 1].from = line[i].n
        /\ \A f \in DOMAIN files \ spoiled :
             files[f] # Blank => files[f].of = f[1]
====
