---- MODULE PrintJobModel ----
(***************************************************************************)
(* The job list (core/PrintJobModel.cpp) with the selection of its page    *)
(* (JobListView.qml): adding jobs, importing pictures into the job image   *)
(* directory, removing the selected rows, saving rows with their pictures  *)
(* to one JSON file and loading it again.  The details page of a row       *)
(* (JobDetailsView.qml) lies over the list and holds a file of its own     *)
(* accord: it is what the editor saves over, while the imposition page     *)
(* moves the job to another file.                                          *)
(*                                                                         *)
(* Ids and file names are milliseconds of the clock.  The clock moves      *)
(* between two gestures of the user, and need not move inside one.         *)
(***************************************************************************)
EXTENDS Integers, SequencesExt

CONSTANTS Sources,   \* 1 .. n, the pictures the user may import
          Pdfs,      \* those that are PDF documents
          BaseNames, \* their file names
          MaxTime, MaxJobs

VARIABLES
    jobs,            \* rows: [tag, id, file, given, json]
    store,           \* file -> picture
    selectedIndexes,
    details,         \* the row of the details page, 0 if the list is on top
    imagePath,       \* the file that page holds
    now,
    json,            \* the rows of the JSON file, with their pictures
    edits,           \* pictures made by editing
    tags, shown,     \* rows made so far; the set of those to be listed
    shared,          \* files two listed rows have named at once
    astray           \* rows whose last picture was not put into their file

pvars == <<jobs, store, selectedIndexes, details, imagePath, now, json, edits,
           tags, shown, shared, astray>>

(* A file: how its name began, whether it is a PDF, how often "_imposed" was *)
(* put behind the name.                                                      *)
File(name, pdf) == [of |-> name, pdf |-> pdf, imposed |-> 0]
Imposed(f) == [of |-> f.of, pdf |-> f.pdf, imposed |-> f.imposed + 1]
NoFile == File(<<"none">>, FALSE)
(* Pictures are numbers: none, the sources from 1, then what editing makes; *)
(* and what a save or a copy that was cut short leaves in a file.           *)
NoPicture == 0
Broken == -1
NewPicture == Cardinality(Sources) + edits + 1
Put(f, picture, s) == [g \in DOMAIN s \union {f} |-> IF g = f THEN picture ELSE s[g]]
Shown(s, f) == IF f \in DOMAIN s THEN s[f] ELSE NoPicture
Readable(s, f) == Shown(s, f) > NoPicture
NamedTwice(js) == {js[r].file : r \in {r \in DOMAIN js :
    js[r].file # NoFile /\ \E q \in DOMAIN js \ {r} : js[q].file = js[r].file}}

(* The numbers of a finite set, the least first.  *)
Ascending(S) ==
    CHOOSE s \in [1..Cardinality(S) -> S] :
        \A i, j \in DOMAIN s : i < j => s[i] < s[j]

PInit ==
    /\ jobs = <<>> /\ store = << >> /\ selectedIndexes = <<>> /\ now = 0
    /\ json = <<>> /\ edits = 0 /\ tags = 0 /\ shown = {} /\ shared = {}
    /\ details = 0 /\ imagePath = NoFile /\ astray = {}

Row(id, file, picture, isJson) ==
    [tag |-> tags + 1, id |-> id, file |-> file, given |-> picture, json |-> isJson]

(* beginInsertRows() .. countChanged().  *)
Listed(js) == jobs' = js /\ shared' = shared \union NamedTwice(js)
Room(n) == Len(jobs) + n <= MaxJobs

(* What is done at the list, while no details page is open.  *)
AtList == details = 0 /\ UNCHANGED <<details, imagePath>>

(* addJob(): an empty job.  *)
AddJob ==
    /\ AtList
    /\ now < MaxTime /\ Room(1) /\ now' = now + 1
    /\ Listed(Append(jobs, Row(now + 1, NoFile, NoPicture, FALSE)))
    /\ tags' = tags + 1 /\ shown' = shown \union {tags + 1}
    /\ UNCHANGED <<store, selectedIndexes, json, edits, astray>>

(* importImageToJobStorage(): a copy under a name of the moment, refused   *)
(* if the name is taken.                                                   *)
JobImage(time, base, picture) == File(<<"image", time, base>>, picture \in Pdfs)
Importable(f, s) == f \notin DOMAIN s

(* addJobFromImage(), for each of the pictures dropped at once; the id is  *)
(* taken after the copy.  Importing only one is a picture that failed.     *)
AddOne(picture, base, time, id) ==
    LET f == JobImage(time, base, picture)
    IN  /\ AtList /\ Importable(f, store) /\ store' = Put(f, picture, store)
        /\ Listed(Append(jobs, Row(id, f, picture, FALSE)))
        /\ tags' = tags + 1 /\ shown' = shown \union {tags + 1}

AddJobFromImage ==
    \E p \in Sources, b \in BaseNames : \E id \in (now + 1)..MaxTime :
        /\ Room(1) /\ id <= now + 2 /\ now' = id /\ AddOne(p, b, now + 1, id)
        /\ UNCHANGED <<selectedIndexes, json, edits, astray>>

(* The next picture of the same drop, perhaps in the same millisecond.     *)
AddJobFromDrop ==
    \E p \in Sources, b \in BaseNames :
        /\ now > 0 /\ Room(1) /\ jobs # <<>>
        /\ LET l == Last(jobs) IN ~l.json /\ l.file # NoFile /\ l.id = now
        /\ AddOne(p, b, now, now)
        /\ UNCHANGED <<selectedIndexes, now, json, edits, astray>>

(* updateJob(): only the fields that are given.  *)
UpdateJob(js, r, data) ==
    [js EXCEPT ![r] = [k \in DOMAIN @ |-> IF k \in DOMAIN data THEN data[k] ELSE @[k]]]

(* The page of a PDF holds a picture rendered from it to a temporary file, *)
(* or nothing if that fails; another page holds the job's file itself.     *)
Preview == File(<<"preview">>, FALSE)
WithoutPreview(s) == [f \in DOMAIN s \ {Preview} |-> s[f]]
PageShows(f, s) ==
    \/ ~f.pdf /\ imagePath' = f /\ store' = s
    \/ f.pdf /\ Readable(s, f) /\ imagePath' = Preview /\ store' = Put(Preview, s[f], s)
    \/ f.pdf /\ imagePath' = NoFile /\ store' = s

OpenDetails(r) ==
    /\ details = 0 /\ details' = r /\ PageShows(jobs[r].file, store)
    /\ UNCHANGED <<jobs, selectedIndexes, now, json, edits, tags, shown, shared, astray>>

CloseDetails ==
    /\ details # 0 /\ details' = 0 /\ imagePath' = NoFile
    /\ store' = WithoutPreview(store)
    /\ UNCHANGED <<jobs, selectedIndexes, now, json, edits, tags, shown, shared, astray>>

(* What is done at the details page of row r, with the picture it is given. *)
AtDetails(r, data) ==
    /\ details = r /\ now < MaxTime /\ now' = now + 1
    /\ Listed(UpdateJob(jobs, r, data))
    /\ UNCHANGED <<selectedIndexes, details, json, tags, shown>>
Reached(r) == astray' = astray \ {jobs[r].tag}
Missed(r) == astray' = astray \union {jobs[r].tag}

UpdateJobImage(r) ==
    \E p \in Sources, b \in BaseNames :
        LET f == JobImage(now + 1, b, p)
        IN  /\ Importable(f, store) /\ AtDetails(r, [file |-> f, given |-> p])
            /\ PageShows(f, Put(f, p, WithoutPreview(store)))
            /\ Reached(r) /\ UNCHANGED edits

(* The editor and the conversion of colours save over the file the page    *)
(* holds, whatever the job names by now; a save cut short leaves it broken. *)
EditPicture(r) ==
    /\ Readable(store, imagePath) /\ UNCHANGED imagePath
    /\ \/ /\ AtDetails(r, [given |-> NewPicture]) /\ edits' = edits + 1
          /\ store' = Put(imagePath, NewPicture, store)
          /\ IF imagePath = jobs[r].file THEN Reached(r) ELSE Missed(r)
       \/ /\ AtDetails(r, << >>) /\ UNCHANGED edits
          /\ store' = Put(imagePath, Broken, store) /\ Missed(r)

(* The imposition page composes a new file from the job's and renames the  *)
(* job's picture whether that was done or not; the details page below it   *)
(* keeps what it holds.                                                    *)
ImposePicture(r) ==
    LET f == Imposed(jobs[r].file)
    IN  /\ imagePath # NoFile /\ UNCHANGED imagePath
        /\ AtDetails(r, [file |-> f, given |-> NewPicture]) /\ edits' = edits + 1
        /\ \/ /\ Readable(store, jobs[r].file)
              /\ \/ store' = Put(f, NewPicture, store) /\ Reached(r)
                 \/ store' = Put(f, Broken, store) /\ Missed(r)
           \/ UNCHANGED store /\ Missed(r)

-----------------------------------------------------------------------------
ToggleSelection(r) ==
    /\ selectedIndexes' = IF Contains(selectedIndexes, r)
                          THEN RemoveFirst(selectedIndexes, r)
                          ELSE Append(selectedIndexes, r)
    /\ AtList /\ UNCHANGED <<jobs, store, now, json, edits, tags, shown, shared, astray>>

SelectAll ==
    /\ jobs # <<>>
    /\ selectedIndexes' = [i \in DOMAIN jobs |-> i]
    /\ AtList /\ UNCHANGED <<jobs, store, now, json, edits, tags, shown, shared, astray>>

(* removeJob(): a row that is not there is ignored; files stay.  *)
RemoveJob(js, r) == IF r \in DOMAIN js THEN RemoveAt(js, r) ELSE js
RemoveJobs(js, rows) == FoldLeft(RemoveJob, js, rows)

(* As the rows were clicked, and from the last row to the first.  *)
ClickOrder == selectedIndexes
RemovalOrder == Reverse(Ascending(ToSet(selectedIndexes)))

RemoveSelectedJobs ==
    /\ AtList /\ selectedIndexes # <<>>
    /\ Listed(RemoveJobs(jobs, RemovalOrder))
    /\ shown' = shown \ {jobs[r].tag : r \in ToSet(selectedIndexes)}
    /\ selectedIndexes' = <<>>
    /\ UNCHANGED <<store, now, json, edits, tags, astray>>

(* saveToJson(): the rows in the order of the selection, each with the     *)
(* picture its file holds.  A write that fails leaves nothing to load.     *)
SaveToJson ==
    /\ AtList /\ now < MaxTime /\ now' = now + 1 /\ selectedIndexes # <<>>
    /\ \/ json' = [i \in DOMAIN selectedIndexes |->
                    LET j == jobs[selectedIndexes[i]]
                    IN  [id |-> j.id, file |-> j.file, data |-> Shown(store, j.file)]]
       \/ json' = <<>>
    /\ UNCHANGED <<jobs, store, selectedIndexes, edits, tags, shown, shared, astray>>

(* loadFromJson(): every row is appended, whatever is listed already.  The *)
(* picture that was saved with a row is written over <id>.<ext> beside the *)
(* JSON file, and the write may be cut short; if that file cannot be       *)
(* opened, or no picture was saved, the row keeps the path it had.         *)
LoadedFile(o) == File(<<"loaded", o.id>>, o.file.pdf)
Unpack(s, o) == IF o.data = NoPicture THEN s ELSE Put(LoadedFile(o), o.data, s)
UnpackAll(s, rows) == FoldLeft(Unpack, s, rows)
(* What reaches the disk of the pictures in the file.  *)
Outcomes == {"written", "cut short", "not opened"}
Arrived(data, outcome) ==
    IF data = NoPicture \/ outcome = "not opened" THEN NoPicture
    ELSE IF outcome = "written" THEN data ELSE Broken
Arriving(outcome) ==
    [i \in DOMAIN json |-> [id |-> json[i].id, file |-> json[i].file,
                            data |-> Arrived(json[i].data, outcome[i])]]
LoadedJobs(rows) ==
    [i \in DOMAIN json |->
        [tag |-> tags + i, id |-> json[i].id,
         file |-> IF rows[i].data = NoPicture THEN json[i].file ELSE LoadedFile(json[i]),
         given |-> json[i].data, json |-> TRUE]]
LoadFromJson ==
    /\ AtList /\ now < MaxTime /\ now' = now + 1 /\ json # <<>> /\ Room(Len(json))
    /\ \E outcome \in [DOMAIN json -> Outcomes] :
         LET rows == Arriving(outcome)
         IN  /\ store' = UnpackAll(store, rows) /\ Listed(jobs \o LoadedJobs(rows))
             /\ astray' = astray \union
                  {tags + i : i \in {i \in DOMAIN rows : rows[i].data \in {NoPicture, Broken}}}
    /\ tags' = tags + Len(json)
    /\ shown' = shown \union {tags + i : i \in DOMAIN json}
    /\ UNCHANGED <<selectedIndexes, json, edits>>

PNext ==
    \/ AddJob \/ AddJobFromImage \/ AddJobFromDrop \/ CloseDetails
    \/ SelectAll \/ RemoveSelectedJobs \/ SaveToJson \/ LoadFromJson
    \/ \E r \in DOMAIN jobs :
         \/ ToggleSelection(r) \/ OpenDetails(r)
         \/ UpdateJobImage(r) \/ EditPicture(r) \/ ImposePicture(r)

-----------------------------------------------------------------------------
(* The list holds exactly the jobs that were added and not confirmed for   *)
(* removal, in order; the selection names rows that exist; a job whose     *)
(* file no other listed job has named shows the picture the user gave it   *)
(* last, or was saved with, through editing, imposing, saving, removing    *)
(* and loading; and two jobs name one file only if one of them was loaded  *)
(* from JSON (PrintJobModel.cpp:101-141, 224-274, 313-464,                 *)
(* JobListView.qml:256-261).  Excepted are the jobs that went astray: the  *)
(* page edited another file than the job's, a save, an imposition or an    *)
(* unpacking failed.                                                       *)
JobsKeepTheirPictures ==
    /\ [r \in DOMAIN jobs |-> jobs[r].tag] = Ascending(shown)
    /\ ToSet(selectedIndexes) \subseteq DOMAIN jobs
    /\ \A r \in DOMAIN jobs :
         jobs[r].file \notin shared /\ jobs[r].tag \notin astray
           => Shown(store, jobs[r].file) = jobs[r].given
    /\ \A q, r \in DOMAIN jobs :
         q # r /\ jobs[q].file = jobs[r].file /\ jobs[q].file # NoFile
           => jobs[q].json \/ jobs[r].json
====
