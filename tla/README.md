# Verification of PrintFlow's print path

TLA+ models of PrintFlow RIP, checked with TLC and proved with TLAPS. Paths
below are those of the repository, from its root (`src/printerservice/...`).

PrintFlow turns a list of image jobs into halftoned rasters and prints them
through a vendor SDK. The SDK is fragile: it accepts one controller session, on
x86-64 it may crash while it formats data, on aarch64 it cannot be reconnected
at will. So one per-user service process owns it, the GUI and other programs
talk to that process over a local socket, rasters travel as files that are
uploaded in chunks, and on x86-64 each job is printed by a worker process. Much of
what can go wrong lies between these processes and threads, and that is where
this project begins. It then follows the raster back to where it comes from (the
two output pipelines, their two backends, the spool file) and to what the user
does between two prints (the editor, the job list, the settings).

## 1. Inventory

| Component | State it keeps | Operations | Talks to | What makes it correct |
|---|---|---|---|---|
| Printer service (`printerservice/PrinterServiceServer.cpp`) | `m_uploads`, `m_printInProgress`, connection buffers, partial and final raster files | `handleRequest` per command, expiry timer, constructor's sweep, destructor | clients (socket, TCP for Android), SDK client | files match the table; only whole rasters print; one job at a time; replies do not disturb a print; every request answered, every upload ends |
| SDK client (`vendor/nocai/NocaiDirectPrintClient.cpp`) | loaded library, chosen and connected printer, `m_cancelRequested`, cancel file, active spool reader | refresh, choose, connect, maintenance, `submitPreparedJob`, `submitSpooledJob`, `abortPrint`, worker | vendor library, worker process | one owner of the session; StartPrint and ClosePrint pair; origin reset; a cancel hits its own job, soon |
| Service process (`printerservice/main.cpp`) | lock file, termination flag | start, SIGTERM, worker mode | OS | one process at a time |
| Service client (`printerservice/PrinterServiceClient.cpp`) | state cache, `m_uploadActive`, `m_cancelUpload`, `m_servicePid`, `m_maintenanceBusy` | `submitSpooledJob`, `cancelCurrentOutput`, `exchange`, `ensureService`, `restartService`, asynchronous maintenance | service, OS | the reported result is the true one; nothing left behind; cancel works; always returns |
| Protocol (`PrinterServiceProtocol.cpp`) | none | frames, conversions | | data only |
| CMYK and multi-ink output (`rip/PrintJobCMYK.cpp`, `PrintJobMultiInk.cpp`) | loaded image and alpha mask, settings, `m_cancelRequested`, shared by all runs of the object | prepare, load, convert, build spool in memory or in strips, fall back, write PRN, direct print, cancel | raster pipeline, spool, service client | a run prints its own picture with its own settings; a canceled run produces nothing; no file is left; the backends agree |
| Raster spool (`core/RasterSpool.cpp`) | file, hash, line counters | create, write line, finalize, verify, read line, remove | files | what verifies is what was written, complete; lines do not overlap; sizes do not wrap |
| Bounded raster pipeline (`rip/BoundedRasterPipeline.cpp`) | strip buffers, rolling windows, canonical file | storage preflight, strips, screen to spool, drain, sweep | spool | each line once, at its place, equal to the whole-frame screen; disk bound; no partial output |
| Screening, tones, masks, curves (`rip/MultiInk*.cpp`, `X33WhiteToneBuilder.cpp`, `RasterAlphaMask.cpp`) | none between calls | pixel arithmetic, tables of channels, masks and planes | pipeline | no ink lost or made; channel, mask and plane are of one ink |
| ARM recovery (`vendor/nocai/NocaiArm*.cpp`) | raw socket | probe, stale-session close, command tags | controller | never closes a live session |
| Job list (`core/PrintJobModel.cpp`, `resources/qml/JobListView.qml`, `JobDetailsView.qml`) | rows with id and image path, selection, JSON file, the file the details page holds | add, import, drop, update, remove selected, save, load | GUI, files | the list is what was added and not removed; a job keeps its picture |
| Image editor (`rip/ImageEditor.cpp`, editor and imposition pages) | one image, undo and redo stacks, for all jobs | load, edits, draw, undo, redo, save, impose | GUI, files | undo stays in the picture on the page; a file shows its own job |
| Colour management (`core/ColorManagementManager.cpp`) | printer, profiles, curves, parameters, settings file | setters (some save), save, load, reset, resolve profile and curve | files, GUI | a restart brings back what was saved; values stay in range |
| Asset and image import (`core/AssetManager.cpp`, `ImageImportManager.cpp`) | asset directory | copies at the start, the Android picker | files | copies are there |
| Theme, strings, capabilities; QML; debug tool | little or none | | | no behaviour worth a model |

How they interact on a direct print. The GUI calls `runDirectPrint`, which
starts a job thread; that thread rasterizes into a spool file, then
`submitSpooledJob` verifies it, greets the service (and starts or restarts it),
begins an upload, appends chunks and commits. Each request is a connection of
its own. The commit's handler stays on the service's stack until the job is
printed: on x86-64 it waits for a worker process, on aarch64 it prints line by
line, and both process other connections' events meanwhile. The Cancel button
runs on the GUI thread: it sets the job's flag, then either the client's flag
or sends `abortPrint`, which sets a flag of the service and, for a worker,
creates a file.

How a raster comes about. A run is a pool thread of one pipeline object. It
prepares (settings, assets, masks, storage), loads the picture with its alpha,
converts it, and builds the spool with one of two backends: in memory (tones and
screen of the whole frame, then the writer) or, when memory is short or the first
failed, bounded (a canonical CMYK file, then strips through a window of four rows
per channel). Both fill one spool file through one writer. `finalize` hashes it
and gives it its name; then it is copied to a PRN or submitted to the service,
and removed. Each of these steps may fail, each may be canceled, and another run
of the object may work beside it.

Hard behaviour, in order of importance: handlers nested in a print; cancellation
across three threads, two processes and four flags without a lock; files
against table against clock; lost and late replies, restarts and kills;
ownership of the SDK; two runs on one pipeline object; two backends that must
print the same dots; one editor for all pictures; file names made of milliseconds. `PROJECT.json` lists every hazard at its line.

## 2. The modules

| Module | What it is |
|---|---|
| `PrinterServiceServer` | the service process with job submission and worker |
| `RasterDelivery` | abstract specification: what the service promises about an upload |
| `PrinterServiceDelivery` | the refinement mapping from the one to the other |
| `PrinterServiceSystem` | clients (job thread and GUI thread) composed with the service |
| `PrinterServiceProofs`, `PrinterServiceSafety` | theorems about the service |
| `PrinterServiceDeliveryProofs` | the refinement of `RasterDelivery`, proved |
| `PrinterServiceSystemProofs` | theorems about the composed system |
| `NocaiSession` | the SDK client in the process that uses the vendor library: session, job, origin, height |
| `VendorSequence` | abstract specification: the order of calls the vendor library asks for |
| `NocaiSessionProofs` | theorems about the session, with the refinement of `VendorSequence` |
| `RasterJob` | the runs of a pipeline object, from the click to the report |
| `RasterJobProofs` | theorems about any number of runs, and about the tones of any pixel |
| `RasterSpool` | the spool file: geometry, addresses, checksum, verification, storage preflight |
| `RasterSpoolProofs` | theorems about the addresses of its lines and about the bounded backend |
| `ScreenPipeline` | the bounded backend, row by row, against the whole-frame screen; extends `RasterSpool` |
| `ToneChannels` | from a CMYK pixel to the tones of the channels and the planes of every ink mode |
| `ImageEditor` | the editor object and its two pages |
| `PrintJobModel` | the job list, its details page, its pictures and its JSON file |
| `ColorManagement` | the settings, their file and its crashes |
| `DeskProofs` | theorems about the editor, the job list and the settings |
| `RasterOutput`, `Desk` | the output path and the user's desk put together for TLC |
| `MCPrinterService`, `MCPrinterSystem` | symmetry sets of the TLC instances |

### PrinterServiceServer

One connection carries one request: `conn[k]` is free, waiting (the frame has
arrived), serving (a print handler has it) or answered. A handler is one action
(`BeginRasterUpload`, `AppendRasterChunk`, ..., one action more for each way of
failing that changes other things), except those that print: `Commit` and
`SubmitJob` push a frame on `stack`, the call stack of handlers that are in the
middle of a print, and the frame then goes through the steps of
`printPackedJob` or of the wait for the worker.

* `EventPoint` says when handlers run: at rest, at the `processEvents` of the
  line loop (every `EventStride` lines), and in the wait for the worker of a
  committed job. The one-frame job on x86-64 waits without processing events.
* The gate is `printInProgress`; `Admits` is the early return of
  `handleRequest`.
* `MayLoadSdk` is part of every reply, as `serviceState` is.
* An upload is its id. `received` is the byte count in units of chunks, `body`
  the chunks in the file; a chunk is its index in the submitted raster, 0 is
  anything else. `Verified` is what length check, header check, hash and
  comparison with the announced metadata accept, that is, the submitted file.
* `stale` holds uploads whose last activity is older than five minutes; `Age` is
  the passing of that time, `RemoveExpiredUploads` the timer's handler.
* `CancelSeen` is the test before each line: the flag of the process that
  prints, or the worker's cancel file.
* `Terminate` is the poll that sees SIGTERM; `Exit` needs an empty stack, since
  quitting takes effect only when the handlers have returned; `Crash` is any
  abrupt end, which leaves files and a running worker (`orphan`); `Restart` is
  the constructor with its sweep of partial files.
* History variables, which the code has not: `outcome`, `aborted`, `late`,
  `abandoned`.

The SDK commands `configure`, `refreshPrinters`, `choosePrinter`,
`connectPrinter`, `reconnectPrinter`, the status queries, pause, continue and
maintenance are one action, `Controller`: as far as this module's properties go
they use the SDK, may load or unload it, and answer either way.

### PrinterServiceSystem

Each client has a job thread (`job[c].pc` follows `runDirectPrint` and
`submitSpooledJob`) and a GUI thread that may click Cancel (`gui[c].pc`). The
three flags between them are sets of clients. Every store and load that another
thread can see is a step of its own. Exchanges use the connections of the
service model: `Ask` sends, `Answer` receives, `NoAnswer` gives up and leaves
the request with the service, which may still serve it. A hello without an
answer leads through `restartService`: shutdown request, wait for the process to
end, SIGTERM, SIGKILL, new process, reconnect. The kill is possible only while a
handler is on the service's stack: a service whose loop is free obeys SIGTERM in
the three seconds it is given. A process that cannot be started ends the submission
(`StartFails`). `Integration` is another program of the user
that sends the one-frame job of the public API.

`FailureIsFinal` says what a reported failure is worth. Not that nothing was printed:
a job fails too when ClosePrint or the reset of the origin does, after its last line.
But nothing more of it prints, and it is not repeated by a request still under way.
`unheard` (history) are the clients that sent a commit and gave its answer up; they,
and the worker of a killed service, are the exceptions. `SysTypeOK` also says that
`m_uploadActive` is up only while the upload lasts, on every way out.

The ping of `ensureService` before each request is not a step of its own; its
failure is one of the ways of `NoAnswer`. A raster that fails to build, a
verification that fails and a cut spool file are steps that may happen at any
time in their place.

### NocaiSession

The other end of the service: `NocaiDirectPrintClient`, from the loading of the
vendor library to the controller. The two models meet in what the service model
shows of its handlers: SDK commands and jobs come one at a time (the event loop
and `m_mutex`), with only an abort in between. Where that fails, for one-frame jobs
on aarch64, run `ServerArmLegacy` says so, and this model does not apply.

`pc` is the place in `refreshPrinters`, `choosePrinter`, `connectPrinter` or
`printPackedJob`; each action is one vendor call (or a group between which nothing
can happen) with the code up to the next. `arm` chooses between the two builds'
`#if` branches. State of the client: `lib`, `found`, `selected`, `connected`.
State beyond it, which the client only believes to know: what the library has
selected (`chosen`), which printer its control session was opened to (`control`),
how far a job is (`data`), and what the controller keeps (`origin`, `z`,
`target`). A vendor call may fail anywhere, and a setter that reports failure may
have written (`MayWrite`). A getter reports what the controller has: the model has
no lying getter. A call to close the job counts as made, whatever it returns: the
code has no second way to close one.

* `Submit` is `submitSpooledJob`: on aarch64 in the process itself, on x86-64
  after unloading, in a worker whose client starts from nothing; `worker` is
  `starting` until the worker's own search is done. A job may be refused before the
  session is given up for the worker, or the worker fail to start after it.
* `ChoosePrinter` hands over any index, listed or not; whether it is taken is up to
  the library.
* `SetUp` stands for the three commands and for the maintenance action that does
  all three; `Reconnect` for the service's handler when the session does not
  answer (a healthy one is left alone, which changes nothing).
* `CleanUp` is the scope guard's `resetJobOrigin(true)`, `ResetJobOrigin` the one
  whose failure fails the job.
* `Crash` ends the process or its worker; the controller's origin and table stay.

Only jobs for the X-33 (`req.x33`) have an origin. `vendor/nocai/README.md` says
that a zero-offset aarch64 job leaves the origin query out; the code always reads
it, and so does the model.

### RasterJob

`stage[r]` is the place of run `r` in `runPRNGeneration` or `runDirectPrint`
(`kind`); an action is a stage with every way it can end. The two classes differ
in how they prepare, convert and treat a missing plate, so these stages have an
action for each (`PrepareX33`, `PrepareMulti`, ...). What the object shares between
its runs is not a value but an origin: `image` and `setup` are the runs whose
picture and settings it holds, two of them where one overwrites what another is
reading, and `from[r]` collects the origins of what went into run `r`'s spool. White mode
and plate path are such settings: `PlateRefused(s)` is the verdict on the settings of run
`s`, and what a run finds is the verdict on any one in `setup` (`PlatePasses`).
`files` are the files in the scratch directory, by run and kind. `AskCancel` is the
button; `asked` (history) remembers the runs it met, until another start takes the
request back. The last look at the flag is at the last piece of the checksum (`Hashed`); a sealed
spool is then given its header and its name and goes to the output whatever the flag
says (`PublishSpool`), so `asked` takes in no request that comes later. `FallBack` is the way from the memory backend to the bounded one. An
exception nobody catches ends a run as `lost`.

### RasterSpool and ScreenPipeline

A file is the bytes of its body by address, the lines written and whether its
header carries the checksum; `LineOffset`, `ExpectedBodyBytes` and `RequiredStorage`
are the code's sums, with `IntMax` and `WordMax` in the place of the largest int
and quint64. `ScreenPipeline` has an action for each step of the bounded backend
between two looks at the cancel flag: `Preflight`, `ExportStrip`, `OpenWriter`,
`StartStrip`, `ScreenRow` (one channel of one row: classify, push, promote the
centre, emit), `Drain`, the two halves of `finalize`, `Deliver`. `StepFails` is an
exception at any of them, `Crash` and `Sweep` the death of the process and the
next start. `WholeFrame` is `MultiInkScreenEngine`'s screen of the whole frame, a
recursive function over rows and columns because promotion works in place.
`Draw` stands for the hash of a pixel. `Occupied` is what is on the disk at each step:
spool and canonical file, and the caches of picture, alpha, resize, plates and masks,
and the PRN beside the spool, each from the step that makes it to the one that lets it
go; the estimate of `Preflight` is compared with the whole sum.

### ToneChannels

Tones are 0..`MaxTone` for 0..255. A tone is the ink the code's variable is named
after, the value before the curve, and the origin of the curve it went through:
the tables of channels, masks, light inks and planes are what is compared, and
the numbers of a curve cannot change them. `setting` holds what the page sets;
values a mode ignores are fixed. `MemoryPlates` and `BoundedPlates` are the plates
the two backends load. Of the two windows that split black, the instance has a pair
that follow each other, as the defaults do, and a pair that overlap, which the page
lets one set: the light inks then print more black than there is.

### ImageEditor, PrintJobModel, ColorManagement

A picture in `ImageEditor` knows the job it shows and the picture it was made
from. The edits of the page are three actions (they push alike and change
different things), each of which may fail after the push. The imposition page
draws on the picture the object holds, whoever's that is; `stray` and `spoiled` are
history variables that say how far this has spread.

All this happens over the details page of a job, and that page holds a file of its own
accord (`held`): the one the job named when it was opened. The editor opens and saves
that file, the imposition page the job's present one.

In `PrintJobModel` ids and file names are readings of a clock in milliseconds that
moves between gestures and need not move inside one, such as a drop of several
pictures. `imagePath` is what the details page holds: for a PDF a preview in a temporary
file, or nothing; otherwise the job's file of the moment it was opened or its picture
replaced. `EditPicture` writes there, `ImposePicture` moves the job to the imposed name
whether that file was written or not, `LoadFromJson` gives each row an outcome of its
own (written, cut short, not opened). `given` is the picture a row was given last or was
saved with, whatever became of it; `shown` are the rows that should be listed, `shared`
the files two rows have named, `astray` the rows whose last picture did not reach the
file they name: all four are history. `JobsKeepTheirPictures` follows the rows that are
neither shared nor astray; section 6
says how a row goes astray on the page.

`ColorManagement` has one value for each kind of setting, and an action per kind
of setter. A save is two steps, truncating and writing, with `Quit` (or a crash)
between them; `Legacy` is a file of an earlier version.

## 3. Runs

| Run | Instance | Shows |
|---|---|---|
| `ServerX86` | 2 connections, 2 uploads, 1 chunk, 2 lines, any request, 1 crash | type, files against table, gate, SDK ownership, cancellation, final outcomes, refinement of `RasterDelivery` |
| `ServerArm` | 3 connections, 1 upload, 2 chunks, in-process, one-frame jobs | gate and cancellation when handlers nest inside the line loop |
| `ServerArmLegacy` | 2 connections, the same | a violation, see findings |
| `ServerArmLive` | 2 connections, 1 upload, no one-frame jobs | every upload ends, every request is answered, vendor calls are serialized |
| `SystemLossy` | 2 clients, 1 lost exchange, 1 click, restart and kill | a reported print is a print; after a reported failure nothing more prints, unless the answer to the commit was given up or the printing process killed |
| `SystemLive` | 1 client, 1 click, 1 lost exchange, 1 job of another program | the submission and the click come to an end; nothing of the upload is left |
| `Session` | both builds, 2 printers, 1 line, offsets and heights 0 and 1, 1 crash | the client's view of library and session, the origin under a job and after it, the session aarch64 must not forget, refinement of `VendorSequence`, every operation ends |
| `SessionHeight` | 1 printer, 2 heights | a violation, see findings |
| `SystemCancel`, `SystemRestart` | 1 client | violations, see findings |
| `RasterOutput` | 2 runs; every ink mode, 2 GCR settings, 2 split windows, 3 curve sets, plates; 5x5 pixels, 2 channels, 4 requests, 1 crash | a run's own picture, files and cancel; tones and tables; the bounded screen against the whole frame, publication, sweep, storage |
| `Desk` | 2 artworks, 2 edits, 1 imposition; 2 jobs, 2 pictures (one a PDF), 1 name, 4 ticks; 3 changes of settings, 2 modes, 2 printers | undo history, jobs and their pictures, what a restart brings back |

Why the bounds suffice. Two connections let a request be served inside a print;
three let two be served inside two nested prints. Two uploads are one that
prints and one that expires, is canceled or waits. Two chunks are the least that
can be repeated, skipped or swapped; one is enough where order is not the
question. Two plane lines with an event point at the first give a line before
and after an abort. One crash, one restart and one lost exchange give every
combination with a single fault; the theorems have no such bounds. Two printers
let a session be open to one and the other be chosen; one offset beside zero and
one height beside another let a job find each of them wrong; one line is the line
before which, in which and after which an abort can come. Requests in
the server's own runs come from anybody, in any order, with any upload id and
chunk, so clients that misbehave are included. `CHECK_DEADLOCK FALSE` stands in the system runs, where everything stops when
every client has printed, and in `RasterOutput` and `Desk`, where a job ends and the
bounds on gestures and time run out; `NocaiSession` always has a request left.

In `RasterOutput` and `Desk` the parts share no state, so a behaviour exercises one
of them while the others are off; this is not a composition, only one instance
for several small models. Five rows and columns are the least in which promotion
has rows and columns it must and must not touch and a row it promotes has
promoted neighbours; the budgets give strips of one row, of a few and of the whole frame; one
disk is too small for a job, one just large enough. The three rows of pixels are chosen so that
promotion, swapped dots, the lifted highlights and the thresholds all occur, and
every arrangement of them in five rows is tried. Two runs are one that is
disturbed and one that disturbs. `HeaderBytes` is 16 instead of 4096: the
preflight does not count it, so it has to fit into what the masks' cache is given, as
4096 does with masks of real size (`ScreenAssumption`). In `Desk` two pictures dropped at once are enough for equal
ids, and one name for equal file names; two jobs and four ticks let a row be removed,
saved, loaded again, and the page of one be open while its file is another's; three changes are a setting, another and a reset or save.

Fairness. Handlers are strongly fair per connection: Qt delivers pending events
in turn whenever it processes events, but in a print those points come and go.
The line loop, the worker and the clock are weakly fair: they run. The expiry timer
(`TimerFires`) catches an upload that stays stale while events are processed, not
one that is touched between two of its ticks. Clients in
the server runs owe nothing. In the system runs threads that can go on do
(`SysFairness`), a needed service is started, clicks and starts of jobs are free.
In `Session` the code that runs goes on (`WF` of `OperationStep`): vendor calls
return and every wait counts its polls; nothing is asked of users or of the table.
On aarch64 liveness is checked without one-frame jobs: with them a job's handler
can be held up for ever by others nested on top of it. `RasterOutput` and `Desk`
state safety only and assume no fairness.

Findings (`PROJECT.json` quotes the lines):

1. On aarch64 the README's serialization of vendor calls fails for one-frame
   jobs: their handler processes events with the gate open (`ServerArmLegacy`).
2. A click of Cancel can be lost, at the start and at the end of an upload,
   although it returned before the commit; the job prints and is reported as a
   success (`SystemCancel`).
3. A service killed during a print by the restart of another client's submission
   leaves its worker as a second owner of the SDK (`SystemRestart`). The README
   also calls restarts "deliberately not automatic"; this one is.
4. A job can start while the table moves, which the comment at the wait for the
   height calls a failure: only a movement the job itself began is waited for, not
   one of a height command, and a height read on the way passes for an arrival
   (`SessionHeight`).

## 4. Proofs

The constants are arbitrary: any set of connections and uploads, any positive
number of chunks, lines and event stride, either build, any number of crashes
(`ServerAssumption`).

* `PrinterServiceProofs` proves `TypeCorrect`, one lemma per group of actions.
* `PrinterServiceSafety` proves `Invariance == Spec => []IndInv` and from it each
  safety invariant of the runs. None is inductive alone. `PrintsOnlyComplete`
  needs that an id in the table was drawn and is not printing (`ProcessInv`) and
  the gate, so that no handler that removes files runs beside a print.
  `SdkExclusive` needs that a worker runs only under a waiting handler with the
  gate closed (`BuildInv`, `GateGuardsThePrint`), for only then `MayLoadSdk`
  loads nothing. `CancelHitsItsOwnJob` needs that a standing cancellation of the
  printing job was asked for during it (`CancelInv`), which holds because
  `ForgetCancellation` comes first. `AbortStopsTheStream` needs that after a late
  line the job is at its next check and not beyond (`LateInv`).
  `VendorCallsAreSerialized` assumes `InProcess => ~Legacy`, which is the run's
  condition too, and needs `NoLegacyInv`.
* `PrinterServiceDeliveryProofs` proves `Refinement == Spec => DeliversRasters`.
  The first lemmas lift what a step does to the phase of each upload to a step of
  `RasterDelivery`; the others sort the service's steps by what they do to phases:
  nothing, begin, take, start, end, drop. The mapping needs `EndedInv`, an outcome
  belongs to an id that is drawn and neither in the table nor printing, beside
  `IndInv`. `OutcomesAreFinal` follows from the same two.
* `PrinterServiceSystemProofs` proves `Composition`, that every behaviour of the
  clients and the service is one of the service's own specification; every
  theorem about the service thus holds of the system. `SystemPrintsWholeRasters`
  and `SystemDelivers` are the instances that matter most. `SystemTypeCorrect` and
  `SuccessIsAPrint` are about the clients, for any number of them: their invariant
  `SysInv` spans both sides of every open exchange. `FramesInv` gives each printing
  handler a connection of its own; `SlotsInv` says that no two threads wait on one
  connection and that nobody's is given up by another; `CommitAt` says what the
  connection of a commit can carry: the request itself, a handler that prints this
  upload, or an answer that is a success only if the upload was printed.
  `Answers` sums up every step of the service for connections and handlers, so that
  the steps of the clients are looked at one by one and those of the service once.
  `FailureEndsThePrint` and `NothingIsLeftBehind` are about what a report of failure
  leaves with the service; the first holds through given-up exchanges, restarts and
  kills. They need `PromiseInv` on top of `SysInv`: an upload
  belongs to one job thread or to one answer nobody has taken yet (`OwnInv`), a commit
  under way has its client waiting unless that client is in `unheard` (`HolderInv`), each
  place in the code of the others knows what has become of its upload (`FateInv`), and,
  while no exchange has been given up, what a client alone with the service can find in
  the table (`LeftInv`). `ArmedInv` ties `m_uploadActive` to the place in the code.
  The places have to be told apart because a failure is reported from
  several of them, each with the upload in another state at the service.
* `NocaiSessionProofs` proves `SessionInvariance == Spec => []SessionInv`, a lemma
  per action with a step per conjunct, for both builds and any number of
  printers, lines, offsets, heights and crashes (`SessionAssumption`).
  `ViewIsTrue` and `RemembersItsSession` need each other and `ProcessInv` (a job's
  places are reached only connected, a worker exists only on x86-64);
  `StartsAtItsOwnOrigin` needs `OffsetInv`, that the job's offset is in the
  controller and known to have to be taken back from the moment it was confirmed.
  `PrintedOffsetTakenBack` is the action property; `VendorSequenceFollowed` the
  refinement, which needs `DataInv`: the place in the code says how far the
  library's job is.

* `RasterJobProofs` proves `RunsInvariant == JSpec => []JInv` for any set of runs on
  one object, and from it `CancelIsHonoured`, `ScratchIsClean` and `PictureIsOwn`.
  `AskedInv` says that a remembered request keeps the flag up and finds its runs at
  a place that looks at the flag again before the spool is sealed; `ScratchInv` gives the
  files each stage may have; `AloneInv` and `OwnInv` say that a run which never met
  another is the only one under way and that picture and settings are its own from
  the moment it sets them; `PlateInv` keeps a refused plate from the writer,
  for runs that met no other, since the settings that were judged are theirs alone.
  It also proves `InkIsConserved` and `PlanesAreInks`, about the tones, for tones of
  any width, any pixel, any fade and any windows. The invariant `TonesInv` only says
  that the channels are what the builder makes of pixel and setting; the work is in
  lemmas about the builder. `smoothstep` is a fraction between 0 and 1
  (`StepIsFraction`) and a rounded part of a tone is at most the tone
  (`RoundedBelow`), so a split in two keeps its tone (`SplitInTwo`) and one in three
  loses none, and makes none if its windows follow each other (`SplitInThree`);
  `GreyKept` is the same for the grey component replacement. `Built` writes out the
  channels of each mode, and `TablesAgree` and `PlatesFound` compare the tables.
  Assumed is `ToneAssumption`: tones, windows and the numbers of the grey component
  replacement are bytes and fades are percentages, as `getGcrParams` and its neighbours clamp them. No order of the
  windows is assumed, for no page enforces one: where they overlap, black is only
  not lost.
* `RasterSpoolProofs` proves, for every width, height and channel count that the code
  accepts, that a line's bytes hold its dots (`LineHoldsItsDots`), that lines lie
  behind the header and inside the body (`LinesLieInTheBody`) and share no byte
  (`LinesAreDisjoint`). `WordAssumption` asks of the large type only that it holds
  the header and the square of the largest int, as 64 bits do of 32: no product of the
  code then wraps.
  For the bounded backend it proves `ScreenInvariant`, and from it `FrameIsReproduced`
  and `PublishedIsWhole`. `PlaceInv` says at which row and channel each step can
  stand, `FilesInv` which files are there and that every line of the partial and the
  published one is the whole frame's, `RowsInv` that the canonical file holds the rows
  of the source, and `WindowsInv` that the rolling window of a channel holds its
  last rows, the first of them as the whole-frame screen leaves it and the others as
  they were classified. The last is the core: promotion changes a row in
  place while its neighbours are still to come, and both backends must do it in an
  order that cannot be told apart. What the recursive functions over rows and columns
  compute is compared by the least place where two of them differ (`LeastNumber`).
  `ScreenAssumption` asks that sizes are positive, that channels count from 0, and
  that a header is no larger than the storage reserved for the masks, as 4096 bytes
  are beside masks of 512 x 12000 pixels.
* `DeskProofs` proves `DeskInvariance`, and from it `SettingsAreRestored`,
  `UndoIsOwn` and `JobsKeepPictures`. For the settings the core is a round trip: what
  a save stores, a load returns (`RoundTrip`), because every setter has normalised what it keeps and
  normalising twice changes nothing; and an old file loads into range
  (`OldFilesLoad`). `FileInv` then says that a whole file is the last complete save.
  For the editor `HistoryInv` describes the stacks link by link, which `UndoEdit` and
  `RedoEdit` preserve where the property's one line of pictures is put together from
  both, and `OwnFiles` carries it from page to page through the files. For the job list
  `ListInv` says that rows and selection are what was added and not removed, in
  order, `PictureInv` that a row whose file no other has named shows its own picture
  unless that went astray, `PageInv` that the details page holds no file of another
  row alone (so an edit that misses its job spoils nobody's picture but a shared one),
  `NameInv` that no row names the preview,
  and `FamilyInv` that a job which was not loaded from a file descends, by imposing,
  from a picture of its own, which keeps two rows apart where their ids do not. Removing,
  importing and loading are folds; each is unrolled by the step that feeds it
  (`OthersStay`: removing from the last to the first leaves the others in order;
  `OneEnumeration`: a set of rows has one ascending list). Assumed are
  only that the modes are among the six of the code (`ModesAssumption`), that typed
  numbers are integers (`NumbersAssumption`) and that imposed files are counted
  from 0 (`EditorAssumption`).

Only model-checked is liveness: `UploadsEnd`, `RequestsAreAnswered`,
`SubmissionsEnd`, `ClicksReturn` and `OperationsEnd`. The prover has no rule for
fairness and ENABLED here. Every invariant, every action property and both
refinements of the passing runs are proved.

## 5. Not modelled

Left out of the modelled parts, and why:

* Service and client: contents of messages, printer state in replies, wording of
  errors, frame decoding (`PrinterServiceProtocol.cpp` holds no state; a frame that
  does not decode is a request refused), maintenance commands that only call the
  vendor library (cleaning, pump, axes, alignment, UV lamps), time as a number, the
  Android bridge's transport (the same handlers), two processes that race for the
  lock file, the client's asynchronous maintenance calls and its cache of the last
  reply, which is only displayed.
* Session: sockets and patches under `ConnectPrinter` on aarch64
  (`NocaiArmStaleSessionRecovery.cpp`, `NocaiArmCommandTagCompatibility.cpp`): kernel
  objects and machine code, of which the model keeps that preparing may fail.
* Output: the vendor's PRN header, the contents of ICC and DeviceLink conversions,
  the registries of profiles, the numbers of a transfer curve and the parsing of its
  XML, the memory figure by which a backend is chosen (a free choice in the model),
  picture decoding (`ImageLoader.cpp`, `ColorProfile.cpp`: library calls).
* Desk: what an edit does to pixels; the sliders' last values; settings of a job no
  property is about; `ImageImportManager.cpp` (the Android picker's bridge) and
  `AssetManager.cpp` (copies at the start).
* `ThemeManager.cpp`, `AppStrings.cpp`, `PlatformCapabilities.cpp` (read once),
  `platform/*/PrintJobOutput.cpp` (queries of CUPS), layout of the pages,
  `tools/nocai_x33_debug` (a diagnostic program of its own).

What would come next: a module for two starting service processes and the lock, with
`restartService` as users ask for it; the PRN file against the spool it is copied
from; the tones of the pipeline and its screen in one module, so that what is
proved of a pixel and of a frame becomes one theorem about a picture.

## 6. Noticed while modelling

No doc, comment or test of the repository says otherwise of these, so they are not
findings; where a model reaches this far it does what the code does.

* The bounded multi-ink backend chooses a plate by its path: where white and varnish
  name one file and white is not in plate mode, the varnish plate is not loaded.
* The error text of `loadTransferCurveXml` does not reach the user; a colour that is
  absent from the XML leaves its dark and its light ink both uncurved, which prints
  the ink twice in the six-, eight- and ten-ink modes.
* With a curve, white coverage mixes cyan and magenta from before it with yellow and
  black from after it.
* `std::bad_alloc` in loading or preparing ends a run without its report (`lost` in
  `RasterJob`).
* A second run's start takes back the first one's cancel request, and the first end
  clears the page's busy state for both.
* The imposition page ignores what `applyImpositionEdits` returns and names the new
  file in any case (`astray` again); its strokes go to whatever picture the editor still holds, and
  into its undo history (`stray` in `ImageEditor`).
* The details page gives the editor the file it holds itself: the temporary preview of
  a PDF, or, after an imposition, the file the job named before (`JobDetailsView.qml`
  90-101, 132-145, 616-629). Such an edit is saved and the job does not show it; the
  row goes `astray` in `PrintJobModel`.
* Pictures and settings are saved in place: a crash leaves a cut file (`NotWritten`,
  and the state between the two steps of a save). An automatic save also keeps the
  edits the page has not confirmed.
* Loading one JSON file twice lists two rows with one id and one picture file; two
  pictures dropped within a millisecond may share an id, and saving then keeps one of
  their pictures. Pictures of removed rows stay in the job directory.
* Split windows the page allows may overlap, and then dark and light ink do not
  add up to the tone they were split from.
