---------------------------- MODULE NocaiSession ----------------------------
(***************************************************************************)
(* NocaiDirectPrintClient in the process that uses the vendor library: its *)
(* loading and unloading, search, selection and connection, a job from     *)
(* InitPrinter to ClosePrint with its print height and origin, and the     *)
(* maintenance commands that touch the same state of the controller.       *)
(*                                                                         *)
(* m_mutex and the service's event loop make the operations exclude each   *)
(* other; `pc` is where the one under way stands, each step one vendor     *)
(* call with the code up to the next.  Only an abort comes in between.  (A *)
(* one-frame job on aarch64 lets more in: see PrinterServiceServer.)       *)
(* On x86-64 a job runs in a worker process: the service unloads its copy  *)
(* first, so that the client's variables are always those of one process.  *)
(*                                                                         *)
(* What a vendor call does is known only from how the code uses it: each   *)
(* may fail, a setter that fails or succeeds may or may not have written.  *)
(***************************************************************************)
EXTENDS Integers

CONSTANTS
    Builds,       \* the values of `arm`: is the build the aarch64 one?
    MaxPrinters,  \* printers a search can find
    Lines,        \* plane lines of a job
    MaxOffset,    \* largest print offset of a job
    MaxHeight,    \* largest media height
    MaxCrashes    \* bound on abrupt ends of the process

ASSUME SessionAssumption ==
    /\ Builds \subseteq BOOLEAN
    /\ MaxPrinters \in Nat /\ Lines \in Nat
    /\ MaxOffset \in Nat /\ MaxHeight \in Nat
    /\ MaxCrashes \in Nat

None == -1         \* no printer, and no media height
Printers == 0 .. MaxPrinters - 1
Offsets == 0 .. MaxOffset
Heights == 0 .. MaxHeight

VARIABLES
    arm,        \* is this the aarch64 build?
    lib,        \* m_library and m_symbolsResolved
    found,      \* the size of m_printers
    selected,   \* m_selectedPrinterIndex
    connected,  \* m_connected
    chosen,     \* vendor library: the printer it has selected
    control,    \* vendor library: the printer its control session was opened to
    data,       \* vendor library: how far the calls made have taken the job
    origin,     \* controller: print origin, persistent
    z,          \* controller: height of the print table
    target,     \* controller: height the table moves to
    pc,         \* where the operation under way stands
    req,        \* what it was asked to do
    armed,      \* nonzeroJobOriginActive
    line,       \* lines sent of the job
    cancel,     \* m_cancelRequested, or the worker's cancel file
    result,     \* what the last operation reported
    worker,     \* does a worker process run the operation, and is it a job yet?
    crashes,    \* abrupt ends so far
    rechosen    \* history: another printer was chosen since the session opened

clientVars == <<lib, found, selected, connected>>
vendorVars == <<chosen, control, data, rechosen>>
tableVars  == <<z, target>>
procVars   == <<arm, worker, crashes>>
jobVars    == <<armed, line, cancel>>
vars == <<clientVars, vendorVars, origin, tableVars, pc, req, result, jobVars, procVars>>

Kinds == {"refresh", "choose", "connect", "setup", "reconnect", "print"}
Ask == [kind : Kinds, printer : Printers \cup {None}, height : Heights \cup {None},
        offset : Offsets, x33 : BOOLEAN]
Plain(kind, p) ==
    [kind |-> kind, printer |-> p, height |-> None, offset |-> 0, x33 |-> FALSE]

Init ==
    /\ arm \in Builds
    /\ lib = "unloaded" /\ found = 0 /\ selected = None /\ connected = FALSE
    /\ chosen = None /\ control = None /\ data = "none" /\ rechosen = FALSE
    /\ origin \in Offsets
    /\ z \in Heights /\ target = z
    /\ pc = "idle" /\ req = Plain("refresh", None) /\ result = FALSE
    /\ armed = FALSE /\ line = 0 /\ cancel = FALSE
    /\ worker = "none" /\ crashes = 0

-----------------------------------------------------------------------------
(* Common parts.                                                           *)

Goto(place) == pc' = place /\ UNCHANGED result

\* The operation returns; a worker process then still has to exit.
Return(ok) ==
    /\ pc' = IF worker = "none" THEN "idle" ELSE "exit"
    /\ result' = ok

\* ensureLoaded; a library that failed to unload stays loaded but unusable.
EnsureLoaded == lib /= "wedged" /\ lib' = "loaded"

\* Nothing of the session is left, in the client or in the library.
Forgotten ==
    /\ found' = 0 /\ selected' = None /\ connected' = FALSE
    /\ chosen' = None /\ control' = None /\ data' = "none" /\ rechosen' = FALSE

UnloadSdkSession(done) ==
    /\ Forgotten
    /\ lib' = IF done \/ lib = "unloaded" THEN "unloaded" ELSE "wedged"

\* What the controller keeps after a call that was to set the origin.
MayWrite(value) == origin' \in {origin, value}

-----------------------------------------------------------------------------
(* Requests, each at rest.                                                 *)

\* isAvailable, asked for with every reply.
IsAvailable ==
    /\ pc = "idle" /\ lib = "unloaded"
    /\ EnsureLoaded
    /\ UNCHANGED <<found, selected, connected, vendorVars, origin, tableVars, pc,
                   req, result, jobVars, procVars>>

\* setSdkRootPath or setAutoDiscoverSdk with another value, the destructor.
Configure ==
    /\ pc = "idle"
    /\ \E done \in BOOLEAN : UnloadSdkSession(done)
    /\ UNCHANGED <<origin, tableVars, pc, req, result, jobVars, procVars>>

\* refreshPrinters, choosePrinter, connectPrinter, and the maintenance action that
\* does all three.
SetUp(kind, p) ==
    /\ pc = "idle"
    /\ kind \in {"choose", "setup"} \/ p = None
    /\ kind = "choose" => p /= None
    /\ req' = Plain(kind, p)
    /\ pc' = IF kind \in {"refresh", "setup"} THEN "search" ELSE "choose"
    /\ result' = FALSE
    /\ UNCHANGED <<clientVars, vendorVars, origin, tableVars, jobVars, procVars>>

\* reconnectPrinter, when there is no session or the controller does not answer.
Reconnect(p) ==
    /\ pc = "idle"
    /\ req' = Plain("reconnect", p)
    /\ \E done \in BOOLEAN :
          /\ UnloadSdkSession(done)
          /\ pc' = IF lib' = "wedged" THEN "idle" ELSE "search"
    /\ result' = FALSE
    /\ UNCHANGED <<origin, tableVars, jobVars, procVars>>

\* submitSpooledJob.  In the process itself the first search is left out when there
\* is a list of printers; a worker process starts from nothing and always searches.
\* The session is given up for the worker, which may then fail to start; a job that
\* is refused before that ends at once.
Submit(r) ==
    /\ pc = "idle"
    /\ req' = r /\ cancel' = FALSE /\ result' = FALSE
    /\ \/ /\ arm /\ EnsureLoaded
          /\ pc' = IF ~connected /\ found = 0 THEN "search" ELSE "choose"
          /\ UNCHANGED <<found, selected, connected, vendorVars, worker>>
       \/ /\ ~arm
          /\ \E done \in BOOLEAN : UnloadSdkSession(done)
          /\ \/ lib' /= "wedged" /\ pc' = "search" /\ worker' = "starting"
             \/ pc' = "idle" /\ worker' = "none"
       \/ pc' = "idle" /\ UNCHANGED <<clientVars, vendorVars, worker>>
    /\ UNCHANGED <<origin, tableVars, armed, line, arm, crashes>>

\* The maintenance commands on a printer that has been chosen; a refused one may have
\* written all the same.  printNozzleCheck sets the origin to zero first, and prints
\* its pattern only if it reads zero back.
PrintNozzleCheck ==
    /\ pc = "idle" /\ chosen /= None
    /\ EnsureLoaded
    /\ MayWrite(0)
    /\ UNCHANGED <<found, selected, connected, vendorVars, tableVars, pc, req,
                   result, jobVars, procVars>>

SetPrintXYValue(value) ==
    /\ pc = "idle" /\ chosen /= None
    /\ EnsureLoaded
    /\ MayWrite(value)
    /\ UNCHANGED <<found, selected, connected, vendorVars, tableVars, pc, req,
                   result, jobVars, procVars>>

\* setPrintHeight starts a movement of the table and returns.
SetPrintHeight(h) ==
    /\ pc = "idle" /\ chosen /= None
    /\ EnsureLoaded
    /\ target' \in {target, h}
    /\ UNCHANGED <<found, selected, connected, vendorVars, origin, z, pc, req,
                   result, jobVars, procVars>>

\* abortPrint at rest, inside the line loop (which processes events), or as the
\* cancel file of a worker.
AbortPrint ==
    /\ \/ pc = "idle" /\ (EnsureLoaded \/ UNCHANGED lib)
       \/ pc = "send" /\ worker = "none" /\ UNCHANGED lib
       \/ worker /= "none" /\ pc /= "exit" /\ UNCHANGED lib
    /\ cancel' = TRUE
    /\ UNCHANGED <<found, selected, connected, vendorVars, origin, tableVars, pc, req,
                   result, armed, line, procVars>>

-----------------------------------------------------------------------------
(* Search, selection, connection.                                          *)

NeverKeepsSession == FALSE

\* On aarch64 a connected client keeps its session and its list.
KeepsSession == arm /\ connected

AfterSearch ==
    \/ req.kind = "refresh" /\ Return(TRUE) /\ UNCHANGED worker
    \/ req.kind /= "refresh" /\ worker /= "starting" /\ Goto("choose") /\ UNCHANGED worker
    \/ /\ worker = "starting" /\ worker' = "printing"
       /\ Goto(IF found' = 0 THEN "search" ELSE "choose")

KeepsSelection == connected' = FALSE /\ UNCHANGED selected

\* What a search that reaches the vendor library leaves of the old session.
FreshSearch == selected' = None /\ connected' = FALSE

RefreshPrinters ==
    /\ pc = "search"
    /\ \/ /\ KeepsSession /\ EnsureLoaded
          /\ AfterSearch
          /\ UNCHANGED <<found, selected, connected, chosen>>
       \/ /\ ~KeepsSession /\ EnsureLoaded
          /\ FreshSearch /\ chosen' = None
          /\ \/ found' \in 0 .. MaxPrinters /\ AfterSearch
             \/ found' = 0 /\ Return(FALSE) /\ UNCHANGED worker
       \/ \* not loaded, or no permission to search
          /\ ~KeepsSession
          /\ Return(FALSE)
          /\ UNCHANGED <<clientVars, chosen, worker>>
    /\ UNCHANGED <<control, data, rechosen, origin, tableVars, req, jobVars, arm, crashes>>

\* The index to select: the one asked for (for a reconnect, if it was found), the
\* selected one, the only one.
Asked == IF req.kind = "reconnect" /\ req.printer >= found THEN None ELSE req.printer
Wanted ==
    IF Asked /= None THEN Asked
    ELSE IF selected /= None THEN selected
    ELSE IF found = 1 THEN 0 ELSE None

AfterChoice == IF req.kind = "choose" THEN Return(TRUE) ELSE Goto("connect")

ChoosePrinter ==
    /\ pc = "choose"
    /\ \/ /\ EnsureLoaded
          /\ Wanted = selected /\ selected /= None
          /\ AfterChoice
          /\ UNCHANGED <<selected, connected, chosen, rechosen>>
       \/ /\ EnsureLoaded
          /\ Wanted \notin {None, selected}
          /\ selected' = Wanted /\ connected' = FALSE
          /\ chosen' = Wanted
          /\ rechosen' = (rechosen \/ control \notin {None, Wanted})
          /\ AfterChoice
       \/ \* not loaded, no index, or refused by the library
          /\ Wanted = None \/ Wanted /= selected
          /\ Return(FALSE)
          /\ UNCHANGED <<lib, selected, connected, chosen, rechosen>>
    /\ UNCHANGED <<found, control, data, origin, tableVars, req, jobVars, procVars>>

AfterConnection == IF req.kind = "print" THEN Goto("height") ELSE Return(TRUE)

\* A job goes on with the session there is; so does every caller on aarch64.
AlreadyConnected == connected /\ (arm \/ req.kind = "print")

ConnectPrinter ==
    /\ pc = "connect"
    /\ \/ /\ AlreadyConnected
          /\ AfterConnection
          /\ UNCHANGED <<selected, connected, control, rechosen>>
       \/ /\ ~AlreadyConnected
          /\ connected' = TRUE /\ control' = chosen /\ rechosen' = FALSE
          /\ AfterConnection
          /\ UNCHANGED selected
       \/ /\ ~AlreadyConnected
          /\ connected' = FALSE /\ selected' = None
          /\ control' = None /\ rechosen' = FALSE
          /\ Return(FALSE)
       \/ \* the preparation of the interface fails
          /\ arm /\ ~AlreadyConnected
          /\ Return(FALSE)
          /\ UNCHANGED <<selected, connected, control, rechosen>>
    /\ UNCHANGED <<lib, found, chosen, data, origin, tableVars, req, jobVars, procVars>>

-----------------------------------------------------------------------------
(* The job: printPackedJob after the connection.                           *)

\* Height: nothing to do without one, or if the controller reports it already.
ReadyAtHeight == req.height \in {None, z}

SetJobHeight ==
    /\ pc = "height"
    /\ \/ /\ ReadyAtHeight
          /\ Goto("settings")
          /\ UNCHANGED target
       \/ /\ req.height /= None      \* it differs, or could not be read
          /\ target' = req.height
          /\ Goto("await")
       \/ /\ req.height /= None
          /\ Goto("cleanup")
          /\ UNCHANGED target
    /\ UNCHANGED <<clientVars, vendorVars, origin, z, req, jobVars, procVars>>

WaitsForever == FALSE

\* 240 polls, a quarter of a second each, then the job fails.
GivesUpWaiting == Goto("cleanup")

AwaitHeight ==
    /\ pc = "await"
    /\ (ReadyAtHeight /\ Goto("settings")) \/ GivesUpWaiting
    /\ UNCHANGED <<clientVars, vendorVars, origin, tableVars, req, jobVars, procVars>>

OriginLast == FALSE

\* On aarch64 the origin comes before InitPrinter, on x86-64 after it.  Only jobs
\* for the X-33 have one.
OriginFirst == arm
BeforeInit == IF req.x33 /\ OriginFirst THEN "origin" ELSE "init"
AfterInit == IF req.x33 /\ ~OriginFirst THEN "origin" ELSE "start"

ApplySettings ==
    /\ pc = "settings"
    /\ Goto(BeforeInit) \/ (Goto("cleanup") /\ ~(arm /\ req.x33))
    /\ UNCHANGED <<clientVars, vendorVars, origin, tableVars, req, jobVars, procVars>>

OriginTakenOnTrust == TRUE

\* prepareX33PrintOrigin: read, set (on aarch64 only if it differs), read back.
OriginConfirmed == origin' = req.offset

PrepareOrigin ==
    /\ pc = "origin"
    /\ armed' = (req.offset /= 0)
    /\ MayWrite(req.offset)
    /\ \/ OriginConfirmed /\ Goto(IF OriginFirst THEN "init" ELSE "start")
       \/ Goto("cleanup")
    /\ UNCHANGED <<clientVars, vendorVars, tableVars, req, line, cancel, procVars>>

InitPrinter ==
    /\ pc = "init"
    /\ \/ data' = "inited" /\ Goto(AfterInit)
       \/ Goto("cleanup") /\ UNCHANGED data
    /\ UNCHANGED <<clientVars, chosen, control, rechosen, origin, tableVars, req,
                   jobVars, procVars>>

\* A refused StartPrint is closed; only aarch64 keeps the connection.
KeepsConnection == arm

StartPrint ==
    /\ pc = "start"
    /\ \/ /\ data' = "started" /\ line' = 0
          /\ Goto("check")
          /\ UNCHANGED connected
       \/ /\ data' = "none" /\ connected' = (connected /\ KeepsConnection)
          /\ Goto("cleanup")
          /\ UNCHANGED line
    /\ UNCHANGED <<lib, found, selected, chosen, control, rechosen, origin, tableVars,
                   req, armed, cancel, procVars>>

OneLineMore == line <= Lines
MoreLines == line < Lines

CheckLine ==
    /\ pc = "check"
    /\ \/ ~MoreLines /\ Goto("end")
       \/ MoreLines /\ cancel /\ Goto("abort")
       \/ MoreLines /\ ~cancel /\ Goto("send")
    /\ UNCHANGED <<clientVars, vendorVars, origin, tableVars, req, jobVars, procVars>>

SendLine ==
    /\ pc = "send"
    /\ \/ line' = line + 1 /\ Goto("check")
       \/ Goto("abort") /\ UNCHANGED line
    /\ UNCHANGED <<clientVars, vendorVars, origin, tableVars, req, armed, cancel, procVars>>

EndPrint ==
    /\ pc = "end"
    /\ \/ data' = "ended" /\ Goto("close")
       \/ Goto("abort") /\ UNCHANGED data
    /\ UNCHANGED <<clientVars, chosen, control, rechosen, origin, tableVars, req,
                   jobVars, procVars>>

\* AbortPrint, at most ten polls of the status, ClosePrint.
AbortActivePrint ==
    /\ pc = "abort"
    /\ data' = "none"
    /\ Goto("cleanup")
    /\ UNCHANGED <<clientVars, chosen, control, rechosen, origin, tableVars, req,
                   jobVars, procVars>>

ClosePrint ==
    /\ pc = "close"
    /\ data' = "none"
    /\ Goto("reset") \/ Goto("cleanup")
    /\ UNCHANGED <<clientVars, chosen, control, rechosen, origin, tableVars, req,
                   jobVars, procVars>>

RestoreTakenOnTrust == TRUE

\* resetJobOrigin(false): a job whose offset cannot be taken back has failed.
OriginRestored == origin' = 0

ResetJobOrigin ==
    /\ pc = "reset"
    /\ armed' = FALSE
    /\ \/ ~armed /\ Return(TRUE) /\ UNCHANGED origin
       \/ armed /\ MayWrite(0) /\ OriginRestored /\ Return(TRUE)
       \/ armed /\ MayWrite(0) /\ Return(FALSE)
    /\ UNCHANGED <<clientVars, vendorVars, tableVars, req, line, cancel, procVars>>

\* The scope guard: resetJobOrigin(true) on every failure.
CleanUp ==
    /\ pc = "cleanup"
    /\ armed' = FALSE
    /\ IF armed THEN MayWrite(0) ELSE UNCHANGED origin
    /\ Return(FALSE)
    /\ UNCHANGED <<clientVars, vendorVars, tableVars, req, line, cancel, procVars>>

\* The worker's client and the worker itself end; the service takes note.
WorkerExits ==
    /\ pc = "exit"
    /\ worker' = "none"
    /\ Forgotten /\ lib' = "unloaded"
    /\ Goto("idle")
    /\ UNCHANGED <<origin, tableVars, req, jobVars, arm, crashes>>

-----------------------------------------------------------------------------
(* Around the process.                                                     *)

TableMoves ==
    /\ z /= target
    /\ z' = IF z < target THEN z + 1 ELSE z - 1
    /\ UNCHANGED <<clientVars, vendorVars, origin, target, pc, req, result, jobVars,
                   procVars>>

\* The worker crashes in the vendor library, or the process is killed and started
\* again.  The controller remembers.
Crash ==
    /\ crashes < MaxCrashes
    /\ crashes' = crashes + 1
    /\ Forgotten /\ lib' = "unloaded"
    /\ pc' = "idle" /\ result' = FALSE
    /\ worker' = "none" /\ armed' = FALSE /\ cancel' = FALSE
    /\ UNCHANGED <<origin, tableVars, req, line, arm>>

-----------------------------------------------------------------------------
Request ==
    \/ IsAvailable \/ Configure \/ PrintNozzleCheck \/ AbortPrint
    \/ \E p \in Printers \cup {None} :
          (\E kind \in {"refresh", "choose", "connect", "setup"} : SetUp(kind, p)) \/ Reconnect(p)
    \/ \E r \in Ask : r.kind = "print" /\ Submit(r)
    \/ \E value \in Offsets : SetPrintXYValue(value)
    \/ \E h \in Heights : SetPrintHeight(h)

OperationStep ==
    \/ RefreshPrinters \/ ChoosePrinter \/ ConnectPrinter
    \/ SetJobHeight \/ AwaitHeight \/ ApplySettings \/ PrepareOrigin
    \/ InitPrinter \/ StartPrint \/ CheckLine \/ SendLine \/ EndPrint
    \/ AbortActivePrint \/ ClosePrint \/ ResetJobOrigin \/ CleanUp
    \/ WorkerExits

Next == Request \/ OperationStep \/ TableMoves \/ Crash

Spec == Init /\ [][Next]_vars

\* The code that runs goes on: every vendor call returns, every wait is bounded.
FairSpec == Spec /\ WF_vars(OperationStep)

-----------------------------------------------------------------------------
(* Type.                                                                   *)

\* Every variable holds a value of the kind the code gives it, and no more lines
\* are counted than the job has.
TypeOK ==
    /\ arm \in Builds
    /\ lib \in {"unloaded", "loaded", "wedged"}
    /\ found \in 0 .. MaxPrinters
    /\ selected \in Printers \cup {None} /\ connected \in BOOLEAN
    /\ chosen \in Printers \cup {None} /\ control \in Printers \cup {None}
    /\ data \in {"none", "inited", "started", "ended"} /\ rechosen \in BOOLEAN
    /\ origin \in Offsets /\ z \in Heights /\ target \in Heights
    /\ pc \in {"idle", "search", "choose", "connect", "height", "await", "settings",
               "origin", "init", "start", "check", "send", "end", "abort", "close",
               "reset", "cleanup", "exit"}
    /\ req \in Ask /\ result \in BOOLEAN
    /\ armed \in BOOLEAN /\ line \in 0 .. Lines /\ cancel \in BOOLEAN
    /\ worker \in {"none", "starting", "printing"}
    /\ crashes \in 0 .. MaxCrashes

-----------------------------------------------------------------------------
(* Safety.                                                                 *)

\* What the client remembers is what the library knows: a selection it would skip
\* repeating is the library's own, and a session it would go on with is open, to
\* the selected printer.  (Refreshes, refusals, failed connections, unloads and
\* crashes in any order.)
ViewIsTrue ==
    /\ selected /= None => lib = "loaded" /\ chosen = selected
    /\ connected => selected /= None /\ control = selected

\* From StartPrint to ClosePrint the controller's origin is the job's own offset,
\* whatever earlier jobs, maintenance or crashes left behind.
Streaming == pc \in {"check", "send", "end", "close"}
StartsAtItsOwnOrigin == Streaming /\ req.x33 => origin = req.offset

\* A print reported as done has taken its offset back: the controller is at its
\* machine origin.
ReportsPrint == req.kind = "print" /\ req.x33 /\ ~result /\ result'
PrintedLeavesNoOffset == [][ReportsPrint => origin' = 0]_vars

\* On aarch64 the client never forgets an open control session, which nothing could
\* close or open again, unless the user chose another printer since: not by a
\* refresh, a repeated connect or selection, a refused call or a failed job.
RemembersItsSession == arm /\ control /= None /\ ~rechosen => connected

\* No job starts while the table moves: the vendor refuses it, or prints at a wrong
\* height.  The comment at the wait for the height says why.
NoStartWhileTableMoves == [][StartPrint /\ data' = "started" => z = target]_vars

\* Every behaviour is one the vendor library allows: searches, selections and
\* connections only between jobs, every started job closed, the origin never
\* written under it, InitPrinter with a session to the selected printer and, on
\* aarch64, directly followed by StartPrint.
Vendor == INSTANCE VendorSequence WITH
    NoPrinter <- None, Origins <- Offsets,
    strict <- arm, session <- control, job <- data
FollowsVendorSequence == Vendor!Spec

-----------------------------------------------------------------------------
(* What makes the safety properties inductive.                             *)

\* A job runs on a session of its own process; on x86-64 that is a worker's.
JobPlaces == {"height", "await", "settings", "origin", "init", "start", "check",
              "send", "end", "abort", "close", "reset"}
ProcessInv ==
    /\ arm \/ pc = "idle" => worker = "none"
    /\ pc = "exit" => worker /= "none"
    /\ worker = "starting" => pc \in {"search", "exit"}
    /\ pc \in JobPlaces => connected
    /\ pc \in JobPlaces \cup {"cleanup"} => req.kind = "print"
    /\ req.kind = "print" /\ pc /= "idle" => arm \/ worker /= "none"
    /\ pc = "connect" => selected /= None

\* How far the vendor library's job is follows from the place in the code; it is
\* left initialized only where a worker is about to exit.
DataInv ==
    /\ pc \in {"check", "send", "end", "abort"} => data = "started"
    /\ pc = "close" => data = "ended"
    /\ pc = "start" \/ (pc = "origin" /\ ~arm) => data = "inited"
    /\ pc \in {"cleanup", "exit"} => data = "none" \/ (data = "inited" /\ ~arm)
    /\ pc \in {"idle", "search", "choose", "connect", "height", "await", "settings",
               "init", "reset"} \/ (pc = "origin" /\ arm) => data = "none"

\* The job's offset is in the controller, and known to have to be taken back.
OffsetInv ==
    /\ pc \in {"start", "check", "send", "end", "close", "reset"} \/ (pc = "init" /\ arm) =>
          IF req.x33 THEN origin = req.offset /\ (armed <=> req.offset /= 0) ELSE ~armed
    /\ pc \in {"idle", "search", "choose", "connect", "height", "await", "settings",
               "origin", "exit"} \/ (pc = "init" /\ ~arm) => ~armed
    /\ pc = "origin" => req.x33

\* The inductive invariant.
SessionInv ==
    /\ TypeOK
    /\ pc = "send" => line < Lines
    /\ ViewIsTrue /\ RemembersItsSession
    /\ ProcessInv /\ DataInv /\ OffsetInv

-----------------------------------------------------------------------------
(* Liveness.                                                               *)

\* Every operation returns, also a job whose table never arrives and a worker that
\* finds no printer.
OperationsEnd == pc /= "idle" ~> pc = "idle"

=============================================================================
