------------------------ MODULE PrinterServiceServer ------------------------
(***************************************************************************)
(* The printer-service process: PrinterServiceServer (the event loop, the  *)
(* upload table, the print gate) on top of the job submission of           *)
(* NocaiDirectPrintClient.                                                 *)
(*                                                                         *)
(* One request travels on one connection.  A handler is one step, except   *)
(* the two that print: they stay on the call stack for the whole job, and  *)
(* while they wait they process further events, so that other handlers run *)
(* nested inside them.  `stack` holds the printing handlers, the innermost *)
(* first.                                                                  *)
(*                                                                         *)
(* InProcess is the aarch64 build, which prints inside the service; the    *)
(* other build hands the job to a worker process, `worker`.                *)
(***************************************************************************)
EXTENDS Integers, Sequences

CONSTANTS
    Conns,        \* connection slots: how many requests are in flight at once
    Uploads,      \* the UUIDs beginRasterUpload may draw; none is drawn twice
    NoUpload,     \* "no upload", in replies and in jobs that are not uploads
    Chunks,       \* chunks of a complete raster file (expectedBytes)
    PlaneLines,   \* plane lines of a job (Height * Colors)
    EventStride,  \* plane lines between two processEvents calls (8 in the code)
    InProcess,    \* the aarch64 build
    Legacy,       \* do clients send the one-frame submitJob?
    MaxCrashes    \* bound on abrupt ends of the process

ASSUME ServerAssumption ==
    /\ Chunks \in Nat \ {0}
    /\ PlaneLines \in Nat \ {0}
    /\ EventStride \in Nat \ {0}
    /\ InProcess \in BOOLEAN
    /\ Legacy \in BOOLEAN
    /\ MaxCrashes \in Nat
    /\ NoUpload \notin Uploads

VARIABLES
    up,              \* does the process run (and hold its lock file)?
    quitting,        \* QCoreApplication::quit has been called
    conn,            \* what each connection slot carries
    table,           \* keys of m_uploads
    received,        \* receivedBytes of an entry of m_uploads
    stale,           \* entries whose lastActivityMs is past the expiry cutoff
    minted,          \* UUIDs already drawn
    partial,         \* ids with an <id>.upload.partial file
    final,           \* ids with an <id>.pfrs file
    body,            \* the chunks in the file of an id
    stack,           \* printing handlers, innermost first
    printInProgress, \* m_printInProgress
    cancelRequested, \* m_cancelRequested of the service's backend
    cancelFile,      \* does the worker's cancel.request file exist?
    worker,          \* the isolated print worker
    sdk,             \* is the vendor library loaded in the service process?
    orphan,          \* a worker that outlived the service which started it
    crashes,         \* abrupt ends so far
    outcome,         \* history: what became of a job that was handed over
    aborted,         \* history: uploads an abort was served for while they printed
    late,            \* history: lines of the open job sent after an abort of it
    abandoned        \* history: uploads being printed when the process was killed

loopVars   == <<up, quitting, crashes>>
uploadVars == <<table, received, stale, minted>>
diskVars   == <<partial, final, body>>
jobVars    == <<stack, printInProgress, cancelRequested, cancelFile, worker, orphan>>
histVars   == <<outcome, aborted, late, abandoned>>
vars == <<loopVars, conn, uploadVars, diskVars, jobVars, sdk, histVars>>

-----------------------------------------------------------------------------
(* Requests and connections.                                               *)

\* A chunk is named by its place in the submitted file; 0 is a chunk that is
\* no chunk of that file.
Garbled == 0
ChunkNames == 0 .. Chunks
Complete == [i \in 1 .. Chunks |-> i]

Plain == [cmd : {"ping", "controller", "abortPrint", "beginRasterUpload",
                 "submitJob", "shutdown"}]
OnUpload == [cmd : {"cancelRasterUpload", "commitRasterUpload"}, upload : Uploads]
Append_ == [cmd : {"appendRasterChunk"}, upload : Uploads,
            offset : 0 .. Chunks, chunk : ChunkNames]
Request == Plain \cup OnUpload \cup Append_

Free == [state |-> "free"]
Waiting(r) == [state |-> "waiting", req |-> r]
Serving == [state |-> "serving"]
Answered(ok, u) == [state |-> "answered", ok |-> ok, upload |-> u]

ConnState ==
    {Free, Serving}
        \cup {Waiting(r) : r \in Request}
        \cup {Answered(ok, u) : ok \in BOOLEAN, u \in Uploads \cup {NoUpload}}

LoadSdkAnyTime == sdk' \in {sdk, TRUE}

\* serviceState() is part of every reply and asks isAvailable(), which may load
\* the vendor library, unless the gate is closed.
MayLoadSdk == IF printInProgress THEN sdk' = sdk ELSE sdk' \in {sdk, TRUE}

Reply(k, ok, u) ==
    /\ conn' = [conn EXCEPT ![k] = Answered(ok, u)]
    /\ MayLoadSdk

-----------------------------------------------------------------------------
(* The printing handlers on the call stack.                                *)

FrameOf(kind, U) ==
    [kind : {kind}, upload : U, conn : Conns, line : Nat,
     pc : {"launch", "wait", "setup", "check", "events", "send", "finish"}]
Frame == FrameOf("spooled", Uploads) \cup FrameOf("legacy", {NoUpload})

Worker == [pc : {"none", "setup", "check", "send", "finish", "exited"},
           line : Nat, ok : BOOLEAN]
NoWorker == [pc |-> "none", line |-> 0, ok |-> FALSE]
WorkerRuns == worker.pc \in {"setup", "check", "send", "finish"}

Top == Head(stack)
Push(f) == stack' = <<f>> \o stack
Step(pc) == stack' = <<[Top EXCEPT !.pc = pc]>> \o Tail(stack)

OpenFrame(kind, k, u) ==
    [kind |-> kind, conn |-> k, upload |-> u,
     pc |-> IF InProcess THEN "setup" ELSE "launch", line |-> 0]

EventPointWhileWaiting == stack /= <<>> => Top.pc \in {"events", "wait"}

\* The event loop runs: at rest, every EventStride lines of an in-process job,
\* and while a spooled job waits for its worker.  The one-frame job waits for its
\* worker without processing events.
EventPoint ==
    stack /= <<>> => Top.pc = "events" \/ (Top.pc = "wait" /\ Top.kind = "spooled")

\* abortPrint writes a cancel file while this path is set, which is from before
\* the launch of a spooled job's worker until the handler returns.
IsolatedCancelPath == stack /= <<>> /\ Top.kind = "spooled" /\ ~InProcess

Serves(k, cmd) ==
    /\ up /\ EventPoint
    /\ conn[k].state = "waiting"
    /\ conn[k].req.cmd = cmd

KeepCancellation == UNCHANGED cancelRequested

\* submitSpooledJob starts by forgetting every earlier cancellation.
ForgetCancellation == cancelRequested' = FALSE

-----------------------------------------------------------------------------
Init ==
    /\ up = TRUE /\ quitting = FALSE /\ crashes = 0
    /\ conn = [k \in Conns |-> Free]
    /\ table = {} /\ stale = {} /\ minted = {}
    /\ received = [u \in Uploads |-> 0]
    /\ partial = {} /\ final = {}
    /\ body = [u \in Uploads |-> <<>>]
    /\ stack = <<>> /\ printInProgress = FALSE
    /\ cancelRequested = FALSE /\ cancelFile = FALSE
    /\ worker = NoWorker /\ orphan = FALSE
    /\ sdk = FALSE
    /\ outcome = [u \in Uploads |-> "none"]
    /\ aborted = {} /\ late = 0 /\ abandoned = {}

-----------------------------------------------------------------------------
(* Clients, which may be any process of the user: they send any request on a *)
(* free slot and give the slot up once it is answered (or broken).           *)

Send(k, r) ==
    /\ up
    /\ conn[k] = Free
    /\ r.cmd = "submitJob" => Legacy
    /\ conn' = [conn EXCEPT ![k] = Waiting(r)]
    /\ UNCHANGED <<loopVars, uploadVars, diskVars, jobVars, sdk, histVars>>

Receive(k) ==
    /\ conn[k].state = "answered"
    /\ conn' = [conn EXCEPT ![k] = Free]
    /\ UNCHANGED <<loopVars, uploadVars, diskVars, jobVars, sdk, histVars>>

-----------------------------------------------------------------------------
(* handleRequest.                                                          *)

AdmitsAnything(cmd) == TRUE

\* While a committed job prints, only a ping and an abort are served.
Admits(cmd) == ~printInProgress \/ cmd \in {"ping", "abortPrint"}

Ping(k) ==
    /\ Serves(k, "ping")
    /\ Reply(k, TRUE, NoUpload)
    /\ UNCHANGED <<loopVars, uploadVars, diskVars, jobVars, histVars>>

RefuseSilently(k) ==
    /\ up /\ EventPoint
    /\ conn[k].state = "waiting"
    /\ ~Admits(conn[k].req.cmd)
    /\ conn' = [conn EXCEPT ![k] = Serving]
    /\ MayLoadSdk
    /\ UNCHANGED <<loopVars, uploadVars, diskVars, jobVars, histVars>>

\* Everything else is answered at once, also while the job prints.
Refuse(k) ==
    /\ up /\ EventPoint
    /\ conn[k].state = "waiting"
    /\ ~Admits(conn[k].req.cmd)
    /\ Reply(k, FALSE, NoUpload)
    /\ UNCHANGED <<loopVars, uploadVars, diskVars, jobVars, histVars>>

\* configure, refreshPrinters, choosePrinter, connectPrinter, reconnectPrinter,
\* status and info, pause, continue and maintenance: SDK calls.  They may load the
\* library; a changed root or a reconnect unloads it first.
Controller(k) ==
    /\ Serves(k, "controller")
    /\ Admits("controller")
    /\ \E ok \in BOOLEAN : conn' = [conn EXCEPT ![k] = Answered(ok, NoUpload)]
    /\ sdk' \in BOOLEAN
    /\ UNCHANGED <<loopVars, uploadVars, diskVars, jobVars, histVars>>

\* A file for the worker while one is isolated, the SDK's AbortPrint otherwise.
AbortPrint(k) ==
    /\ Serves(k, "abortPrint")
    /\ cancelRequested' = TRUE
    /\ IF IsolatedCancelPath
       THEN /\ \E ok \in BOOLEAN :
                  /\ cancelFile' = (cancelFile \/ ok)
                  /\ conn' = [conn EXCEPT ![k] = Answered(ok, NoUpload)]
            /\ MayLoadSdk
       ELSE /\ \E ok \in BOOLEAN : conn' = [conn EXCEPT ![k] = Answered(ok, NoUpload)]
            /\ sdk' \in {sdk, TRUE}
            /\ UNCHANGED cancelFile
    /\ aborted' = IF stack /= <<>> /\ Top.kind = "spooled"
                  THEN aborted \cup {Top.upload} ELSE aborted
    /\ UNCHANGED <<loopVars, uploadVars, diskVars, stack, printInProgress, worker,
                   orphan, outcome, late, abandoned>>

\* Refused for bad metadata, too little disk or a file that cannot be created.
BeginRefused(k) ==
    /\ Serves(k, "beginRasterUpload")
    /\ Admits("beginRasterUpload")
    /\ Reply(k, FALSE, NoUpload)
    /\ UNCHANGED <<loopVars, uploadVars, diskVars, jobVars, histVars>>

NotInTable == Uploads \ table

\* QUuid::createUuid never draws the same id again.
Fresh == Uploads \ minted

BeginRasterUpload(k) ==
    /\ Serves(k, "beginRasterUpload")
    /\ Admits("beginRasterUpload")
    /\ \E u \in Fresh :
          /\ minted' = minted \cup {u}
          /\ table' = table \cup {u}
          /\ received' = [received EXCEPT ![u] = 0]
          /\ partial' = partial \cup {u}
          /\ body' = [body EXCEPT ![u] = <<>>]
          /\ Reply(k, TRUE, u)
    /\ UNCHANGED <<loopVars, stale, final, jobVars, histVars>>

ChunkFitsUnbounded(r) ==
    /\ r.upload \in table
    /\ r.offset = received[r.upload]

ChunkFits(r) ==
    /\ r.upload \in table
    /\ r.offset = received[r.upload]
    /\ received[r.upload] + 1 <= Chunks

AppendRefusedTouches(k) ==
    LET r == conn[k].req IN
    /\ Serves(k, "appendRasterChunk")
    /\ Admits("appendRasterChunk")
    /\ ~ChunkFits(r)
    /\ stale' = stale \ {r.upload}
    /\ Reply(k, FALSE, NoUpload)
    /\ UNCHANGED <<loopVars, table, received, minted, diskVars, jobVars, histVars>>

\* An unknown id, or a chunk that does not continue the upload: the upload stays,
\* and its expiry is not put off.
AppendRefused(k) ==
    /\ Serves(k, "appendRasterChunk")
    /\ Admits("appendRasterChunk")
    /\ ~ChunkFits(conn[k].req)
    /\ Reply(k, FALSE, NoUpload)
    /\ UNCHANGED <<loopVars, uploadVars, diskVars, jobVars, histVars>>

AppendRasterChunk(k) ==
    LET r == conn[k].req IN
    /\ Serves(k, "appendRasterChunk")
    /\ Admits("appendRasterChunk")
    /\ ChunkFits(r)
    /\ body' = [body EXCEPT ![r.upload] = Append(@, r.chunk)]
    /\ received' = [received EXCEPT ![r.upload] = @ + 1]
    /\ stale' = stale \ {r.upload}
    /\ Reply(k, TRUE, NoUpload)
    /\ UNCHANGED <<loopVars, table, minted, partial, final, jobVars, histVars>>

\* Entries leave the table.
Forget(S) ==
    /\ table' = table \ S
    /\ stale' = stale \ S
    /\ received' = [u \in Uploads |-> IF u \in S THEN 0 ELSE received[u]]
    /\ UNCHANGED minted

RemoveNoPartials(S) ==
    /\ UNCHANGED <<partial, final>>
    /\ body' = [u \in Uploads |-> IF u \in S THEN <<>> ELSE body[u]]

\* Their files are removed.
RemovePartials(S) ==
    /\ partial' = partial \ S
    /\ body' = [u \in Uploads |-> IF u \in S THEN <<>> ELSE body[u]]
    /\ UNCHANGED final

\* The chunk could not be written: the file and the entry go.
AppendFails(k) ==
    LET r == conn[k].req IN
    /\ Serves(k, "appendRasterChunk")
    /\ Admits("appendRasterChunk")
    /\ ChunkFits(r)
    /\ Forget({r.upload})
    /\ RemovePartials({r.upload})
    /\ Reply(k, FALSE, NoUpload)
    /\ UNCHANGED <<loopVars, jobVars, histVars>>

\* Idempotent: an unknown id is answered as a success.
CancelRasterUpload(k) ==
    LET S == {conn[k].req.upload} \cap table IN
    /\ Serves(k, "cancelRasterUpload")
    /\ Admits("cancelRasterUpload")
    /\ Forget(S)
    /\ RemovePartials(S)
    /\ Reply(k, TRUE, NoUpload)
    /\ UNCHANGED <<loopVars, jobVars, histVars>>

CommitUnknown(k) ==
    /\ Serves(k, "commitRasterUpload")
    /\ Admits("commitRasterUpload")
    /\ conn[k].req.upload \notin table
    /\ Reply(k, FALSE, NoUpload)
    /\ UNCHANGED <<loopVars, uploadVars, diskVars, jobVars, histVars>>

VerifiedByLength(u) == received[u] = Chunks

\* What the length check, readMetadata, verify and the comparison with the
\* announced spool accept: the submitted file and no other.
Verified(u) == received[u] = Chunks /\ body[u] = Complete

\* Incomplete, not renamed or not verified: the entry and its file are gone.
CommitRejected(k) ==
    LET u == conn[k].req.upload IN
    /\ Serves(k, "commitRasterUpload")
    /\ Admits("commitRasterUpload")
    /\ u \in table
    /\ Forget({u})
    /\ RemovePartials({u})
    /\ Reply(k, FALSE, NoUpload)
    /\ UNCHANGED <<loopVars, jobVars, histVars>>

\* The file takes its final name and the job is handed to the backend, which first
\* forgets every earlier cancellation.  The handler goes on in the steps below.
Commit(k) ==
    LET u == conn[k].req.upload IN
    /\ Serves(k, "commitRasterUpload")
    /\ Admits("commitRasterUpload")
    /\ u \in table
    /\ Verified(u)
    /\ Forget({u})
    /\ partial' = partial \ {u}
    /\ final' = final \cup {u}
    /\ printInProgress' = TRUE
    /\ ForgetCancellation
    /\ Push(OpenFrame("spooled", k, u))
    /\ conn' = [conn EXCEPT ![k] = Serving]
    /\ late' = 0
    /\ UNCHANGED <<loopVars, body, cancelFile, worker, orphan, sdk, outcome,
                   aborted, abandoned>>

SubmitJobUndecoded(k) ==
    /\ Serves(k, "submitJob")
    /\ Admits("submitJob")
    /\ Reply(k, FALSE, NoUpload)
    /\ UNCHANGED <<loopVars, uploadVars, diskVars, jobVars, histVars>>

\* The one-frame job: no gate, and no earlier cancellation is forgotten.
SubmitJob(k) ==
    /\ Serves(k, "submitJob")
    /\ Admits("submitJob")
    /\ Push(OpenFrame("legacy", k, NoUpload))
    /\ conn' = [conn EXCEPT ![k] = Serving]
    /\ UNCHANGED <<loopVars, uploadVars, diskVars, printInProgress,
                   cancelRequested, cancelFile, worker, orphan, sdk, histVars>>

Shutdown(k) ==
    /\ Serves(k, "shutdown")
    /\ Admits("shutdown")
    /\ quitting' = TRUE
    /\ Reply(k, TRUE, NoUpload)
    /\ UNCHANGED <<up, crashes, uploadVars, diskVars, jobVars, histVars>>

Serve(k) ==
    \/ Ping(k) \/ Refuse(k) \/ Controller(k) \/ AbortPrint(k)
    \/ BeginRefused(k) \/ BeginRasterUpload(k)
    \/ AppendRefused(k) \/ AppendRasterChunk(k) \/ AppendFails(k)
    \/ CancelRasterUpload(k)
    \/ CommitUnknown(k) \/ CommitRejected(k) \/ Commit(k)
    \/ SubmitJobUndecoded(k) \/ SubmitJob(k)
    \/ Shutdown(k)

-----------------------------------------------------------------------------
(* The printing handlers.                                                  *)

KeepFinal(f) == UNCHANGED <<final, body>>

\* The raster file goes when the backend is done with it, whatever the result.
RemoveFinal(f) ==
    /\ final' = final \ {f.upload}
    /\ body' = [body EXCEPT ![f.upload] = <<>>]

CancelNeverSeen == FALSE

\* What printPackedJob asks before every line: the flag of its own process, and in a
\* worker the cancel file.
CancelSeen == IF InProcess THEN cancelRequested ELSE cancelFile

\* The innermost handler answers its client and returns.  The reply of a spooled
\* job is built while the gate is still closed.
Return(ok, why) ==
    LET f == Top IN
    /\ stack' = Tail(stack)
    /\ conn' = [conn EXCEPT ![f.conn] = Answered(ok, NoUpload)]
    /\ IF f.kind = "spooled"
       THEN /\ RemoveFinal(f)
            /\ printInProgress' = FALSE
            /\ cancelFile' = FALSE
            /\ outcome' = [outcome EXCEPT ![f.upload] = why]
       ELSE UNCHANGED <<final, body, printInProgress, cancelFile, outcome>>
    /\ UNCHANGED <<loopVars, uploadVars, partial, cancelRequested, orphan,
                   aborted, late, abandoned>>

InJob(pc) == up /\ stack /= <<>> /\ Top.pc = pc
WhyNot == IF cancelRequested /\ Top.kind = "spooled" THEN "canceled" ELSE "failed"
Resume(pc) ==
    /\ Step(pc)
    /\ UNCHANGED <<loopVars, conn, uploadVars, diskVars, printInProgress,
                   cancelRequested, cancelFile, worker, orphan, sdk, histVars>>

\* submitSpooledJobIsolated and submitPreparedJobIsolated: the job is described in
\* a temporary directory, the service lets go of the library, the worker starts.
Launch ==
    /\ InJob("launch")
    /\ Step("wait")
    /\ worker' = [pc |-> "setup", line |-> 0, ok |-> FALSE]
    /\ sdk' = FALSE
    /\ UNCHANGED <<loopVars, conn, uploadVars, diskVars, printInProgress,
                   cancelRequested, cancelFile, orphan, histVars>>

LaunchFails ==
    /\ InJob("launch")
    /\ Return(FALSE, "failed")
    /\ sdk' \in BOOLEAN
    /\ Top.kind = "spooled" => sdk' \in {sdk, FALSE}
    /\ UNCHANGED worker

\* The worker is gone: whatever it ended with is a cancellation if one was asked.
WorkerDone ==
    /\ InJob("wait")
    /\ worker.pc = "exited"
    /\ Return(worker.ok, IF worker.ok THEN "printed" ELSE WhyNot)
    /\ MayLoadSdk
    /\ worker' = NoWorker

WorkerTo(w) ==
    /\ worker' = w
    /\ UNCHANGED <<loopVars, conn, uploadVars, diskVars, stack, printInProgress,
                   cancelRequested, cancelFile, orphan, sdk, outcome, aborted,
                   abandoned>>

\* The worker sets the job up, then looks for the cancel file before every line.
WorkerSetup ==
    /\ worker.pc = "setup"
    /\ WorkerTo([worker EXCEPT !.pc = "check"])
    /\ UNCHANGED late

WorkerCheck ==
    /\ worker.pc = "check"
    /\ IF worker.line >= PlaneLines
       THEN WorkerTo([worker EXCEPT !.pc = "finish"])
       ELSE IF CancelSeen
       THEN WorkerTo([worker EXCEPT !.pc = "exited"])
       ELSE WorkerTo([worker EXCEPT !.pc = "send"])
    /\ UNCHANGED late

WorkerSend ==
    /\ worker.pc = "send"
    /\ WorkerTo([worker EXCEPT !.pc = "check", !.line = @ + 1])
    /\ late' = IF cancelFile THEN late + 1 ELSE late

\* EndPrint, ClosePrint and the restored origin.
WorkerFinish ==
    /\ worker.pc = "finish"
    /\ WorkerTo([worker EXCEPT !.pc = "exited", !.ok = TRUE])
    /\ UNCHANGED late

\* A call of the vendor library fails, or takes the worker down.
WorkerFails ==
    /\ WorkerRuns
    /\ WorkerTo([worker EXCEPT !.pc = "exited"])
    /\ UNCHANGED late

WorkerStep == WorkerSetup \/ WorkerCheck \/ WorkerSend \/ WorkerFinish \/ WorkerFails

\* printPackedJob inside the service.
SetUpJob ==
    /\ InJob("setup")
    /\ Step("check")
    /\ sdk' = TRUE
    /\ UNCHANGED <<loopVars, conn, uploadVars, diskVars, printInProgress,
                   cancelRequested, cancelFile, worker, orphan, histVars>>

CheckLine ==
    /\ InJob("check")
    /\ Top.line < PlaneLines => ~CancelSeen
    /\ Resume(IF Top.line >= PlaneLines THEN "finish"
              ELSE IF Top.line % EventStride = 0 THEN "events" ELSE "send")

CancelJob ==
    /\ InJob("check")
    /\ Top.line < PlaneLines /\ CancelSeen
    /\ Return(FALSE, "canceled")
    /\ MayLoadSdk
    /\ UNCHANGED worker

LeaveEvents == InJob("events") /\ Resume("send")

SendLine ==
    /\ InJob("send")
    /\ stack' = <<[Top EXCEPT !.pc = "check", !.line = @ + 1]>> \o Tail(stack)
    /\ late' = IF cancelRequested /\ Top.kind = "spooled" THEN late + 1 ELSE late
    /\ UNCHANGED <<loopVars, conn, uploadVars, diskVars, printInProgress,
                   cancelRequested, cancelFile, worker, orphan, sdk, outcome,
                   aborted, abandoned>>

FinishJob ==
    /\ InJob("finish")
    /\ Return(TRUE, "printed")
    /\ MayLoadSdk
    /\ UNCHANGED worker

\* A call fails: the job is aborted or its session closed, and the handler returns.
JobFails ==
    /\ up /\ stack /= <<>>
    /\ Top.pc \in {"setup", "send", "finish"}
    /\ Return(FALSE, "failed")
    /\ sdk' \in {sdk, TRUE}
    /\ UNCHANGED worker

JobStep == \/ Launch \/ LaunchFails \/ WorkerDone
           \/ SetUpJob \/ CheckLine \/ CancelJob \/ LeaveEvents \/ SendLine
           \/ FinishJob \/ JobFails

-----------------------------------------------------------------------------
(* The clock, and the life of the process.                                 *)

\* kUploadExpiryMs pass without a chunk of u.
Age(u) ==
    /\ up
    /\ u \in table \ stale
    /\ stale' = stale \cup {u}
    /\ UNCHANGED <<loopVars, conn, table, received, minted, diskVars, jobVars,
                   sdk, histVars>>

RemoveExpiredUploads ==
    /\ up /\ EventPoint
    /\ stale /= {}
    /\ Forget(stale)
    /\ RemovePartials(stale)
    /\ UNCHANGED <<loopVars, conn, jobVars, sdk, histVars>>

\* SIGTERM, seen by the timer that polls for it.
Terminate ==
    /\ up /\ EventPoint
    /\ ~quitting
    /\ quitting' = TRUE
    /\ UNCHANGED <<up, crashes, conn, uploadVars, diskVars, jobVars, sdk, histVars>>

\* A dead process breaks its connections.
BrokenConns ==
    [k \in Conns |-> IF conn[k].state \in {"waiting", "serving"}
                     THEN Answered(FALSE, NoUpload) ELSE conn[k]]

\* The event loop ends only below every handler; the destructor removes the files
\* of the table.
Exit ==
    /\ up /\ quitting /\ stack = <<>>
    /\ up' = FALSE
    /\ Forget(table)
    /\ RemovePartials(table)
    /\ conn' = BrokenConns
    /\ sdk' = FALSE
    /\ cancelRequested' = FALSE
    /\ UNCHANGED <<quitting, crashes, stack, printInProgress, cancelFile, worker,
                   orphan, histVars>>

\* SIGKILL (from restartService, or any other) or a crash: files stay, and so does
\* a running worker.
Crash ==
    /\ up /\ crashes < MaxCrashes
    /\ up' = FALSE /\ quitting' = FALSE /\ crashes' = crashes + 1
    /\ Forget(table)
    /\ conn' = BrokenConns
    /\ abandoned' = abandoned \cup
          {u \in Uploads : \E i \in DOMAIN stack :
                              stack[i].kind = "spooled" /\ stack[i].upload = u}
    /\ stack' = <<>> /\ printInProgress' = FALSE
    /\ cancelRequested' = FALSE /\ cancelFile' = FALSE
    /\ worker' = NoWorker
    /\ orphan' = (orphan \/ WorkerRuns)
    /\ sdk' = FALSE
    /\ UNCHANGED <<diskVars, outcome, aborted, late>>

\* The constructor sweeps the partial files of an earlier process, not the others.
Restart ==
    /\ ~up
    /\ up' = TRUE /\ quitting' = FALSE
    /\ RemovePartials(partial)
    /\ UNCHANGED <<crashes, conn, uploadVars, jobVars, sdk, histVars>>

OrphanExits ==
    /\ orphan
    /\ orphan' = FALSE
    /\ UNCHANGED <<loopVars, conn, uploadVars, diskVars, stack, printInProgress,
                   cancelRequested, cancelFile, worker, sdk, histVars>>

-----------------------------------------------------------------------------
Next ==
    \/ \E k \in Conns : (\E r \in Request : Send(k, r)) \/ Receive(k) \/ Serve(k)
    \/ JobStep
    \/ WorkerStep
    \/ \E u \in Uploads : Age(u)
    \/ RemoveExpiredUploads
    \/ Terminate \/ Exit \/ Crash \/ Restart \/ OrphanExits

Spec == Init /\ [][Next]_vars

\* The expiry timer fires once a minute: it catches an upload that stays stale, as
\* long as the loop processes events, but not one that is touched in between.
TimerFires ==
    \A u \in Uploads : \/ []<>(u \notin stale)
                       \/ <>[]~EventPoint
                       \/ []<><<RemoveExpiredUploads>>_vars

\* A handler that can run is run (Qt delivers events in turn), also when event
\* points come and go with the job that prints; job and worker go on; time passes.
Fairness ==
    /\ \A k \in Conns : SF_vars(Serve(k))
    /\ TimerFires
    /\ WF_vars(JobStep)
    /\ WF_vars(WorkerStep)
    /\ \A u \in Uploads : WF_vars(Age(u))

FairSpec == Spec /\ Fairness

-----------------------------------------------------------------------------
(* Type.                                                                   *)

\* Every variable holds a value of the kind the code gives it.
TypeOK ==
    /\ up \in BOOLEAN /\ quitting \in BOOLEAN /\ crashes \in 0 .. MaxCrashes
    /\ conn \in [Conns -> ConnState]
    /\ table \subseteq Uploads /\ stale \subseteq table /\ minted \subseteq Uploads
    /\ received \in [Uploads -> 0 .. Chunks]
    /\ partial \subseteq Uploads /\ final \subseteq Uploads
    /\ body \in [Uploads -> Seq(ChunkNames)]
    /\ stack \in Seq(Frame)
    /\ printInProgress \in BOOLEAN /\ cancelRequested \in BOOLEAN
    /\ cancelFile \in BOOLEAN
    /\ worker \in Worker
    /\ sdk \in BOOLEAN /\ orphan \in BOOLEAN
    /\ outcome \in [Uploads -> {"none", "printed", "canceled", "failed"}]
    /\ aborted \subseteq Uploads /\ abandoned \subseteq Uploads
    /\ late \in Nat

-----------------------------------------------------------------------------
(* Safety.                                                                 *)

Printing(u) == \E i \in DOMAIN stack : /\ stack[i].kind = "spooled"
                                       /\ stack[i].upload = u

\* While the process runs, the partial files on disk are those of the table and
\* hold exactly the bytes it counts; an orderly exit leaves none.  (No path of
\* append, cancel, commit, expiry, exit or restart forgets a file or an entry.)
UploadFilesMatchTable ==
    /\ up => partial = table
    /\ \A u \in table : received[u] = Len(body[u])
    /\ ~up /\ quitting => partial = {}

\* A finished raster file exists only while its job prints, or when the process
\* was killed during that print: nothing sweeps those.
FinalsArePrintedOrAbandoned ==
    \A u \in final : Printing(u) \/ u \in abandoned

\* What the backend is given, and for as long as it prints from it, is the whole
\* raster the client announced: no lost, repeated or foreign chunk, and no sweep,
\* expiry, cancel or second commit takes the file away.
PrintsOnlyComplete ==
    \A u \in Uploads : Printing(u) =>
        /\ u \in final
        /\ body[u] = Complete
        /\ u \notin table

\* The gate is closed exactly while a committed job prints, that job is the
\* innermost handler, and no other committed job is below it.
GateGuardsThePrint ==
    /\ printInProgress <=> stack /= <<>> /\ Top.kind = "spooled"
    /\ \A i \in DOMAIN stack : stack[i].kind = "spooled" => i = 1

\* While a worker process prints, the service holds no SDK session: neither the
\* state sent with a reply nor an abort loads the library again.
SdkExclusive == WorkerRuns => ~sdk

\* A job ends as canceled only if an abort was served while that very job printed:
\* an abort meant for an earlier job, or for none, never kills a later one.
CancelHitsItsOwnJob ==
    \A u \in Uploads : outcome[u] = "canceled" => u \in aborted

\* Once an abort of the printing job is recorded, at most the line already under
\* way still reaches the printer.
AbortStopsTheStream == late <= 1

-----------------------------------------------------------------------------
(* What makes the safety properties inductive.                             *)

PrintsNow == stack /= <<>> /\ Top.kind = "spooled"

\* A dead process has no memory, and what it ever knew of was drawn before.
ProcessInv ==
    /\ ~up => stack = <<>> /\ table = {}
    /\ table \subseteq minted
    /\ \A u \in Uploads : Printing(u) => u \in minted

\* Each build has its own steps, and a worker serves the handler that waits for it.
BuildInv ==
    /\ \A i \in DOMAIN stack :
          stack[i].pc \in (IF InProcess THEN {"setup", "check", "events", "send", "finish"}
                                        ELSE {"launch", "wait"})
    /\ worker.pc /= "none" => ~InProcess /\ stack /= <<>> /\ Top.pc = "wait"

\* A cancellation that stands while a job prints was asked for during that job.
CancelInv ==
    /\ PrintsNow /\ cancelRequested => Top.upload \in aborted
    /\ cancelFile => PrintsNow /\ ~InProcess

\* After a late line the next look at the cancellation ends the job.
LateInv ==
    /\ late <= 1
    /\ PrintsNow /\ late = 1 =>
          /\ IF InProcess THEN cancelRequested ELSE cancelFile
          /\ Top.pc \notin {"events", "send"}
          /\ worker.pc /= "send"

\* Where no client sends one-frame jobs, none waits and none is on the stack.
NoLegacyInv ==
    ~Legacy => /\ \A k \in Conns : conn[k].state = "waiting" => conn[k].req.cmd /= "submitJob"
               /\ \A i \in DOMAIN stack : stack[i].kind = "spooled"

\* The inductive invariant.
IndInv ==
    /\ TypeOK
    /\ ProcessInv /\ BuildInv /\ GateGuardsThePrint
    /\ UploadFilesMatchTable /\ PrintsOnlyComplete /\ FinalsArePrintedOrAbandoned
    /\ SdkExclusive
    /\ CancelInv /\ CancelHitsItsOwnJob /\ LateInv

-----------------------------------------------------------------------------
(* Action properties.                                                      *)

\* A handler that talks to the printer never starts on top of one that is printing:
\* no request, however timed, gets a vendor call in between those of a job.
StartsVendorWork ==
    \E k \in Conns : Controller(k) \/ Commit(k) \/ SubmitJob(k)
VendorCallsSerialized == [][StartsVendorWork => stack = <<>>]_vars

\* What became of a job is decided once: no upload is printed again, and a raster
\* whose print was reported never comes back to the disk.
OutcomeStays ==
    \A u \in Uploads : outcome[u] /= "none" =>
        /\ outcome'[u] = outcome[u]
        /\ u \in final' => u \in final
OutcomeIsFinal == [][OutcomeStays]_vars

-----------------------------------------------------------------------------
(* Liveness.                                                               *)

\* Every upload comes to its end, printed, canceled or swept: abandoned by its
\* client it does not stay, whatever other requests the service gets and however
\* long the jobs between them take.
UploadsEnd == \A u \in Uploads : u \in minted ~> u \notin table /\ ~Printing(u)

\* Every request is answered (or its connection breaks), also one that comes while
\* a job prints, and the one that prints.
RequestsAreAnswered ==
    \A k \in Conns : conn[k].state = "waiting" ~> conn[k].state = "answered"

=============================================================================
