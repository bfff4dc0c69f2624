------------------------ MODULE PrinterServiceSystem ------------------------
(***************************************************************************)
(* Printing clients and the printer service.  A client is a GUI process:   *)
(* its job thread renders a raster, uploads it and commits it              *)
(* (PrintJobCMYK::runDirectPrint, PrinterServiceClient::submitSpooledJob); *)
(* its GUI thread runs the Cancel button.  The two share three flags and   *)
(* no lock.  They meet the service only through the connections of         *)
(* PrinterServiceServer.                                                   *)
(***************************************************************************)
EXTENDS PrinterServiceServer

CONSTANTS
    Clients,      \* GUI processes, each with one job to print
    NoConn,       \* "no exchange under way"
    MaxTimeouts,  \* bound on exchanges that are given up
    MaxClicks,    \* bound on clicks of Cancel
    MaxForeign    \* bound on jobs of other programs

ASSUME SystemAssumption ==
    /\ NoConn \notin Conns
    /\ MaxTimeouts \in Nat /\ MaxClicks \in Nat /\ MaxForeign \in Nat

VARIABLES
    job,           \* each client's job thread
    gui,           \* each client's GUI thread, as far as it cancels
    outputCancel,  \* clients whose PrintJobCMYK::m_cancelRequested is set
    cancelUpload,  \* clients whose PrinterServiceClient::m_cancelUpload is set
    uploadActive,  \* clients whose PrinterServiceClient::m_uploadActive is set
    timeouts,      \* exchanges given up so far
    clicks,        \* clicks so far
    foreign,       \* jobs of other programs so far
    inTime,        \* history: clients whose click returned before their commit
    unheard        \* history: clients that sent a commit and gave its answer up

flagVars   == <<outputCancel, cancelUpload, uploadActive>>
clientVars == <<job, gui, flagVars, timeouts, clicks, foreign, inTime, unheard>>
sysVars    == <<vars, clientVars>>

\* The places of the job thread where it talks to the service.
Asking == {"hello", "shutdown", "reconnect", "rehello", "begin", "append",
           "commit", "cleanup"}

SysInit ==
    /\ Init
    /\ job = [c \in Clients |-> [pc |-> "idle", slot |-> NoConn, upload |-> NoUpload,
                                 offset |-> 0, ok |-> FALSE]]
    /\ gui = [c \in Clients |-> [pc |-> "idle", slot |-> NoConn]]
    /\ outputCancel = {} /\ cancelUpload = {} /\ uploadActive = {}
    /\ timeouts = 0 /\ clicks = 0 /\ foreign = 0 /\ inTime = {} /\ unheard = {}

-----------------------------------------------------------------------------
(* The job thread.                                                         *)

At(c, pc) == job[c].pc = pc
To(c, pc) == job' = [job EXCEPT ![c].pc = pc]

EndsArmed(c, ok) ==
    /\ job' = [job EXCEPT ![c].pc = "done", ![c].slot = NoConn, ![c].ok = ok]
    /\ UNCHANGED uploadActive

\* Every return of submitSpooledJob passes the guard that clears m_uploadActive.
Ends(c, ok) ==
    /\ job' = [job EXCEPT ![c].pc = "done", ![c].slot = NoConn, ![c].ok = ok]
    /\ uploadActive' = uploadActive \ {c}

JobLocal == UNCHANGED <<vars, gui, timeouts, clicks, foreign, inTime, unheard>>

RunDirectPrint(c) ==
    /\ At(c, "idle")
    /\ To(c, "raster")
    /\ outputCancel' = outputCancel \ {c}
    /\ JobLocal /\ UNCHANGED <<cancelUpload, uploadActive>>

\* The last look at m_cancelRequested is in the writer's finalize.
RasterCanceled(c) ==
    /\ At(c, "raster")
    /\ Ends(c, FALSE)
    /\ JobLocal /\ UNCHANGED <<outputCancel, cancelUpload>>

RasterBuilt(c) ==
    /\ At(c, "raster")
    /\ c \notin outputCancel
    /\ To(c, "spooled")
    /\ JobLocal /\ UNCHANGED flagVars

\* submitSpooledJob arms the flags, one store after the other.
ForgetCancel(c) ==
    /\ At(c, "spooled")
    /\ To(c, "arm")
    /\ cancelUpload' = cancelUpload \ {c}
    /\ JobLocal /\ UNCHANGED <<outputCancel, uploadActive>>

Activate(c) ==
    /\ At(c, "arm")
    /\ To(c, "verify")
    /\ uploadActive' = uploadActive \cup {c}
    /\ JobLocal /\ UNCHANGED <<outputCancel, cancelUpload>>

VerifyFails(c) ==
    /\ At(c, "verify")
    /\ Ends(c, FALSE)
    /\ JobLocal /\ UNCHANGED <<outputCancel, cancelUpload>>

VerifyPasses(c) ==
    /\ At(c, "verify")
    /\ c \notin cancelUpload
    /\ To(c, "hello")
    /\ JobLocal /\ UNCHANGED flagVars

-----------------------------------------------------------------------------
(* Exchanges of the job thread: one request, one answer, or none in time.  *)

\* The next chunk is asked for only when no cancellation is seen.
MayAppend(c) == job[c].offset < Chunks /\ c \notin cancelUpload

\* The request of each place.
Asks(c, r) ==
    LET j == job[c] IN
    \/ j.pc \in {"hello", "rehello"} /\ r = [cmd |-> "ping"]
    \/ j.pc = "shutdown"  /\ r = [cmd |-> "shutdown"]
    \/ j.pc = "reconnect" /\ r = [cmd |-> "controller"]
    \/ j.pc = "begin"     /\ r = [cmd |-> "beginRasterUpload"]
    \/ /\ j.pc = "append" /\ MayAppend(c)
       /\ r = [cmd |-> "appendRasterChunk", upload |-> j.upload,
               offset |-> j.offset, chunk |-> j.offset + 1]
    \/ j.pc = "commit"    /\ r = [cmd |-> "commitRasterUpload", upload |-> j.upload]
    \/ j.pc = "cleanup"   /\ r = [cmd |-> "cancelRasterUpload", upload |-> j.upload]

ClientLocal == UNCHANGED <<flagVars, timeouts, clicks, foreign, inTime, unheard>>

Ask(c) ==
    /\ job[c].slot = NoConn
    /\ \E k \in Conns, r \in Request :
          /\ Asks(c, r)
          /\ Send(k, r)
          /\ job' = [job EXCEPT ![c].slot = k]
    /\ UNCHANGED gui /\ ClientLocal

AnyAnswerPrints(ok) == TRUE
AnswerUnread(ok) == FALSE

\* The client reports a print when the commit is answered with success.
Committed(ok) == ok

LeaveUpload(c) ==
    /\ job' = [job EXCEPT ![c].pc = "done", ![c].slot = NoConn]
    /\ uploadActive' = uploadActive \ {c}

\* A canceled, cut or refused upload is taken back from the service.
TakeBack(c) ==
    /\ job' = [job EXCEPT ![c].pc = "cleanup", ![c].slot = NoConn]
    /\ UNCHANGED uploadActive

Goes(c, pc) ==
    /\ job' = [job EXCEPT ![c].pc = pc, ![c].slot = NoConn]
    /\ UNCHANGED uploadActive

\* What an answer makes the job thread do.
After(c, ok, u) ==
    \/ /\ At(c, "hello")
       /\ Goes(c, IF ok THEN "begin" ELSE "shutdown")
    \/ At(c, "shutdown") /\ Goes(c, "awaitExit")
    \/ /\ job[c].pc \in {"reconnect", "rehello", "begin"} /\ ~ok
       /\ Ends(c, FALSE)
    \/ At(c, "reconnect") /\ ok /\ Goes(c, "rehello")
    \/ At(c, "rehello") /\ ok /\ Goes(c, "begin")
    \/ /\ At(c, "begin") /\ ok
       /\ job' = [job EXCEPT ![c].pc = "append", ![c].slot = NoConn,
                             ![c].upload = u, ![c].offset = 0]
       /\ UNCHANGED uploadActive
    \/ /\ At(c, "append") /\ ok
       /\ job' = [job EXCEPT ![c].slot = NoConn, ![c].offset = @ + 1]
       /\ UNCHANGED uploadActive
    \/ At(c, "append") /\ ~ok /\ TakeBack(c)
    \/ At(c, "commit") /\ Ends(c, Committed(ok))
    \/ At(c, "cleanup") /\ Ends(c, FALSE)

Answer(c) ==
    /\ \E k \in Conns :
          /\ job[c].slot = k
          /\ Receive(k)
          /\ After(c, conn[k].ok, conn[k].upload)
    /\ UNCHANGED <<gui, outputCancel, cancelUpload, timeouts, clicks, foreign, inTime,
                   unheard>>

\* An exchange is given up after its time-out: half an hour for a job, more than
\* the printer takes, unless something is wrong with it.
GivesUp == timeouts < MaxTimeouts /\ timeouts' = timeouts + 1

\* The request may have been sent; its answer then goes to nobody.
NoAnswer(c) ==
    /\ job[c].pc \in Asking
    /\ At(c, "append") => job[c].slot /= NoConn \/ MayAppend(c)
    /\ \/ GivesUp
       \/ ~up /\ job[c].slot = NoConn /\ UNCHANGED timeouts
    /\ After(c, FALSE, NoUpload)
    /\ unheard' = IF At(c, "commit") /\ job[c].slot /= NoConn
                  THEN unheard \cup {c} ELSE unheard
    /\ UNCHANGED <<vars, gui, outputCancel, cancelUpload, clicks, foreign, inTime>>

\* Between two chunks: a cancellation is seen, or the spool file is cut.
UploadStops(c) ==
    /\ At(c, "append") /\ job[c].slot = NoConn
    /\ c \in cancelUpload \/ job[c].offset < Chunks
    /\ TakeBack(c)
    /\ JobLocal /\ UNCHANGED <<outputCancel, cancelUpload>>

\* The last look at m_cancelUpload and the store after it are two steps.
UploadComplete(c) ==
    /\ At(c, "append") /\ job[c].slot = NoConn
    /\ job[c].offset = Chunks /\ c \notin cancelUpload
    /\ To(c, "handOver")
    /\ JobLocal /\ UNCHANGED flagVars

HandOver(c) ==
    /\ At(c, "handOver")
    /\ To(c, "commit")
    /\ uploadActive' = uploadActive \ {c}
    /\ JobLocal /\ UNCHANGED <<outputCancel, cancelUpload>>

\* restartService, which a hello without an answer starts: wait for the end of the
\* process, with SIGTERM and SIGKILL if it does not come, then start another.
AwaitExit(c) ==
    /\ At(c, "awaitExit") /\ ~up
    /\ To(c, "reconnect")
    /\ JobLocal /\ UNCHANGED flagVars

SigTerm(c) == At(c, "awaitExit") /\ Terminate /\ UNCHANGED clientVars

\* A process whose loop is free obeys SIGTERM in time; a handler on the stack
\* holds it up.
SigKill(c) == At(c, "awaitExit") /\ stack /= <<>> /\ Crash /\ UNCHANGED clientVars

\* No service can be started or stopped, or the spool file is gone when it is to be
\* sent.
StartFails(c) ==
    /\ job[c].pc \in {"hello", "awaitExit", "begin"} /\ job[c].slot = NoConn
    /\ Ends(c, FALSE)
    /\ JobLocal /\ UNCHANGED <<outputCancel, cancelUpload>>

JobThread(c) ==
    \/ RunDirectPrint(c) \/ RasterCanceled(c) \/ RasterBuilt(c)
    \/ ForgetCancel(c) \/ Activate(c) \/ VerifyFails(c) \/ VerifyPasses(c)
    \/ Ask(c) \/ Answer(c) \/ NoAnswer(c)
    \/ UploadStops(c) \/ UploadComplete(c) \/ HandOver(c)
    \/ AwaitExit(c) \/ SigTerm(c) \/ SigKill(c)

\* No submission may count on a failure to come to its end.
Submission(c) == JobThread(c) \/ StartFails(c)

-----------------------------------------------------------------------------
(* The GUI thread: cancelOutput, then PrinterServiceClient's               *)
(* cancelCurrentOutput, which waits for the service when nothing uploads.  *)

CommitSent(c) == (At(c, "commit") /\ job[c].slot /= NoConn) \/ At(c, "done")

KeepsAsking(c) ==
    /\ gui' = [gui EXCEPT ![c].slot = NoConn]
    /\ UNCHANGED inTime

Returns(c) ==
    /\ gui' = [gui EXCEPT ![c] = [pc |-> "idle", slot |-> NoConn]]
    /\ inTime' = IF CommitSent(c) THEN inTime ELSE inTime \cup {c}

Click(c) ==
    /\ gui[c].pc = "idle" /\ job[c].pc \notin {"idle", "done"}
    /\ clicks < MaxClicks /\ clicks' = clicks + 1
    /\ gui' = [gui EXCEPT ![c].pc = "read"]
    /\ outputCancel' = outputCancel \cup {c}
    /\ UNCHANGED <<vars, job, cancelUpload, uploadActive, timeouts, foreign, inTime, unheard>>

ReadActive(c) ==
    /\ gui[c].pc = "read"
    /\ gui' = [gui EXCEPT ![c].pc = IF c \in uploadActive THEN "store" ELSE "abort"]
    /\ UNCHANGED <<vars, job>> /\ ClientLocal

StoreCancel(c) ==
    /\ gui[c].pc = "store"
    /\ cancelUpload' = cancelUpload \cup {c}
    /\ Returns(c)
    /\ UNCHANGED <<vars, job, outputCancel, uploadActive, timeouts, clicks, foreign,
                   unheard>>

AskAbort(c) ==
    /\ gui[c].pc = "abort" /\ gui[c].slot = NoConn
    /\ \E k \in Conns :
          /\ Send(k, [cmd |-> "abortPrint"])
          /\ gui' = [gui EXCEPT ![c].slot = k]
    /\ UNCHANGED job /\ ClientLocal

AbortAnswered(c) ==
    /\ gui[c].pc = "abort"
    /\ \E k \in Conns : gui[c].slot = k /\ Receive(k)
    /\ Returns(c)
    /\ UNCHANGED <<job, flagVars, timeouts, clicks, foreign, unheard>>

AbortUnanswered(c) ==
    /\ gui[c].pc = "abort"
    /\ \/ GivesUp
       \/ ~up /\ gui[c].slot = NoConn /\ UNCHANGED timeouts
    /\ Returns(c)
    /\ UNCHANGED <<vars, job, flagVars, clicks, foreign, unheard>>

GuiThread(c) ==
    \/ Click(c) \/ ReadActive(c) \/ StoreCancel(c)
    \/ AskAbort(c) \/ AbortAnswered(c) \/ AbortUnanswered(c)

-----------------------------------------------------------------------------
(* Other processes, and the service.                                       *)

\* An integration that sends the one-frame job of the public API.
Integration(k) ==
    /\ foreign < MaxForeign /\ foreign' = foreign + 1
    /\ Send(k, [cmd |-> "submitJob"])
    /\ UNCHANGED <<job, gui, flagVars, timeouts, clicks, inTime, unheard>>

\* An answer nobody waits for any more.
Discard(k) ==
    /\ \A c \in Clients : job[c].slot /= k /\ gui[c].slot /= k
    /\ Receive(k)
    /\ UNCHANGED clientVars

ReplaceUnseen == Restart

\* ensureService starts a process when none answers.  Who waits for the end of the
\* one before follows its pid, and has seen it.
Replace == Restart /\ \A c \in Clients : ~At(c, "awaitExit")

Service ==
    /\ \/ \E k \in Conns : Serve(k)
       \/ JobStep \/ WorkerStep
       \/ \E u \in Uploads : Age(u)
       \/ RemoveExpiredUploads
       \/ Exit \/ OrphanExits
       \/ Replace
    /\ UNCHANGED clientVars

SysNext ==
    \/ \E c \in Clients : Submission(c) \/ GuiThread(c)
    \/ \E k \in Conns : Integration(k) \/ Discard(k)
    \/ Service

SysSpec == SysInit /\ [][SysNext]_sysVars

\* Threads that can go on do; a needed service is started; users click when they
\* like.
SysFairness ==
    /\ Fairness
    /\ WF_vars(Exit) /\ WF_vars(Restart)
    /\ \A c \in Clients : /\ WF_sysVars(~At(c, "idle") /\ JobThread(c))
                         /\ WF_sysVars(gui[c].pc /= "idle" /\ GuiThread(c))
    /\ \A k \in Conns : WF_sysVars(Discard(k))

FairSysSpec == SysSpec /\ SysFairness

-----------------------------------------------------------------------------
(* Properties.                                                             *)

\* The variables of the clients hold what the code gives them.
ClientTypeOK ==
    /\ job \in [Clients -> [pc : Asking \cup {"idle", "raster", "spooled", "arm",
                                           "verify", "handOver", "awaitExit", "done"},
                            slot : Conns \cup {NoConn}, upload : Uploads \cup {NoUpload},
                            offset : 0 .. Chunks, ok : BOOLEAN]]
    /\ gui \in [Clients -> [pc : {"idle", "read", "store", "abort"},
                            slot : Conns \cup {NoConn}]]
    /\ outputCancel \subseteq Clients /\ cancelUpload \subseteq Clients
    /\ uploadActive \subseteq Clients
    /\ inTime \subseteq Clients /\ unheard \subseteq Clients
    /\ timeouts \in 0 .. MaxTimeouts /\ clicks \in 0 .. MaxClicks
    /\ foreign \in 0 .. MaxForeign

\* From where m_uploadActive is stored to where the guard, or the store before the
\* commit, takes it back.
Uploading == {"verify", "hello", "shutdown", "awaitExit", "reconnect", "rehello",
              "begin", "append", "handOver", "cleanup"}

\* Those types; and m_uploadActive is up exactly while a cancel is a matter of the
\* upload: were it left behind, every later click would wait for a thread that is gone,
\* and abort nothing.
SysTypeOK ==
    /\ ClientTypeOK
    /\ \A c \in Clients : c \in uploadActive <=> job[c].pc \in Uploading

\* A client that reports a print has had its own raster printed to the end: no
\* answer to another request, no answer of another process, no cancelled or killed
\* print is ever taken for one.
SuccessMeansPrinted ==
    \A c \in Clients : At(c, "done") /\ job[c].ok => outcome[job[c].upload] = "printed"

\* A failure that a client reports is final.  Lines, even all of them, may be on paper: an
\* error of ClosePrint or of the origin's reset, after the last line, fails the job too.
\* But what will be is: the service has not booked the job as printed, prints nothing
\* more of it, and has no commit of it left to serve, however many submissions were
\* given up, restarted or broken off before.  (Users print again after a failure.)  Two
\* cases are left out: a client that did not wait for the answer to its commit, and a
\* print whose service was killed, whose worker may go on.
FailureIsFinal ==
    \A c \in Clients \ unheard :
        At(c, "done") /\ ~job[c].ok /\ job[c].upload \notin abandoned \cup {NoUpload} =>
            /\ outcome[job[c].upload] /= "printed"
            /\ ~Printing(job[c].upload)
            /\ \A k \in Conns : conn[k].state = "waiting" =>
                  conn[k].req /= [cmd |-> "commitRasterUpload", upload |-> job[c].upload]

\* As long as no exchange is given up, a client that is done, and alone, has left
\* nothing of its raster with the service, however its upload ended.
NothingLeftBehind ==
    \A c \in Clients : timeouts = 0 /\ Clients = {c} /\ At(c, "done") =>
        /\ job[c].upload \notin table
        /\ job[c].upload \notin final

\* What the README promises of cancellation: a click of Cancel that returned before
\* the commit was sent keeps the raster from being printed.
CanceledNotPrinted ==
    \A c \in Clients : c \in inTime /\ At(c, "done") => ~job[c].ok

\* What restartService promises: the process that owned the vendor session before
\* is gone when its replacement takes the session.
OneSdkOwner == ~(orphan /\ sdk)

\* Every submission comes to an end, whatever is clicked, lost or restarted.
SubmissionsEnd == \A c \in Clients : ~At(c, "idle") ~> At(c, "done")

\* A click of Cancel never freezes the GUI thread for good, also in the middle of a
\* print, whose handler is on the service's stack.
ClicksReturn == \A c \in Clients : gui[c].pc /= "idle" ~> gui[c].pc = "idle"

=============================================================================
