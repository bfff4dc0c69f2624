--------------------- MODULE PrinterServiceSystemProofs ---------------------
(* The clients use the service only in ways that its own model foresees, so *)
(* what is proved of PrinterServiceServer holds of the composed system.     *)
EXTENDS PrinterServiceSystem, PrinterServiceDeliveryProofs

\* A step of a job thread is a step of the service's specification.
LEMMA JobThreadSteps ==
    ASSUME NEW c \in Clients, Submission(c)
    PROVE  [Next]_vars
<1>1. CASE Ask(c)
  BY <1>1 DEF Ask, Next
<1>2. CASE Answer(c)
  BY <1>2 DEF Answer, Next
<1>3. CASE SigTerm(c) \/ SigKill(c)
  BY <1>3 DEF SigTerm, SigKill, Next
<1> QED
  BY <1>1, <1>2, <1>3 DEF Submission, JobThread, StartFails, NoAnswer, RunDirectPrint,
      RasterCanceled, RasterBuilt, ForgetCancel, Activate, VerifyFails, VerifyPasses,
      UploadStops, UploadComplete, HandOver, AwaitExit, JobLocal

\* So is a step of a GUI thread.
LEMMA GuiThreadSteps ==
    ASSUME NEW c \in Clients, GuiThread(c)
    PROVE  [Next]_vars
<1>1. CASE AskAbort(c)
  <2>1. [cmd |-> "abortPrint"] \in Request
    BY DEF Request, Plain
  <2> QED
    BY <1>1, <2>1 DEF AskAbort, Next
<1>2. CASE AbortAnswered(c)
  BY <1>2 DEF AbortAnswered, Next
<1> QED
  BY <1>1, <1>2 DEF GuiThread, Click, ReadActive, StoreCancel, AbortUnanswered

\* And every other step of the system.
LEMMA SystemSteps ==
    ASSUME [SysNext]_sysVars
    PROVE  [Next]_vars
<1>1. ASSUME NEW k \in Conns, Integration(k) \/ Discard(k) PROVE [Next]_vars
  <2>1. [cmd |-> "submitJob"] \in Request
    BY DEF Request, Plain
  <2> QED
    BY <1>1, <2>1 DEF Integration, Discard, Next
<1>2. CASE Service
  BY <1>2 DEF Service, Replace, Next
<1>3. CASE UNCHANGED sysVars
  BY <1>3 DEF sysVars
<1> QED
  BY <1>1, <1>2, <1>3, JobThreadSteps, GuiThreadSteps DEF SysNext

\* Composition: clients, restarts and other processes included, the service behaves
\* as its own model says; the system implements PrinterServiceServer's Spec.
THEOREM Composition == SysSpec => Spec
<1>1. SysInit => Init
  BY DEF SysInit
<1>2. [SysNext]_sysVars => [Next]_vars
  BY SystemSteps
<1> QED
  BY <1>1, <1>2, PTL DEF SysSpec, Spec

\* Whatever the clients and their timing, the backend prints only whole rasters.
THEOREM SystemPrintsWholeRasters == SysSpec => []PrintsOnlyComplete
BY Composition, PrintsWholeRasters, PTL

\* So the composed system implements RasterDelivery too: clients that give up, restart
\* the service or kill it do not get an upload printed in part or twice.
THEOREM SystemDelivers == SysSpec => DeliversRasters
BY Composition, Refinement, PTL

-----------------------------------------------------------------------------
(* What a client is told.                                                   *)

\* Every printing handler has a connection of its own, which waits for it.
FramesInv ==
    /\ \A i \in DOMAIN stack : conn[stack[i].conn].state = "serving"
    /\ \A i, j \in DOMAIN stack : i /= j => stack[i].conn /= stack[j].conn

\* What a connection can carry while a job thread waits there for its commit.
CommitAt(k, u) ==
    \/ /\ conn[k].state = "waiting"
       /\ conn[k].req.cmd = "commitRasterUpload" /\ conn[k].req.upload = u
    \/ /\ conn[k].state = "serving"
       /\ \A i \in DOMAIN stack :
            stack[i].conn = k => stack[i].kind = "spooled" /\ stack[i].upload = u
    \/ conn[k].state = "answered" /\ (conn[k].ok => outcome[u] = "printed")

\* What the service has of an upload that is not being drawn: it can only lose it.
TableShrinks == minted' = minted /\ table' \subseteq table

\* A request answered on the spot: with a new upload, or with nothing but success and
\* failure.  An upload that was to be printed or cancelled is gone, unless the gate is
\* closed.
Replied(k, ok, u) ==
    /\ conn' = [conn EXCEPT ![k] = Answered(ok, u)] /\ stack' = stack
    /\ conn[k].req.cmd = "commitRasterUpload" => ~ok
    /\ \/ u = NoUpload /\ TableShrinks
       \/ u \in Uploads \ minted /\ minted' = minted \cup {u} /\ table' = table \cup {u}
    /\ conn[k].req.cmd \in {"commitRasterUpload", "cancelRasterUpload"} =>
          printInProgress \/ conn[k].req.upload \notin table'

\* A request answered from below the print it starts.
Started(k, f) ==
    /\ conn' = [conn EXCEPT ![k] = Serving] /\ stack' = <<f>> \o stack
    /\ f.conn = k /\ TableShrinks
    /\ conn[k].req.cmd \in {"commitRasterUpload", "submitJob"}
    /\ f.kind = "spooled" <=> conn[k].req.cmd = "commitRasterUpload"
    /\ conn[k].req.cmd = "commitRasterUpload" =>
          f.upload = conn[k].req.upload /\ f.upload \notin table'

\* A handler answers another's request with nothing but its own result, and its own
\* with a refusal or from below the print it starts.
LEMMA ServeAnswers ==
    ASSUME IndInv, FramesInv, NEW k \in Conns, Serve(k)
    PROVE  /\ conn[k].state = "waiting" /\ UNCHANGED <<outcome, abandoned>>
           /\ \/ \E ok \in BOOLEAN, u \in Uploads \cup {NoUpload} : Replied(k, ok, u)
              \/ \E f \in Frame : Started(k, f)
<1>0. TypeOK
  BY DEF IndInv
<1> USE DEF Replied, TableShrinks, Serves, Reply, jobVars, histVars, uploadVars
<1>1. CASE Ping(k) \/ Refuse(k)
  <2>1. CASE Ping(k)
    BY <2>1 DEF Ping
  <2>2. CASE Refuse(k)
    <3>1. conn[k].req.cmd \in {"commitRasterUpload", "cancelRasterUpload"} => printInProgress
      BY <2>2 DEF Refuse, Admits
    <3> QED
      BY <2>2, <3>1 DEF Refuse
  <2> QED
    BY <1>1, <2>1, <2>2
<1>2. CASE Controller(k) \/ AbortPrint(k)
  <2>1. CASE Controller(k)
    BY <2>1 DEF Controller
  <2>2. CASE AbortPrint(k)
    BY <2>2 DEF AbortPrint
  <2> QED
    BY <1>2, <2>1, <2>2
<1>3. CASE BeginRefused(k) \/ BeginRasterUpload(k)
  BY <1>3 DEF BeginRefused, BeginRasterUpload, Fresh
<1>4. CASE AppendRefused(k) \/ AppendRasterChunk(k) \/ AppendFails(k)
  <2>1. CASE AppendRefused(k)
    BY <2>1 DEF AppendRefused
  <2>2. CASE AppendRasterChunk(k)
    BY <2>2 DEF AppendRasterChunk
  <2>3. CASE AppendFails(k)
    BY <2>3 DEF AppendFails, Forget
  <2> QED
    BY <1>4, <2>1, <2>2, <2>3
<1>5. CASE CancelRasterUpload(k)
  BY <1>5 DEF CancelRasterUpload, Forget
<1>6. CASE CommitUnknown(k) \/ CommitRejected(k)
  <2>1. CASE CommitUnknown(k)
    BY <2>1 DEF CommitUnknown
  <2>2. CASE CommitRejected(k)
    BY <2>2 DEF CommitRejected, Forget
  <2> QED
    BY <1>6, <2>1, <2>2
<1>7. CASE SubmitJobUndecoded(k) \/ Shutdown(k)
  <2>1. CASE SubmitJobUndecoded(k)
    BY <2>1 DEF SubmitJobUndecoded
  <2>2. CASE Shutdown(k)
    BY <2>2 DEF Shutdown
  <2> QED
    BY <1>7, <2>1, <2>2
<1>8. CASE Commit(k)
  <2>1. conn[k].req.upload \in Uploads
    BY <1>0, <1>8, RequestKinds DEF Commit
  <2>2. OpenFrame("spooled", k, conn[k].req.upload) \in Frame
    BY <2>1 DEF OpenFrame, Frame, FrameOf
  <2>3. Started(k, OpenFrame("spooled", k, conn[k].req.upload))
    BY <1>8 DEF Started, Commit, Push, OpenFrame, Forget
  <2>4. conn[k].state = "waiting" /\ UNCHANGED <<outcome, abandoned>>
    BY <1>8 DEF Commit
  <2> QED
    BY <2>2, <2>3, <2>4
<1>9. CASE SubmitJob(k)
  <2>1. OpenFrame("legacy", k, NoUpload) \in Frame
    BY DEF OpenFrame, Frame, FrameOf
  <2>2. Started(k, OpenFrame("legacy", k, NoUpload))
    BY <1>9 DEF Started, SubmitJob, Push, OpenFrame
  <2>3. conn[k].state = "waiting" /\ UNCHANGED <<outcome, abandoned>>
    BY <1>9 DEF SubmitJob
  <2> QED
    BY <2>1, <2>2, <2>3
<1> QED
  BY <1>1, <1>2, <1>3, <1>4, <1>5, <1>6, <1>7, <1>8, <1>9 DEF Serve

\* A step of a printing handler returns, with success for a print and for nothing
\* else, or stays in its place.
LEMMA JobAnswers ==
    ASSUME IndInv, JobStep
    PROVE  /\ stack /= <<>> /\ UNCHANGED <<minted, table, abandoned>>
           /\ \/ \E ok \in BOOLEAN, why \in {"printed", "canceled", "failed"} :
                   Return(ok, why) /\ (ok <=> why = "printed")
              \/ /\ conn' = conn /\ outcome' = outcome
                 /\ \E f \in Frame :
                      /\ stack' = <<f>> \o Tail(stack)
                      /\ f.conn = Top.conn /\ f.kind = Top.kind /\ f.upload = Top.upload
<1>0. /\ stack /= <<>> /\ stack \in Seq(Frame) /\ Top \in Frame /\ worker \in Worker
  BY StackTop DEF JobStep, Launch, LaunchFails, WorkerDone, SetUpJob, CheckLine, CancelJob,
         LeaveEvents, SendLine, FinishJob, JobFails, InJob, IndInv, TypeOK
<1>10. UNCHANGED <<minted, table, abandoned>>
  BY DEF JobStep, Launch, LaunchFails, WorkerDone, SetUpJob, CheckLine, CancelJob,
         LeaveEvents, SendLine, FinishJob, JobFails, Resume, Return, uploadVars, histVars
<1>1. CASE LaunchFails \/ CancelJob \/ FinishJob \/ JobFails
  BY <1>0, <1>1, <1>10 DEF LaunchFails, CancelJob, FinishJob, JobFails
<1>2. CASE WorkerDone
  <2>1. worker.ok \in BOOLEAN
    BY <1>0 DEF Worker
  <2> QED
    BY <1>0, <1>2, <1>10, <2>1 DEF WorkerDone, WhyNot
<1>3. ASSUME NEW pc \in {"launch", "wait", "setup", "check", "events", "send", "finish"},
             Step(pc), conn' = conn, outcome' = outcome
      PROVE  \E f \in Frame :
                      /\ stack' = <<f>> \o Tail(stack)
                      /\ f.conn = Top.conn /\ f.kind = Top.kind /\ f.upload = Top.upload
  <2>1. [Top EXCEPT !.pc = pc] \in Frame
    BY <1>0 DEF Frame, FrameOf
  <2> QED
    BY <1>0, <1>3, <2>1 DEF Step, Frame, FrameOf
<1>4. CASE Launch \/ SetUpJob \/ CheckLine \/ LeaveEvents
  BY <1>0, <1>3, <1>4, <1>10 DEF Launch, SetUpJob, CheckLine, LeaveEvents, Resume, histVars
<1>5. CASE SendLine
  <2>0. Top.line + 1 \in Nat
    BY <1>0 DEF Frame, FrameOf
  <2>1. [Top EXCEPT !.pc = "check", !.line = @ + 1] \in Frame
    BY <1>0, <2>0 DEF Frame, FrameOf
  <2> QED
    BY <1>0, <1>5, <1>10, <2>1 DEF SendLine, Frame, FrameOf
<1> QED
  BY <1>0, <1>1, <1>2, <1>4, <1>5, <1>10 DEF JobStep

\* Nobody else touches a connection that is in use, but the end of the process, which
\* also empties the table.
LEMMA OthersAnswer ==
    ASSUME IndInv,
           \/ WorkerStep \/ (\E u \in Uploads : Age(u)) \/ RemoveExpiredUploads
           \/ Terminate \/ Exit \/ Crash \/ Restart \/ OrphanExits \/ UNCHANGED vars
    PROVE  /\ outcome' = outcome /\ TableShrinks
           /\ Crash \/ abandoned' = abandoned
           /\ \/ UNCHANGED <<conn, stack>>
              \/ conn' = BrokenConns /\ stack' = <<>> /\ table' = {}
  BY DEF WorkerStep, WorkerSetup, WorkerCheck, WorkerSend, WorkerFinish, WorkerFails,
         WorkerTo, Age, RemoveExpiredUploads, Terminate, Exit, Crash, Restart, OrphanExits,
         Forget, TableShrinks, vars, uploadVars, jobVars, histVars

\* What a step of the service does to connections and frames: somebody sends on a
\* free connection or takes an answer from one, a handler starts, or one ends.
Answers ==
    \/ \E k \in Conns, r \in Request :
         conn[k].state = "free" /\ conn' = [conn EXCEPT ![k] = Waiting(r)]
         /\ UNCHANGED <<stack, outcome>>
    \/ \E k \in Conns : /\ conn[k].state = "answered" /\ conn' = [conn EXCEPT ![k] = Free]
                        /\ UNCHANGED <<stack, outcome>>
    \/ \E k \in Conns, ok \in BOOLEAN, u \in Uploads \cup {NoUpload} :
         /\ conn[k].state = "waiting" /\ conn' = [conn EXCEPT ![k] = Answered(ok, u)]
         /\ conn[k].req.cmd = "commitRasterUpload" => ~ok
         /\ UNCHANGED <<stack, outcome>>
    \/ \E k \in Conns, f \in Frame :
         /\ conn[k].state = "waiting" /\ conn' = [conn EXCEPT ![k] = Serving]
         /\ stack' = <<f>> \o stack /\ f.conn = k
         /\ conn[k].req.cmd = "commitRasterUpload" =>
              f.kind = "spooled" /\ f.upload = conn[k].req.upload
         /\ UNCHANGED outcome
    \/ \E ok \in BOOLEAN, why \in {"printed", "canceled", "failed"} :
         stack /= <<>> /\ Return(ok, why) /\ (ok => why = "printed")
    \/ \E f \in Frame :
         /\ stack /= <<>> /\ stack' = <<f>> \o Tail(stack)
         /\ f.conn = Top.conn /\ f.kind = Top.kind /\ f.upload = Top.upload
         /\ UNCHANGED <<conn, outcome>>
    \/ conn' = BrokenConns /\ stack' = <<>> /\ UNCHANGED outcome
    \/ UNCHANGED <<conn, stack, outcome>>

LEMMA NextAnswers ==
    ASSUME IndInv, FramesInv, [Next]_vars
    PROVE  Answers
<1>1. ASSUME NEW k \in Conns, NEW r \in Request, Send(k, r) PROVE Answers
  <2>1. conn[k].state = "free" /\ conn' = [conn EXCEPT ![k] = Waiting(r)]
        /\ UNCHANGED <<stack, outcome>>
    BY <1>1 DEF Send, Free, jobVars, histVars
  <2> QED
    BY <2>1 DEF Answers
<1>2. ASSUME NEW k \in Conns, Receive(k) PROVE Answers
  <2>1. conn[k].state = "answered" /\ conn' = [conn EXCEPT ![k] = Free]
        /\ UNCHANGED <<stack, outcome>>
    BY <1>2 DEF Receive, jobVars, histVars
  <2> QED
    BY <2>1 DEF Answers
<1>3. ASSUME NEW k \in Conns, Serve(k) PROVE Answers
  <2>0. conn[k].state = "waiting" /\ outcome' = outcome
    BY <1>3, ServeAnswers
  <2>1. ASSUME NEW ok \in BOOLEAN, NEW u \in Uploads \cup {NoUpload}, Replied(k, ok, u)
        PROVE  Answers
    BY <2>0, <2>1 DEF Answers, Replied
  <2>2. ASSUME NEW f \in Frame, Started(k, f)
        PROVE  Answers
    BY <2>0, <2>2 DEF Answers, Started
  <2> QED
    BY <1>3, <2>1, <2>2, ServeAnswers
<1>4. CASE JobStep
  BY <1>4, JobAnswers DEF Answers
<1>5. CASE \/ WorkerStep \/ (\E u \in Uploads : Age(u)) \/ RemoveExpiredUploads
           \/ Terminate \/ Exit \/ Crash \/ Restart \/ OrphanExits \/ UNCHANGED vars
  BY <1>5, OthersAnswer DEF Answers
<1> QED
  BY <1>1, <1>2, <1>3, <1>4, <1>5 DEF Next

\* The frames keep their connections.
LEMMA FramesKept ==
    ASSUME TypeOK, TypeOK', FramesInv, Answers
    PROVE  FramesInv'
<1>0. /\ stack \in Seq(Frame) /\ stack' \in Seq(Frame)
      /\ conn \in [Conns -> ConnState] /\ \A i \in DOMAIN stack : stack[i].conn \in Conns
  BY DEF TypeOK, Frame, FrameOf
<1>1. ASSUME NEW k \in Conns, NEW v, conn[k].state /= "serving",
             conn' = [conn EXCEPT ![k] = v], stack' = stack
      PROVE  FramesInv'
  BY <1>0, <1>1 DEF FramesInv
<1>2. ASSUME NEW k \in Conns, NEW f \in Frame, conn[k].state = "waiting",
             conn' = [conn EXCEPT ![k] = Serving], stack' = <<f>> \o stack, f.conn = k
      PROVE  FramesInv'
  <2>1. /\ Len(stack') = Len(stack) + 1 /\ Head(stack') = f
        /\ \A i \in 2 .. Len(stack) + 1 : stack'[i] = stack[i - 1]
    BY <1>0, <1>2, StackPush
  <2>2. stack'[1] = f /\ DOMAIN stack = 1 .. Len(stack) /\ DOMAIN stack' = 1 .. Len(stack) + 1
        /\ Len(stack) \in Nat
    BY <1>0, <2>1
  <2>3. \A i \in DOMAIN stack : conn[stack[i].conn].state = "serving" /\ stack[i].conn /= k
    BY <1>2 DEF FramesInv
  <2>4. conn'[k].state = "serving" /\ \A q \in Conns \ {k} : conn'[q] = conn[q]
    BY <1>0, <1>2 DEF Serving
  <2>5. \A i \in DOMAIN stack' : i = 1 \/ (i - 1 \in DOMAIN stack /\ stack'[i] = stack[i - 1])
    BY <2>1, <2>2
  <2>6. \A i \in DOMAIN stack' : conn'[stack'[i].conn].state = "serving"
    BY <1>0, <1>2, <2>2, <2>3, <2>4, <2>5
  <2>7. ASSUME NEW i \in DOMAIN stack', NEW j \in DOMAIN stack', i /= j
        PROVE  stack'[i].conn /= stack'[j].conn
    <3>1. CASE i = 1
      BY <1>2, <2>2, <2>3, <2>5, <2>7, <3>1
    <3>2. CASE j = 1
      BY <1>2, <2>2, <2>3, <2>5, <2>7, <3>2
    <3>3. CASE i /= 1 /\ j /= 1
      <4>1. i - 1 /= j - 1
        BY <2>2, <2>7
      <4> QED
        BY <2>5, <3>3, <4>1 DEF FramesInv
    <3> QED
      BY <3>1, <3>2, <3>3
  <2> QED
    BY <2>6, <2>7 DEF FramesInv
<1>3. ASSUME NEW ok, NEW why, stack /= <<>>, Return(ok, why) PROVE FramesInv'
  <2>1. /\ stack' = Tail(stack) /\ conn' = [conn EXCEPT ![stack[1].conn] = Answered(ok, NoUpload)]
    BY <1>0, <1>3, StackTop DEF Return
  <2>2. \A i \in DOMAIN stack' : i + 1 \in DOMAIN stack /\ stack'[i] = stack[i + 1] /\ i + 1 /= 1
    BY <1>0, <1>3, <2>1, StackTop
  <2>3. 1 \in DOMAIN stack
    BY <1>0, <1>3
  <2>4. \A i \in DOMAIN stack' : stack'[i].conn /= stack[1].conn /\ stack'[i].conn \in Conns
    BY <1>0, <2>2, <2>3 DEF FramesInv
  <2>5. \A i \in DOMAIN stack' : conn'[stack'[i].conn].state = "serving"
    BY <1>0, <2>1, <2>2, <2>4 DEF FramesInv
  <2>6. ASSUME NEW i \in DOMAIN stack', NEW j \in DOMAIN stack', i /= j
        PROVE  stack'[i].conn /= stack'[j].conn
    <3>1. i + 1 /= j + 1
      BY <1>0, <2>6
    <3> QED
      BY <2>2, <3>1 DEF FramesInv
  <2> QED
    BY <2>5, <2>6 DEF FramesInv
<1>4. ASSUME NEW f \in Frame, stack /= <<>>, stack' = <<f>> \o Tail(stack),
             f.conn = Top.conn, conn' = conn
      PROVE  FramesInv'
  <2>1. /\ Len(stack') = Len(stack) /\ Head(stack') = f
        /\ \A i \in 2 .. Len(stack) : stack'[i] = stack[i]
    BY <1>0, <1>4, StackStep
  <2>2. DOMAIN stack' = DOMAIN stack /\ \A i \in DOMAIN stack : stack'[i].conn = stack[i].conn
    BY <1>0, <1>4, <2>1, StackTop
  <2>3. \A i \in DOMAIN stack' : conn'[stack'[i].conn].state = "serving"
    BY <1>4, <2>2 DEF FramesInv
  <2>4. \A i, j \in DOMAIN stack' : i /= j => stack'[i].conn /= stack'[j].conn
    BY <2>2 DEF FramesInv
  <2> QED
    BY <2>3, <2>4 DEF FramesInv
<1>5. CASE stack' = <<>>
  BY <1>5 DEF FramesInv
<1>6. CASE UNCHANGED <<conn, stack>>
  BY <1>6 DEF FramesInv
<1> QED
  BY <1>1, <1>2, <1>3, <1>4, <1>5, <1>6 DEF Answers

\* A connection is given up by whoever takes its answer and by nobody else.
LEMMA UseKept ==
    ASSUME TypeOK, Answers, NEW k \in Conns, conn[k].state /= "free"
    PROVE  \/ conn'[k].state /= "free"
           \/ conn[k].state = "answered" /\ conn' = [conn EXCEPT ![k] = Free]
<1>0. conn \in [Conns -> ConnState]
  BY DEF TypeOK
<1>1. ASSUME NEW q \in Conns, NEW v, v.state /= "free", conn' = [conn EXCEPT ![q] = v]
      PROVE  conn'[k].state /= "free"
  BY <1>0, <1>1
<1>2. \A r : Waiting(r).state /= "free"
  BY DEF Waiting
<1>3. \A ok, u : Answered(ok, u).state /= "free"
  BY DEF Answered
<1>4. Serving.state /= "free"
  BY DEF Serving
<1>5. ASSUME NEW ok, NEW why, stack /= <<>>, Return(ok, why) PROVE conn'[k].state /= "free"
  <2>1. Top.conn \in Conns
    BY <1>5, StackTop DEF TypeOK, Frame, FrameOf
  <2> QED
    BY <1>1, <1>3, <1>5, <2>1 DEF Return
<1>6. CASE conn' = BrokenConns
  BY <1>3, <1>6 DEF BrokenConns
<1>7. ASSUME NEW q \in Conns, conn' = [conn EXCEPT ![q] = Free], conn[q].state = "answered",
             q /= k
      PROVE  conn'[k].state /= "free"
  BY <1>0, <1>7
<1>8. ASSUME NEW q \in Conns, NEW r \in Request, conn' = [conn EXCEPT ![q] = Waiting(r)]
      PROVE  conn'[k].state /= "free"
  BY <1>1, <1>2, <1>8
<1>9. ASSUME NEW q \in Conns, NEW ok \in BOOLEAN, NEW u \in Uploads \cup {NoUpload},
             conn' = [conn EXCEPT ![q] = Answered(ok, u)]
      PROVE  conn'[k].state /= "free"
  BY <1>1, <1>3, <1>9
<1>10. ASSUME NEW q \in Conns, conn' = [conn EXCEPT ![q] = Serving]
       PROVE  conn'[k].state /= "free"
  BY <1>1, <1>4, <1>10
<1>11. CASE conn' = conn
  BY <1>11
<1> QED
  BY <1>5, <1>6, <1>7, <1>8, <1>9, <1>10, <1>11 DEF Answers

\* What a job thread can find on the connection of its commit stays so.
LEMMA CommitKept ==
    ASSUME TypeOK, TypeOK', FramesInv, Answers, OutcomeStays,
           NEW k \in Conns, NEW u \in Uploads, CommitAt(k, u), conn'[k].state /= "free"
    PROVE  CommitAt(k, u)'
<1>0. /\ stack \in Seq(Frame) /\ stack' \in Seq(Frame)
      /\ conn \in [Conns -> ConnState] /\ \A i \in DOMAIN stack : stack[i].conn \in Conns
      /\ outcome \in [Uploads -> {"none", "printed", "canceled", "failed"}]
  BY DEF TypeOK, Frame, FrameOf
<1>1. outcome[u] = "printed" => outcome'[u] = "printed"
  BY DEF OutcomeStays
<1>2. conn[k].state \in {"waiting", "serving", "answered"}
  BY DEF CommitAt
<1>3. ASSUME NEW q \in Conns \ {k}, NEW v, conn' = [conn EXCEPT ![q] = v], stack' = stack
      PROVE  CommitAt(k, u)'
  <2>1. conn'[k] = conn[k]
    BY <1>0, <1>3
  <2> QED
    BY <1>1, <1>3, <2>1 DEF CommitAt
<1>4. ASSUME NEW q \in Conns, NEW r \in Request, conn[q].state = "free",
             conn' = [conn EXCEPT ![q] = Waiting(r)], UNCHANGED <<stack, outcome>>
      PROVE  CommitAt(k, u)'
  BY <1>2, <1>3, <1>4
<1>5. ASSUME NEW q \in Conns, conn[q].state = "answered", conn' = [conn EXCEPT ![q] = Free],
             UNCHANGED <<stack, outcome>>
      PROVE  CommitAt(k, u)'
  <2>1. q /= k
    BY <1>0, <1>5 DEF Free
  <2> QED
    BY <1>3, <1>5, <2>1
<1>6. ASSUME NEW q \in Conns, NEW ok \in BOOLEAN, NEW v \in Uploads \cup {NoUpload},
             conn[q].state = "waiting", conn' = [conn EXCEPT ![q] = Answered(ok, v)],
             conn[q].req.cmd = "commitRasterUpload" => ~ok, UNCHANGED <<stack, outcome>>
      PROVE  CommitAt(k, u)'
  <2>1. CASE q = k
    <3>1. conn'[k] = Answered(ok, v) /\ ~ok
      BY <1>0, <1>6, <2>1 DEF CommitAt
    <3>2. conn'[k].state = "answered" /\ ~conn'[k].ok
      BY <3>1 DEF Answered
    <3> QED
      BY <3>2 DEF CommitAt
  <2> QED
    BY <1>3, <1>6, <2>1
<1>7. ASSUME NEW q \in Conns, NEW f \in Frame, conn[q].state = "waiting",
             conn' = [conn EXCEPT ![q] = Serving], stack' = <<f>> \o stack, f.conn = q,
             conn[q].req.cmd = "commitRasterUpload" =>
               f.kind = "spooled" /\ f.upload = conn[q].req.upload
      PROVE  CommitAt(k, u)'
  <2>1. \A i \in DOMAIN stack' :
          stack'[i] = f \/ (i - 1 \in DOMAIN stack /\ stack'[i] = stack[i - 1])
    <3>1. /\ Len(stack') = Len(stack) + 1 /\ Head(stack') = f
          /\ \A i \in 2 .. Len(stack) + 1 : stack'[i] = stack[i - 1]
      BY <1>0, <1>7, StackPush
    <3> QED
      BY <1>0, <3>1
  <2>2. \A i \in DOMAIN stack : stack[i].conn /= q
    BY <1>7 DEF FramesInv
  <2>3. CASE q = k
    <3>1. conn'[k].state = "serving"
      BY <1>0, <1>7, <2>3 DEF Serving
    <3>2. f.kind = "spooled" /\ f.upload = u
      BY <1>7, <2>3 DEF CommitAt
    <3> QED
      BY <2>1, <2>2, <2>3, <3>1, <3>2 DEF CommitAt
  <2>4. CASE q /= k
    <3>1. conn'[k] = conn[k]
      BY <1>0, <1>7, <2>4
    <3>2. \A i \in DOMAIN stack' :
            stack'[i].conn = k => i - 1 \in DOMAIN stack /\ stack'[i] = stack[i - 1]
      BY <1>7, <2>1, <2>4
    <3> QED
      BY <1>1, <3>1, <3>2 DEF CommitAt
  <2> QED
    BY <2>3, <2>4
<1>8. ASSUME NEW ok \in BOOLEAN, NEW why \in {"printed", "canceled", "failed"},
             stack /= <<>>, Return(ok, why), ok => why = "printed"
      PROVE  CommitAt(k, u)'
  <2>0. /\ Top = stack[1] /\ 1 \in DOMAIN stack /\ Top.conn \in Conns /\ stack' = Tail(stack)
        /\ conn' = [conn EXCEPT ![Top.conn] = Answered(ok, NoUpload)]
    BY <1>0, <1>8, StackTop DEF Return
  <2>1. \A i \in DOMAIN stack' : i + 1 \in DOMAIN stack /\ stack'[i] = stack[i + 1]
    BY <1>0, <1>8, <2>0, StackTop
  <2>2. CASE Top.conn = k
    <3>1. conn[k].state = "serving"
      BY <2>0, <2>2 DEF FramesInv
    <3>2. Top.kind = "spooled" /\ Top.upload = u
      BY <2>0, <2>2, <3>1 DEF CommitAt
    <3>3. outcome' = [outcome EXCEPT ![u] = why]
      BY <1>8, <3>2 DEF Return
    <3>4. conn'[k] = Answered(ok, NoUpload)
      BY <1>0, <2>0, <2>2
    <3>5. conn'[k].state = "answered" /\ conn'[k].ok = ok
      BY <3>4 DEF Answered
    <3>6. ok => outcome'[u] = "printed"
      BY <1>0, <1>8, <3>3
    <3> QED
      BY <3>5, <3>6 DEF CommitAt
  <2>3. CASE Top.conn /= k
    <3>1. conn'[k] = conn[k]
      BY <1>0, <2>0, <2>3
    <3> QED
      BY <1>1, <2>1, <3>1 DEF CommitAt
  <2> QED
    BY <2>2, <2>3
<1>9. ASSUME NEW f \in Frame, stack /= <<>>, stack' = <<f>> \o Tail(stack),
             f.conn = Top.conn, f.kind = Top.kind, f.upload = Top.upload,
             UNCHANGED <<conn, outcome>>
      PROVE  CommitAt(k, u)'
  <2>1. /\ Len(stack') = Len(stack) /\ Head(stack') = f
        /\ \A i \in 2 .. Len(stack) : stack'[i] = stack[i]
    BY <1>0, <1>9, StackStep
  <2>2. DOMAIN stack' = DOMAIN stack
        /\ \A i \in DOMAIN stack : /\ stack'[i].conn = stack[i].conn
                                   /\ stack'[i].kind = stack[i].kind
                                   /\ stack'[i].upload = stack[i].upload
    BY <1>0, <1>9, <2>1, StackTop
  <2> QED
    BY <1>9, <2>2 DEF CommitAt
<1>10. CASE conn' = BrokenConns /\ stack' = <<>>
  <2>1. CASE conn[k].state \in {"waiting", "serving"}
    <3>1. conn'[k] = Answered(FALSE, NoUpload)
      BY <1>10, <2>1 DEF BrokenConns
    <3>2. conn'[k].state = "answered" /\ ~conn'[k].ok
      BY <3>1 DEF Answered
    <3> QED
      BY <3>2 DEF CommitAt
  <2>2. CASE conn[k].state = "answered"
    <3>1. conn'[k] = conn[k]
      BY <1>10, <2>2 DEF BrokenConns
    <3> QED
      BY <1>1, <2>2, <3>1 DEF CommitAt
  <2> QED
    BY <1>2, <2>1, <2>2
<1>11. CASE UNCHANGED <<conn, stack, outcome>>
  BY <1>11 DEF CommitAt
<1> QED
  BY <1>4, <1>5, <1>6, <1>7, <1>8, <1>9, <1>10, <1>11 DEF Answers

-----------------------------------------------------------------------------
(* The threads of the clients.                                              *)

\* No two threads wait on one connection, and none waits on a free one.
SlotsInv ==
    /\ \A c \in Clients : /\ job[c].slot /= NoConn => conn[job[c].slot].state /= "free"
                          /\ gui[c].slot /= NoConn => conn[gui[c].slot].state /= "free"
    /\ \A c, d \in Clients : job[c].slot /= NoConn =>
          job[c].slot /= gui[d].slot /\ (c /= d => job[c].slot /= job[d].slot)
    /\ \A c, d \in Clients : c /= d /\ gui[c].slot /= NoConn => gui[c].slot /= gui[d].slot

\* A thread holds a connection only where it asks, a chunk that is asked for is one of
\* the file, and a commit waits where CommitAt says.
JobInv(c) ==
    /\ job[c].slot /= NoConn => job[c].pc \in Asking
    /\ At(c, "append") /\ job[c].slot /= NoConn => job[c].offset < Chunks
    /\ At(c, "commit") /\ job[c].slot /= NoConn =>
          job[c].upload \in Uploads /\ CommitAt(job[c].slot, job[c].upload)
    /\ At(c, "done") /\ job[c].ok =>
          job[c].upload \in Uploads /\ outcome[job[c].upload] = "printed"
GuiInv(c) == gui[c].slot /= NoConn => gui[c].pc = "abort"

ThreadsInv == SlotsInv /\ \A c \in Clients : JobInv(c) /\ GuiInv(c)

\* What a step does to the service, as the threads see it.
Seen == TypeOK /\ TypeOK' /\ FramesInv /\ Answers /\ OutcomeStays

\* A thread that does not move keeps its invariant while its connection stays in use.
LEMMA JobKept ==
    ASSUME Seen, ClientTypeOK, NEW c \in Clients, JobInv(c), job'[c] = job[c],
           job[c].slot /= NoConn => conn'[job[c].slot].state /= "free"
    PROVE  JobInv(c)'
<1>1. job[c].slot \in Conns \cup {NoConn}
  BY DEF ClientTypeOK
<1>2. CASE At(c, "commit") /\ job[c].slot /= NoConn
  <2>1. job[c].upload \in Uploads /\ CommitAt(job[c].slot, job[c].upload)
    BY <1>2 DEF JobInv
  <2>2. PICK k \in Conns, u \in Uploads : k = job[c].slot /\ u = job[c].upload
    BY <1>1, <1>2, <2>1
  <2>3. CommitAt(k, u)'
    BY <1>2, <2>1, <2>2, CommitKept DEF Seen
  <2>4. k = job'[c].slot /\ u = job'[c].upload
    BY <2>2
  <2>5. CommitAt(job[c].slot, job[c].upload)'
    BY <2>3, <2>4 DEF CommitAt
  <2> QED
    BY <1>2, <2>2, <2>5 DEF JobInv, At, Asking
<1>3. CASE ~(At(c, "commit") /\ job[c].slot /= NoConn)
  BY <1>3 DEF JobInv, At, Seen, OutcomeStays
<1> QED
  BY <1>2, <1>3

\* The slots stay sound while threads only let go and what they hold stays in use.
LEMMA SlotsKept ==
    ASSUME SlotsInv,
           \A d \in Clients : /\ job'[d].slot \in {job[d].slot, NoConn}
                              /\ gui'[d].slot \in {gui[d].slot, NoConn}
                              /\ job'[d].slot /= NoConn => conn'[job[d].slot].state /= "free"
                              /\ gui'[d].slot /= NoConn => conn'[gui[d].slot].state /= "free"
    PROVE  SlotsInv'
BY DEF SlotsInv

\* A step of the service itself takes no connection from who waits there.
LEMMA ServiceHolds ==
    ASSUME IndInv, FramesInv, NEW k \in Conns, conn[k].state /= "free",
           Service \/ Terminate \/ Crash
    PROVE  conn'[k].state /= "free"
<1>0. conn \in [Conns -> ConnState] /\ TypeOK
  BY DEF IndInv, TypeOK
<1>1. ASSUME NEW q \in Conns, NEW v, v.state /= "free", conn' = [conn EXCEPT ![q] = v]
      PROVE  conn'[k].state /= "free"
  BY <1>0, <1>1
<1>2. \A ok, u : Answered(ok, u).state /= "free"
  BY DEF Answered
<1>3. Serving.state /= "free"
  BY DEF Serving
<1>4. ASSUME NEW q \in Conns, Serve(q) PROVE conn'[k].state /= "free"
  <2>1. ASSUME NEW ok, NEW u, Replied(q, ok, u) PROVE conn'[k].state /= "free"
    BY <1>1, <1>2, <2>1 DEF Replied
  <2>2. ASSUME NEW f, Started(q, f) PROVE conn'[k].state /= "free"
    BY <1>1, <1>3, <2>2 DEF Started
  <2> QED
    BY <1>4, <2>1, <2>2, ServeAnswers
<1>5. CASE JobStep
  <2>1. CASE conn' = conn
    BY <2>1
  <2>2. ASSUME NEW ok, NEW why, stack /= <<>>, Return(ok, why) PROVE conn'[k].state /= "free"
    <3>1. Top.conn \in Conns
      BY <1>0, <2>2, StackTop DEF TypeOK, Frame, FrameOf
    <3> QED
      BY <1>1, <1>2, <2>2, <3>1 DEF Return
  <2> QED
    BY <1>5, <2>1, <2>2, JobAnswers
<1>6. CASE \/ WorkerStep \/ (\E u \in Uploads : Age(u)) \/ RemoveExpiredUploads
           \/ Terminate \/ Exit \/ Crash \/ Restart \/ OrphanExits
  <2>1. CASE conn' = BrokenConns
    BY <1>2, <2>1 DEF BrokenConns
  <2> QED
    BY <1>6, <2>1, OthersAnswer
<1> QED
  BY <1>4, <1>5, <1>6 DEF Service, Replace


JobType == [pc : Asking \cup {"idle", "raster", "spooled", "arm", "verify", "handOver",
                              "awaitExit", "done"},
            slot : Conns \cup {NoConn}, upload : Uploads \cup {NoUpload},
            offset : 0 .. Chunks, ok : BOOLEAN]

\* m_uploadActive is up exactly between its two stores.
Armed(c) == c \in uploadActive <=> job[c].pc \in Uploading
ArmedInv == \A c \in Clients : Armed(c)

SysInv == IndInv /\ EndedInv /\ FramesInv /\ ClientTypeOK /\ ThreadsInv /\ ArmedInv

\* A thread that asks gets a connection nobody uses.
LEMMA AskKeeps ==
    ASSUME Seen, ClientTypeOK, ThreadsInv, NEW c \in Clients, Ask(c)
    PROVE  ClientTypeOK' /\ ThreadsInv'
<1>1. PICK k \in Conns, r \in Request :
          Asks(c, r) /\ Send(k, r) /\ job' = [job EXCEPT ![c].slot = k]
  BY DEF Ask
<1>0. conn \in [Conns -> ConnState]
  BY DEF Seen, TypeOK
<1>2. /\ conn[k].state = "free" /\ conn' = [conn EXCEPT ![k] = Waiting(r)]
      /\ UNCHANGED <<gui, flagVars, timeouts, clicks, foreign, inTime, unheard>>
  <2>1. conn[k] = Free /\ conn' = [conn EXCEPT ![k] = Waiting(r)]
    BY <1>1 DEF Send
  <2>2. conn[k].state = "free"
    BY <2>1 DEF Free
  <2> QED
    BY <2>1, <2>2 DEF Ask, ClientLocal
<1>3. conn'[k] = Waiting(r) /\ \A q \in Conns \ {k} : conn'[q] = conn[q]
  BY <1>0, <1>2
<1>4. conn'[k].state = "waiting" /\ conn'[k].req = r
  BY <1>3 DEF Waiting
<1>5. /\ job[c].slot = NoConn /\ job[c].pc \in Asking /\ job'[c] = [job[c] EXCEPT !.slot = k]
      /\ \A d \in Clients \ {c} : job'[d] = job[d]
  BY <1>1 DEF Ask, Asks, Asking, ClientTypeOK
<1>6. ClientTypeOK'
  <2>1. UNCHANGED <<gui, outputCancel, cancelUpload, uploadActive, timeouts, clicks,
                    foreign, inTime, unheard>>
    BY <1>2 DEF flagVars
  <2>2. job \in [Clients -> JobType]
    BY DEF ClientTypeOK, JobType
  <2>3. [job[c] EXCEPT !.slot = k] \in JobType
    BY <2>2 DEF JobType
  <2>4. job' = [job EXCEPT ![c] = [job[c] EXCEPT !.slot = k]]
    BY <1>1
  <2>5. job' \in [Clients -> JobType]
    BY <2>2, <2>3, <2>4
  <2> QED
    BY <2>1, <2>5 DEF ClientTypeOK, JobType
<1>7. \A d \in Clients : job[d].slot /= k /\ gui[d].slot /= k
  BY <1>2, SystemAssumption DEF ThreadsInv, SlotsInv
<1>8. job'[c].slot = k /\ job'[c].pc = job[c].pc /\ job'[c].upload = job[c].upload
      /\ job'[c].offset = job[c].offset
  BY <1>5 DEF ClientTypeOK
<1>9. SlotsInv'
  <2>1. gui' = gui /\ k /= NoConn
    BY <1>2, SystemAssumption
  <2>2. \A d \in Clients : /\ job[d].slot \in Conns \cup {NoConn}
                           /\ gui[d].slot \in Conns \cup {NoConn}
    BY DEF ClientTypeOK
  <2>3. \A d \in Clients : /\ gui[d].slot /= NoConn => conn'[gui[d].slot].state /= "free"
                           /\ job[d].slot /= NoConn => conn'[job[d].slot].state /= "free"
    BY <1>3, <1>7, <2>2 DEF ThreadsInv, SlotsInv
  <2>4. \A d \in Clients : job'[d].slot \in {job[d].slot, k}
                           /\ (job'[d].slot = k => d = c)
    BY <1>5, <1>7, <1>8
  <2>5. \A d, e \in Clients : job'[d].slot /= NoConn =>
          job'[d].slot /= gui'[e].slot /\ (d /= e => job'[d].slot /= job'[e].slot)
    BY <1>7, <2>1, <2>4 DEF ThreadsInv, SlotsInv
  <2>6. \A d \in Clients : /\ gui'[d].slot /= NoConn => conn'[gui'[d].slot].state /= "free"
                           /\ job'[d].slot /= NoConn => conn'[job'[d].slot].state /= "free"
    BY <1>4, <2>1, <2>3, <2>4
  <2> QED
    BY <2>1, <2>5, <2>6 DEF ThreadsInv, SlotsInv
<1>10. JobInv(c)'
  <2>1. At(c, "append") => job[c].offset < Chunks
    BY <1>1 DEF Asks, MayAppend, At
  <2>2. At(c, "commit") => r.cmd = "commitRasterUpload" /\ r.upload = job[c].upload
    BY <1>1 DEF Asks, At
  <2>3. At(c, "commit") => job[c].upload \in Uploads
    BY <1>2, <1>4, <2>2, RequestKinds DEF Seen, Request, Plain, OnUpload, Append_
  <2>4. At(c, "commit") => CommitAt(job[c].slot, job[c].upload)'
    BY <1>4, <1>8, <2>2 DEF CommitAt
  <2> QED
    BY <1>5, <1>8, <2>1, <2>3, <2>4 DEF JobInv, At, Asking
<1>11. ASSUME NEW d \in Clients \ {c} PROVE JobInv(d)'
  <2>1. job[d].slot \in Conns \cup {NoConn} /\ job[d].slot /= k
    BY <1>7 DEF ClientTypeOK
  <2> QED
    BY <1>3, <1>5, <1>11, <2>1, JobKept DEF ThreadsInv, SlotsInv
<1>12. \A d \in Clients : GuiInv(d)'
  BY <1>2 DEF ThreadsInv, GuiInv
<1> QED
  BY <1>6, <1>9, <1>10, <1>11, <1>12 DEF ThreadsInv

\* So does a GUI thread.
LEMMA AskAbortKeeps ==
    ASSUME Seen, ClientTypeOK, ThreadsInv, NEW c \in Clients, AskAbort(c)
    PROVE  ClientTypeOK' /\ ThreadsInv'
<1>1. PICK k \in Conns :
          Send(k, [cmd |-> "abortPrint"]) /\ gui' = [gui EXCEPT ![c].slot = k]
  BY DEF AskAbort
<1>0. conn \in [Conns -> ConnState]
  BY DEF Seen, TypeOK
<1>2. /\ conn[k].state = "free" /\ conn' = [conn EXCEPT ![k] = Waiting([cmd |-> "abortPrint"])]
      /\ UNCHANGED <<job, flagVars, timeouts, clicks, foreign, inTime, unheard>>
  <2>1. conn[k] = Free /\ conn' = [conn EXCEPT ![k] = Waiting([cmd |-> "abortPrint"])]
    BY <1>1 DEF Send
  <2>2. conn[k].state = "free"
    BY <2>1 DEF Free
  <2> QED
    BY <2>1, <2>2 DEF AskAbort, ClientLocal
<1>3. conn'[k].state = "waiting" /\ \A q \in Conns \ {k} : conn'[q] = conn[q]
  BY <1>0, <1>2 DEF Waiting
<1>5. /\ gui'[c] = [gui[c] EXCEPT !.slot = k] /\ gui[c].pc = "abort"
      /\ \A d \in Clients \ {c} : gui'[d] = gui[d]
  BY <1>1 DEF AskAbort, ClientTypeOK
<1>6. ClientTypeOK'
  <2>1. UNCHANGED <<job, outputCancel, cancelUpload, uploadActive, timeouts, clicks,
                    foreign, inTime, unheard>>
    BY <1>2 DEF flagVars
  <2>2. k \in Conns \cup {NoConn}
    OBVIOUS
  <2> QED
    BY <1>1, <2>1, <2>2 DEF ClientTypeOK
<1>7. \A d \in Clients : job[d].slot /= k /\ gui[d].slot /= k
  BY <1>2, SystemAssumption DEF ThreadsInv, SlotsInv
<1>8. gui'[c].slot = k /\ gui'[c].pc = gui[c].pc
  BY <1>5 DEF ClientTypeOK
<1>9. \A d \in Clients : /\ job[d].slot \in Conns \cup {NoConn}
                         /\ gui[d].slot \in Conns \cup {NoConn}
  BY DEF ClientTypeOK
<1>10. \A d \in Clients : /\ gui[d].slot /= NoConn => conn'[gui[d].slot].state /= "free"
                          /\ job[d].slot /= NoConn => conn'[job[d].slot].state /= "free"
  BY <1>3, <1>7, <1>9 DEF ThreadsInv, SlotsInv
<1>11. SlotsInv'
  <2>1. job' = job /\ k /= NoConn
    BY <1>2, SystemAssumption
  <2>2. \A d \in Clients : gui'[d].slot \in {gui[d].slot, k}
                           /\ (gui'[d].slot = k => d = c)
    BY <1>5, <1>7, <1>8
  <2>3. \A d, e \in Clients : job'[d].slot /= NoConn =>
          job'[d].slot /= gui'[e].slot /\ (d /= e => job'[d].slot /= job'[e].slot)
    BY <1>7, <2>1, <2>2 DEF ThreadsInv, SlotsInv
  <2>4. \A d, e \in Clients : d /= e /\ gui'[d].slot /= NoConn =>
          gui'[d].slot /= gui'[e].slot
    BY <1>7, <2>2 DEF ThreadsInv, SlotsInv
  <2>5. \A d \in Clients : /\ gui'[d].slot /= NoConn => conn'[gui'[d].slot].state /= "free"
                           /\ job'[d].slot /= NoConn => conn'[job'[d].slot].state /= "free"
    BY <1>3, <1>10, <2>1, <2>2
  <2> QED
    BY <2>3, <2>4, <2>5 DEF SlotsInv
<1>12. ASSUME NEW d \in Clients PROVE JobInv(d)'
  BY <1>2, <1>10, <1>12, JobKept DEF ThreadsInv
<1>13. \A d \in Clients : GuiInv(d)'
  BY <1>5, <1>8 DEF ThreadsInv, GuiInv
<1> QED
  BY <1>6, <1>11, <1>12, <1>13 DEF ThreadsInv

\* A step that moves neither thread of a client leaves them what they had.
LEMMA ServiceKeeps ==
    ASSUME Seen, ClientTypeOK, ThreadsInv, UNCHANGED <<job, gui>>,
           \A d \in Clients : /\ gui[d].slot /= NoConn => conn'[gui[d].slot].state /= "free"
                              /\ job[d].slot /= NoConn => conn'[job[d].slot].state /= "free"
    PROVE  ThreadsInv'
<1>1. SlotsInv'
  BY SlotsKept DEF ThreadsInv
<1>2. ASSUME NEW d \in Clients PROVE JobInv(d)' /\ GuiInv(d)'
  BY JobKept DEF ThreadsInv, GuiInv
<1> QED
  BY <1>1, <1>2 DEF ThreadsInv


\* A job thread that lets go of its connection disturbs no other thread.
LEMMA JobLetsGo ==
    ASSUME Seen, ClientTypeOK, ThreadsInv, NEW c \in Clients, JobInv(c)',
           gui' = gui, job'[c].slot = NoConn, \A d \in Clients \ {c} : job'[d] = job[d],
           \/ conn' = conn
           \/ job[c].slot \in Conns /\ conn' = [conn EXCEPT ![job[c].slot] = Free]
    PROVE  ThreadsInv'
<1>0. conn \in [Conns -> ConnState]
  BY DEF Seen, TypeOK
<1>1. \A d \in Clients : /\ job[d].slot \in Conns \cup {NoConn}
                         /\ gui[d].slot \in Conns \cup {NoConn}
  BY DEF ClientTypeOK
<1>2. \A q \in Conns : conn[q].state /= "free" /\ q /= job[c].slot => conn'[q].state /= "free"
  BY <1>0
<1>3. \A q \in Conns : conn[q].state /= "free" /\ job[c].slot = NoConn => conn'[q].state /= "free"
  BY <1>2, SystemAssumption
<1>4. \A d \in Clients \ {c} : job[d].slot /= NoConn => conn'[job[d].slot].state /= "free"
  BY <1>1, <1>2 DEF ThreadsInv, SlotsInv
<1>5. \A d \in Clients : gui[d].slot /= NoConn => conn'[gui[d].slot].state /= "free"
  BY <1>1, <1>2 DEF ThreadsInv, SlotsInv
<1>6. SlotsInv'
  BY <1>4, <1>5, SlotsKept DEF ThreadsInv
<1>7. ASSUME NEW d \in Clients \ {c} PROVE JobInv(d)'
  BY <1>4, JobKept DEF ThreadsInv
<1>8. \A d \in Clients : GuiInv(d)'
  BY DEF ThreadsInv, GuiInv
<1> QED
  BY <1>6, <1>7, <1>8 DEF ThreadsInv

\* What an answer can make of a job thread.
LEMMA AfterGives ==
    ASSUME ClientTypeOK, NEW c \in Clients, NEW ok \in BOOLEAN,
           NEW u \in Uploads \cup {NoUpload}, After(c, ok, u),
           At(c, "append") /\ ok => job[c].offset < Chunks
    PROVE  /\ uploadActive' \subseteq Clients
           /\ \E j \in JobType :
                 /\ job' = [job EXCEPT ![c] = j] /\ j.slot = NoConn
                 /\ j.pc = "done" /\ j.ok =>
                       At(c, "commit") /\ ok /\ j.upload = job[c].upload
<1>0. /\ job[c] \in JobType /\ job \in [Clients -> JobType] /\ uploadActive \subseteq Clients
      /\ Chunks \in Nat
  BY ServerAssumption DEF ClientTypeOK, JobType
<1>1. uploadActive' \subseteq Clients
  BY <1>0 DEF After, Goes, TakeBack, Ends
<1>2. ASSUME NEW pc \in Asking \cup {"awaitExit"}, Goes(c, pc)
      PROVE  \E j \in JobType :
                 /\ job' = [job EXCEPT ![c] = j] /\ j.slot = NoConn /\ j.pc /= "done"
  <2>1. [job[c] EXCEPT !.pc = pc, !.slot = NoConn] \in JobType
    BY <1>0 DEF JobType
  <2> QED
    BY <1>0, <1>2, <2>1 DEF Goes, JobType, Asking
<1>3. ASSUME NEW b \in BOOLEAN, Ends(c, b)
      PROVE  \E j \in JobType :
                 /\ job' = [job EXCEPT ![c] = j] /\ j.slot = NoConn /\ j.ok = b
                 /\ j.upload = job[c].upload
  <2>1. [job[c] EXCEPT !.pc = "done", !.slot = NoConn, !.ok = b] \in JobType
    BY <1>0 DEF JobType
  <2> QED
    BY <1>0, <1>3, <2>1 DEF Ends, JobType
<1>4. CASE TakeBack(c)
  <2>1. [job[c] EXCEPT !.pc = "cleanup", !.slot = NoConn] \in JobType
    BY <1>0 DEF JobType, Asking
  <2> QED
    BY <1>0, <1>1, <1>4, <2>1 DEF TakeBack, JobType
<1>5. CASE At(c, "begin") /\ ok /\
           job' = [job EXCEPT ![c].pc = "append", ![c].slot = NoConn,
                             ![c].upload = u, ![c].offset = 0]
  <2>0. 0 \in 0 .. Chunks /\ "append" \in Asking
    BY <1>0 DEF Asking
  <2>1. [job[c] EXCEPT !.pc = "append", !.slot = NoConn, !.upload = u, !.offset = 0] \in JobType
    BY <1>0, <2>0 DEF JobType
  <2>2. job' = [job EXCEPT ![c] = [job[c] EXCEPT !.pc = "append", !.slot = NoConn,
                                                 !.upload = u, !.offset = 0]]
    BY <1>0, <1>5
  <2>3. /\ [job[c] EXCEPT !.pc = "append", !.slot = NoConn, !.upload = u, !.offset = 0].slot = NoConn
        /\ [job[c] EXCEPT !.pc = "append", !.slot = NoConn, !.upload = u, !.offset = 0].pc /= "done"
    BY <1>0 DEF JobType
  <2> QED
    BY <1>1, <2>1, <2>2, <2>3
<1>6. CASE At(c, "append") /\ ok /\ job' = [job EXCEPT ![c].slot = NoConn, ![c].offset = @ + 1]
  <2>0. job[c].offset + 1 \in 0 .. Chunks
    BY <1>0, <1>6 DEF JobType
  <2>1. [job[c] EXCEPT !.slot = NoConn, !.offset = @ + 1] \in JobType
    BY <1>0, <2>0 DEF JobType
  <2> QED
    BY <1>0, <1>1, <1>6, <2>1 DEF JobType, At
<1>7. CASE At(c, "hello") /\ Goes(c, IF ok THEN "begin" ELSE "shutdown")
  BY <1>1, <1>2, <1>7 DEF Asking
<1>8. CASE At(c, "shutdown") /\ Goes(c, "awaitExit")
  BY <1>1, <1>2, <1>8
<1>9. CASE Goes(c, "rehello") \/ Goes(c, "begin")
  BY <1>1, <1>2, <1>9 DEF Asking
<1>10. CASE Ends(c, FALSE)
  BY <1>1, <1>3, <1>10
<1>11. CASE At(c, "commit") /\ Ends(c, Committed(ok))
  BY <1>1, <1>3, <1>11 DEF Committed
<1> QED
  BY <1>4, <1>5, <1>6, <1>7, <1>8, <1>9, <1>10, <1>11 DEF After


\* Every step of a job thread.
LEMMA JobThreadKeeps ==
    ASSUME Seen, ClientTypeOK, ThreadsInv, NEW c \in Clients, Submission(c),
           ~SigTerm(c), ~SigKill(c)
    PROVE  ClientTypeOK' /\ ThreadsInv'
<1>0. /\ job[c] \in JobType /\ job \in [Clients -> JobType] /\ conn \in [Conns -> ConnState]
  BY DEF ClientTypeOK, JobType, Seen, TypeOK
<1>1. CASE Ask(c)
  BY <1>1, AskKeeps
<1>2. ASSUME NEW j \in JobType, job' = [job EXCEPT ![c] = j], j.slot = NoConn,
             j.pc = "done" => ~j.ok, gui' = gui,
             outputCancel' \subseteq Clients, cancelUpload' \subseteq Clients,
             uploadActive' \subseteq Clients, timeouts' \in 0 .. MaxTimeouts,
             unheard' \subseteq Clients, UNCHANGED <<clicks, foreign, inTime>>, conn' = conn
      PROVE  ClientTypeOK' /\ ThreadsInv'
  <2>1. job'[c] = j /\ \A d \in Clients \ {c} : job'[d] = job[d]
    BY <1>0, <1>2
  <2>2. JobInv(c)'
    BY <1>2, <2>1 DEF JobInv, At
  <2>3. ClientTypeOK'
    <3>1. job' \in [Clients -> JobType]
      BY <1>0, <1>2
    <3> QED
      BY <1>2, <3>1 DEF ClientTypeOK, JobType
  <2> QED
    BY <1>2, <2>1, <2>2, <2>3, JobLetsGo
<1>3. ASSUME NEW pc \in Asking \cup {"raster", "spooled", "arm", "verify", "handOver", "awaitExit"},
             job[c].slot = NoConn, To(c, pc), gui' = gui, conn' = conn,
             outputCancel' \subseteq Clients, cancelUpload' \subseteq Clients,
             uploadActive' \subseteq Clients,
             UNCHANGED <<timeouts, clicks, foreign, inTime, unheard>>
      PROVE  ClientTypeOK' /\ ThreadsInv'
  <2>1. [job[c] EXCEPT !.pc = pc] \in JobType
    BY <1>0 DEF JobType
  <2>2. job' = [job EXCEPT ![c] = [job[c] EXCEPT !.pc = pc]]
    BY <1>0, <1>3 DEF To
  <2>3. timeouts' \in 0 .. MaxTimeouts /\ unheard' \subseteq Clients
    BY <1>3 DEF ClientTypeOK
  <2>4. [job[c] EXCEPT !.pc = pc].slot = NoConn /\ [job[c] EXCEPT !.pc = pc].pc /= "done"
    BY <1>0, <1>3 DEF JobType, Asking
  <2> QED
    BY <1>2, <1>3, <2>1, <2>2, <2>3, <2>4
<1>4. ASSUME Ends(c, FALSE) \/ TakeBack(c), gui' = gui, conn' = conn,
             UNCHANGED <<outputCancel, cancelUpload, timeouts, clicks, foreign, inTime, unheard>>
      PROVE  ClientTypeOK' /\ ThreadsInv'
  <2>1. timeouts' \in 0 .. MaxTimeouts /\ outputCancel' \subseteq Clients
        /\ cancelUpload' \subseteq Clients /\ uploadActive' \subseteq Clients
        /\ unheard' \subseteq Clients
    BY <1>4 DEF ClientTypeOK, Ends, TakeBack
  <2>2. \E j \in JobType : job' = [job EXCEPT ![c] = j] /\ j.slot = NoConn
                           /\ (j.pc = "done" => ~j.ok)
    <3>1. CASE Ends(c, FALSE)
      <4>1. [job[c] EXCEPT !.pc = "done", !.slot = NoConn, !.ok = FALSE] \in JobType
        BY <1>0 DEF JobType
      <4> QED
        BY <1>0, <3>1, <4>1 DEF Ends, JobType
    <3>2. CASE TakeBack(c)
      <4>1. [job[c] EXCEPT !.pc = "cleanup", !.slot = NoConn] \in JobType
        BY <1>0 DEF JobType, Asking
      <4> QED
        BY <1>0, <3>2, <4>1 DEF TakeBack, JobType
    <3> QED
      BY <1>4, <3>1, <3>2
  <2> QED
    BY <1>2, <1>4, <2>1, <2>2
<1>5. CASE Answer(c)
  <2>1. PICK k \in Conns : job[c].slot = k /\ Receive(k) /\ After(c, conn[k].ok, conn[k].upload)
    BY <1>5 DEF Answer
  <2>2. conn[k].state = "answered" /\ conn' = [conn EXCEPT ![k] = Free] /\ outcome' = outcome
    BY <2>1 DEF Receive, histVars
  <2>3. conn[k].ok \in BOOLEAN /\ conn[k].upload \in Uploads \cup {NoUpload}
    BY <1>0, <2>2 DEF ConnState, Free, Serving, Waiting, Answered
  <2>4. k /= NoConn
    BY SystemAssumption
  <2>5. At(c, "append") => job[c].offset < Chunks
    BY <2>1, <2>4 DEF ThreadsInv, JobInv
  <2>6. /\ uploadActive' \subseteq Clients
        /\ \E j \in JobType :
                 /\ job' = [job EXCEPT ![c] = j] /\ j.slot = NoConn
                 /\ j.pc = "done" /\ j.ok =>
                       At(c, "commit") /\ conn[k].ok /\ j.upload = job[c].upload
    BY <2>1, <2>3, <2>5, AfterGives
  <2>7. PICK j \in JobType :
                 /\ job' = [job EXCEPT ![c] = j] /\ j.slot = NoConn
                 /\ j.pc = "done" /\ j.ok =>
                       At(c, "commit") /\ conn[k].ok /\ j.upload = job[c].upload
    BY <2>6
  <2>8. job'[c] = j /\ \A d \in Clients \ {c} : job'[d] = job[d]
    BY <1>0, <2>7
  <2>9. At(c, "commit") /\ conn[k].ok => job[c].upload \in Uploads /\ outcome[job[c].upload] = "printed"
    BY <2>1, <2>2, <2>4 DEF ThreadsInv, JobInv, CommitAt
  <2>10. JobInv(c)'
    BY <2>2, <2>7, <2>8, <2>9 DEF JobInv, At
  <2>11. ClientTypeOK'
    <3>1. job' \in [Clients -> JobType]
      BY <1>0, <2>7
    <3> QED
      BY <1>5, <2>6, <3>1 DEF ClientTypeOK, JobType, Answer
  <2>12. gui' = gui
    BY <1>5 DEF Answer
  <2> QED
    BY <2>1, <2>2, <2>7, <2>8, <2>10, <2>11, <2>12, JobLetsGo
<1>6. CASE NoAnswer(c)
  <2>1. After(c, FALSE, NoUpload) /\ gui' = gui /\ conn' = conn
        /\ UNCHANGED <<outputCancel, cancelUpload, clicks, foreign, inTime>>
    BY <1>6 DEF NoAnswer, vars
  <2>2. timeouts' \in 0 .. MaxTimeouts
    BY <1>6, SystemAssumption DEF NoAnswer, GivesUp, ClientTypeOK
  <2>3. /\ outputCancel' \subseteq Clients /\ cancelUpload' \subseteq Clients
        /\ unheard' \subseteq Clients
    BY <1>6, <2>1 DEF NoAnswer, ClientTypeOK
  <2>4. uploadActive' \subseteq Clients
        /\ \E j \in JobType : job' = [job EXCEPT ![c] = j] /\ j.slot = NoConn
                              /\ (j.pc = "done" => ~j.ok)
    BY <1>0, <2>1, AfterGives DEF JobType
  <2> QED
    BY <1>2, <2>1, <2>2, <2>3, <2>4
<1>7. CASE \/ RunDirectPrint(c) \/ RasterBuilt(c) \/ ForgetCancel(c) \/ Activate(c)
           \/ VerifyPasses(c) \/ UploadComplete(c) \/ HandOver(c) \/ AwaitExit(c)
  <2>1. /\ gui' = gui /\ conn' = conn /\ UNCHANGED <<timeouts, clicks, foreign, inTime, unheard>>
    BY <1>7 DEF RunDirectPrint, RasterBuilt, ForgetCancel, Activate, VerifyPasses,
       UploadComplete, HandOver, AwaitExit, JobLocal, vars
  <2>2. outputCancel' \subseteq Clients /\ cancelUpload' \subseteq Clients
        /\ uploadActive' \subseteq Clients
    BY <1>7 DEF RunDirectPrint, RasterBuilt, ForgetCancel, Activate, VerifyPasses,
       UploadComplete, HandOver, AwaitExit, flagVars, ClientTypeOK
  <2>3. job[c].slot = NoConn
    BY <1>7 DEF RunDirectPrint, RasterBuilt, ForgetCancel, Activate, VerifyPasses,
       UploadComplete, HandOver, AwaitExit, At, ThreadsInv, JobInv, Asking
  <2>4. \E pc \in Asking \cup {"raster", "spooled", "arm", "verify", "handOver", "awaitExit"} :
          To(c, pc)
    BY <1>7 DEF RunDirectPrint, RasterBuilt, ForgetCancel, Activate, VerifyPasses,
       UploadComplete, HandOver, AwaitExit, Asking
  <2> QED
    BY <1>3, <2>1, <2>2, <2>3, <2>4
<1>8. CASE RasterCanceled(c) \/ VerifyFails(c) \/ UploadStops(c) \/ StartFails(c)
  <2>1. /\ Ends(c, FALSE) \/ TakeBack(c)
        /\ UNCHANGED <<outputCancel, cancelUpload>> /\ JobLocal
    BY <1>8 DEF RasterCanceled, VerifyFails, UploadStops, StartFails
  <2>2. gui' = gui /\ conn' = conn /\ UNCHANGED <<timeouts, clicks, foreign, inTime, unheard>>
    BY <2>1 DEF JobLocal, vars
  <2> QED
    BY <1>4, <2>1, <2>2
<1> QED
  BY <1>1, <1>5, <1>6, <1>7, <1>8 DEF Submission, JobThread


\* A job thread stores the flag of its upload, and nobody else's.
LEMMA SubmissionArms ==
    ASSUME ClientTypeOK, ArmedInv, NEW c \in Clients, Submission(c)
    PROVE  ArmedInv'
<1>0. /\ job \in [Clients -> JobType] /\ job[c] \in JobType /\ uploadActive \subseteq Clients
      /\ Armed(c)
  BY DEF ClientTypeOK, JobType, ArmedInv
<1>1. ASSUME \A d \in Clients \ {c} : /\ job'[d] = job[d]
                                      /\ d \in uploadActive' <=> d \in uploadActive,
             Armed(c)'
      PROVE  ArmedInv'
  BY <1>1 DEF ArmedInv, Armed
<1>2. ASSUME NEW ok, Ends(c, ok) PROVE ArmedInv'
  BY <1>0, <1>1, <1>2 DEF Ends, Armed, Uploading, JobType
<1>3. ASSUME NEW j \in JobType, job' = [job EXCEPT ![c] = j], uploadActive' = uploadActive,
             j.pc \in Uploading <=> job[c].pc \in Uploading
      PROVE  ArmedInv'
  BY <1>0, <1>1, <1>3 DEF Armed
<1>4. ASSUME NEW pc \in Asking \cup {"raster", "spooled", "arm", "handOver", "awaitExit"},
             To(c, pc), uploadActive' = uploadActive,
             pc \in Uploading <=> job[c].pc \in Uploading
      PROVE  ArmedInv'
  <2>1. [job[c] EXCEPT !.pc = pc] \in JobType /\ [job[c] EXCEPT !.pc = pc].pc = pc
    BY <1>0 DEF JobType
  <2>2. job' = [job EXCEPT ![c] = [job[c] EXCEPT !.pc = pc]]
    BY <1>0, <1>4 DEF To
  <2> QED
    BY <1>3, <1>4, <2>1, <2>2
<1>5. CASE RunDirectPrint(c) \/ RasterBuilt(c) \/ ForgetCancel(c) \/ VerifyPasses(c)
           \/ UploadComplete(c) \/ AwaitExit(c)
  BY <1>4, <1>5 DEF RunDirectPrint, RasterBuilt, ForgetCancel, VerifyPasses, UploadComplete,
     AwaitExit, flagVars, At, Asking, Uploading
<1>6. CASE Activate(c)
  <2>1. job'[c].pc = "verify" /\ c \in uploadActive'
    BY <1>0, <1>6 DEF Activate, To, JobType
  <2> QED
    BY <1>0, <1>1, <1>6, <2>1 DEF Activate, To, Armed, Uploading
<1>7. CASE HandOver(c)
  <2>1. job'[c].pc = "commit" /\ c \notin uploadActive'
    BY <1>0, <1>7 DEF HandOver, To, JobType
  <2> QED
    BY <1>0, <1>1, <1>7, <2>1 DEF HandOver, To, Armed, Uploading
<1>8. CASE RasterCanceled(c) \/ VerifyFails(c) \/ StartFails(c)
  BY <1>2, <1>8 DEF RasterCanceled, VerifyFails, StartFails
<1>9. ASSUME TakeBack(c), At(c, "append") PROVE ArmedInv'
  <2>1. job'[c].pc = "cleanup" /\ uploadActive' = uploadActive
        /\ \A d \in Clients \ {c} : job'[d] = job[d]
    BY <1>0, <1>9 DEF TakeBack, JobType
  <2>2. c \in uploadActive
    BY <1>0, <1>9 DEF Armed, At, Uploading
  <2> QED
    BY <1>1, <2>1, <2>2 DEF Armed, Uploading
<1>10. ASSUME NEW pc \in Uploading, Goes(c, pc), job[c].pc \in Uploading PROVE ArmedInv'
  <2>1. job'[c].pc = pc /\ uploadActive' = uploadActive
        /\ \A d \in Clients \ {c} : job'[d] = job[d]
    BY <1>0, <1>10 DEF Goes, JobType
  <2> QED
    BY <1>0, <1>1, <1>10, <2>1 DEF Armed
<1>11. ASSUME NEW ok, NEW u, After(c, ok, u) PROVE ArmedInv'
  <2>1. CASE \/ At(c, "hello") /\ Goes(c, IF ok THEN "begin" ELSE "shutdown")
             \/ At(c, "shutdown") /\ Goes(c, "awaitExit")
             \/ At(c, "reconnect") /\ Goes(c, "rehello")
             \/ At(c, "rehello") /\ Goes(c, "begin")
    BY <1>10, <2>1 DEF At, Uploading
  <2>2. CASE At(c, "begin") /\ uploadActive' = uploadActive
             /\ job' = [job EXCEPT ![c].pc = "append", ![c].slot = NoConn,
                                  ![c].upload = u, ![c].offset = 0]
    <3>1. job'[c].pc = "append" /\ \A d \in Clients \ {c} : job'[d] = job[d]
      BY <1>0, <2>2 DEF JobType
    <3>2. c \in uploadActive
      BY <1>0, <2>2 DEF Armed, At, Uploading
    <3> QED
      BY <1>1, <2>2, <3>1, <3>2 DEF Armed, Uploading
  <2>3. CASE At(c, "append") /\ uploadActive' = uploadActive
             /\ job' = [job EXCEPT ![c].slot = NoConn, ![c].offset = @ + 1]
    <3>1. job'[c].pc = job[c].pc /\ \A d \in Clients \ {c} : job'[d] = job[d]
      BY <1>0, <2>3 DEF JobType
    <3> QED
      BY <1>0, <1>1, <2>3, <3>1 DEF Armed
  <2>4. CASE At(c, "append") /\ TakeBack(c)
    BY <1>9, <2>4
  <2>5. CASE Ends(c, FALSE) \/ Ends(c, Committed(ok))
    BY <1>2, <2>5
  <2> QED
    BY <1>11, <2>1, <2>2, <2>3, <2>4, <2>5 DEF After
<1>12. CASE UploadStops(c)
  BY <1>9, <1>12 DEF UploadStops
<1>13. CASE Answer(c) \/ NoAnswer(c)
  BY <1>11, <1>13 DEF Answer, NoAnswer
<1>14. CASE Ask(c)
  <2>1. PICK k \in Conns : job' = [job EXCEPT ![c].slot = k]
    BY <1>14 DEF Ask
  <2>2. job'[c].pc = job[c].pc /\ \A d \in Clients \ {c} : job'[d] = job[d]
    BY <1>0, <2>1 DEF JobType
  <2> QED
    BY <1>0, <1>1, <1>14, <2>2 DEF Ask, ClientLocal, flagVars, Armed
<1>15. CASE SigTerm(c) \/ SigKill(c)
  BY <1>15 DEF SigTerm, SigKill, clientVars, flagVars, ArmedInv, Armed
<1> QED
  BY <1>5, <1>6, <1>7, <1>8, <1>12, <1>13, <1>14, <1>15 DEF Submission, JobThread

\* No other step touches the flag or the place of a job thread.
LEMMA ArmedKept ==
    ASSUME ClientTypeOK, ArmedInv, [SysNext]_sysVars
    PROVE  ArmedInv'
<1>1. ASSUME UNCHANGED <<job, uploadActive>> PROVE ArmedInv'
  BY <1>1 DEF ArmedInv, Armed
<1>2. ASSUME NEW c \in Clients, GuiThread(c) PROVE UNCHANGED <<job, uploadActive>>
  BY <1>2 DEF GuiThread, Click, ReadActive, StoreCancel, AskAbort, AbortAnswered,
     AbortUnanswered, ClientLocal, flagVars
<1>3. ASSUME \/ Service \/ UNCHANGED sysVars
             \/ \E k \in Conns : Integration(k) \/ Discard(k)
      PROVE  UNCHANGED <<job, uploadActive>>
  BY <1>3 DEF Service, Integration, Discard, sysVars, clientVars, flagVars
<1> QED
  BY <1>1, <1>2, <1>3, SubmissionArms DEF SysNext


\* Every step of a GUI thread.
LEMMA GuiThreadKeeps ==
    ASSUME Seen, ClientTypeOK, ThreadsInv, NEW c \in Clients, GuiThread(c)
    PROVE  ClientTypeOK' /\ ThreadsInv'
<1>0. /\ conn \in [Conns -> ConnState]
      /\ \A d \in Clients : /\ job[d].slot \in Conns \cup {NoConn}
                            /\ gui[d].slot \in Conns \cup {NoConn}
  BY DEF ClientTypeOK, Seen, TypeOK
<1>1. CASE AskAbort(c)
  BY <1>1, AskAbortKeeps
<1>2. ASSUME NEW g \in [pc : {"idle", "read", "store", "abort"}, slot : {NoConn}],
             gui' = [gui EXCEPT ![c] = g], job' = job,
             \/ conn' = conn
             \/ gui[c].slot \in Conns /\ conn' = [conn EXCEPT ![gui[c].slot] = Free]
      PROVE  ThreadsInv'
  <2>1. gui'[c].slot = NoConn /\ \A d \in Clients \ {c} : gui'[d] = gui[d]
    BY <1>2 DEF ClientTypeOK
  <2>2. \A q \in Conns : conn[q].state /= "free" /\ q /= gui[c].slot => conn'[q].state /= "free"
    BY <1>0, <1>2
  <2>3. \A d \in Clients : job[d].slot /= NoConn => conn'[job[d].slot].state /= "free"
    BY <1>0, <2>2 DEF ThreadsInv, SlotsInv
  <2>4. \A d \in Clients \ {c} : gui[d].slot /= NoConn => conn'[gui[d].slot].state /= "free"
    BY <1>0, <2>2 DEF ThreadsInv, SlotsInv
  <2>5. SlotsInv'
    BY <1>2, <2>1, <2>3, <2>4, SlotsKept DEF ThreadsInv
  <2>6. ASSUME NEW d \in Clients PROVE JobInv(d)'
    BY <1>2, <2>3, JobKept DEF ThreadsInv
  <2>7. \A d \in Clients : GuiInv(d)'
    BY <2>1 DEF ThreadsInv, GuiInv
  <2> QED
    BY <2>5, <2>6, <2>7 DEF ThreadsInv
<1>3. ASSUME Returns(c) PROVE inTime' \subseteq Clients
        /\ \E g \in [pc : {"idle", "read", "store", "abort"}, slot : {NoConn}] :
              gui' = [gui EXCEPT ![c] = g]
  BY <1>3 DEF Returns, ClientTypeOK
<1>4. CASE Click(c) \/ ReadActive(c)
  <2>1. gui[c].slot = NoConn
    BY <1>4 DEF Click, ReadActive, ThreadsInv, GuiInv
  <2>2. conn' = conn /\ job' = job
    BY <1>4 DEF Click, ReadActive, vars
  <2>3. PICK pc \in {"idle", "read", "store", "abort"} : gui' = [gui EXCEPT ![c].pc = pc]
    BY <1>4 DEF Click, ReadActive
  <2>4. [gui[c] EXCEPT !.pc = pc] \in [pc : {"idle", "read", "store", "abort"}, slot : {NoConn}]
    BY <2>1 DEF ClientTypeOK
  <2>5. gui' = [gui EXCEPT ![c] = [gui[c] EXCEPT !.pc = pc]]
    BY <2>3 DEF ClientTypeOK
  <2>6. ClientTypeOK'
    BY <1>4, <2>3, SystemAssumption DEF Click, ReadActive, ClientLocal, ClientTypeOK, flagVars
  <2> QED
    BY <1>2, <2>2, <2>4, <2>5, <2>6
<1>5. CASE StoreCancel(c) \/ AbortUnanswered(c)
  <2>1. conn' = conn /\ job' = job /\ Returns(c)
    BY <1>5 DEF StoreCancel, AbortUnanswered, vars
  <2>2. timeouts' \in 0 .. MaxTimeouts
    BY <1>5, SystemAssumption DEF StoreCancel, AbortUnanswered, GivesUp, ClientTypeOK
  <2>3. ClientTypeOK'
    BY <1>3, <1>5, <2>1, <2>2 DEF StoreCancel, AbortUnanswered, Returns, ClientTypeOK, flagVars
  <2> QED
    BY <1>2, <1>3, <2>1, <2>3
<1>6. CASE AbortAnswered(c)
  <2>1. job' = job /\ Returns(c) /\ gui[c].slot \in Conns
        /\ conn' = [conn EXCEPT ![gui[c].slot] = Free]
    BY <1>6 DEF AbortAnswered, Receive
  <2>2. ClientTypeOK'
    BY <1>3, <1>6, <2>1 DEF AbortAnswered, Returns, ClientTypeOK, flagVars
  <2> QED
    BY <1>2, <1>3, <2>1, <2>2
<1> QED
  BY <1>1, <1>4, <1>5, <1>6 DEF GuiThread

\* Every step of the system.
LEMMA SystemKeeps ==
    ASSUME SysInv, [SysNext]_sysVars
    PROVE  SysInv'
<1>0. ArmedInv'
  BY ArmedKept DEF SysInv
<1>1. [Next]_vars
  BY SystemSteps
<1>2. IndInv' /\ EndedInv' /\ OutcomeStays
  BY <1>1, NextInd, NextDelivers, NextKeepsOutcomes DEF SysInv, Delivers
<1>3. TypeOK /\ TypeOK' /\ Answers
  BY <1>1, <1>2, NextAnswers DEF SysInv, IndInv
<1>4. FramesInv'
  BY <1>3, FramesKept DEF SysInv
<1>5. Seen
  BY <1>2, <1>3 DEF Seen, SysInv
<1>6. ClientTypeOK /\ ThreadsInv /\ IndInv /\ FramesInv
      /\ \A d \in Clients : /\ job[d].slot \in Conns \cup {NoConn}
                            /\ gui[d].slot \in Conns \cup {NoConn}
  BY DEF SysInv, ClientTypeOK
<1>7. CASE Service \/ \E c \in Clients : SigTerm(c) \/ SigKill(c)
  <2>1. (Service \/ Terminate \/ Crash) /\ UNCHANGED clientVars
    BY <1>7 DEF Service, SigTerm, SigKill
  <2>2. \A d \in Clients : /\ gui[d].slot /= NoConn => conn'[gui[d].slot].state /= "free"
                           /\ job[d].slot /= NoConn => conn'[job[d].slot].state /= "free"
    BY <1>6, <2>1, ServiceHolds DEF ThreadsInv, SlotsInv
  <2>3. ThreadsInv'
    BY <1>5, <1>6, <2>1, <2>2, ServiceKeeps DEF clientVars
  <2>4. ClientTypeOK'
    BY <1>6, <2>1 DEF clientVars, flagVars, ClientTypeOK
  <2> QED
    BY <1>0, <1>2, <1>4, <2>3, <2>4 DEF SysInv
<1>8. ASSUME NEW k \in Conns, Integration(k) \/ Discard(k) PROVE SysInv'
  <2>1. conn \in [Conns -> ConnState] /\ UNCHANGED <<job, gui>>
    BY <1>3, <1>8 DEF TypeOK, Integration, Discard, clientVars
  <2>2. \/ conn[k].state = "free" /\ \E r : conn' = [conn EXCEPT ![k] = Waiting(r)]
        \/ /\ conn' = [conn EXCEPT ![k] = Free]
           /\ \A d \in Clients : job[d].slot /= k /\ gui[d].slot /= k
    BY <1>8 DEF Integration, Discard, Send, Receive, Free
  <2>3. \A d \in Clients : /\ gui[d].slot /= NoConn => conn'[gui[d].slot].state /= "free"
                           /\ job[d].slot /= NoConn => conn'[job[d].slot].state /= "free"
    BY <1>6, <2>1, <2>2 DEF ThreadsInv, SlotsInv
  <2>4. ThreadsInv'
    BY <1>5, <1>6, <2>1, <2>3, ServiceKeeps
  <2>5. ClientTypeOK'
    BY <1>6, <1>8, SystemAssumption DEF Integration, Discard, clientVars, flagVars, ClientTypeOK
  <2> QED
    BY <1>0, <1>2, <1>4, <2>4, <2>5 DEF SysInv
<1>9. ASSUME NEW c \in Clients, Submission(c), ~SigTerm(c), ~SigKill(c) PROVE SysInv'
  BY <1>0, <1>2, <1>4, <1>5, <1>6, <1>9, JobThreadKeeps DEF SysInv
<1>10. ASSUME NEW c \in Clients, GuiThread(c) PROVE SysInv'
  BY <1>0, <1>2, <1>4, <1>5, <1>6, <1>10, GuiThreadKeeps DEF SysInv
<1>11. CASE UNCHANGED sysVars
  <2>1. UNCHANGED <<conn, job, gui>> /\ UNCHANGED clientVars
    BY <1>11 DEF sysVars, clientVars, vars
  <2>2. ThreadsInv'
    BY <1>5, <1>6, <2>1, ServiceKeeps DEF ThreadsInv, SlotsInv
  <2>3. ClientTypeOK'
    BY <1>6, <2>1 DEF clientVars, flagVars, ClientTypeOK
  <2> QED
    BY <1>0, <1>2, <1>4, <2>2, <2>3 DEF SysInv
<1> QED
  BY <1>7, <1>8, <1>9, <1>10, <1>11 DEF SysNext

LEMMA SystemInit == SysInit => SysInv
<1> SUFFICES ASSUME SysInit PROVE SysInv
  OBVIOUS
<1>1. IndInv /\ EndedInv
  BY InitInd, InitDelivers DEF SysInit
<1>2. FramesInv
  BY DEF FramesInv, SysInit, Init
<1>3. ClientTypeOK
  BY ServerAssumption, SystemAssumption DEF SysInit, ClientTypeOK
<1>4. ThreadsInv
  BY DEF SysInit, ThreadsInv, SlotsInv, JobInv, GuiInv, At
<1>5. ArmedInv
  BY DEF SysInit, ArmedInv, Armed, Uploading
<1> QED
  BY <1>1, <1>2, <1>3, <1>4, <1>5 DEF SysInv

LEMMA SystemInvariance == SysSpec => []SysInv
BY SystemInit, SystemKeeps, PTL DEF SysSpec

\* Type correctness of the clients, for any number of clients, connections and
\* uploads: a chunk offset, for one, never passes the end of the file.
THEOREM SystemTypeCorrect == SysSpec => []SysTypeOK
<1>1. SysInv => SysTypeOK
  BY DEF SysInv, SysTypeOK, ArmedInv, Armed
<1> QED
  BY <1>1, SystemInvariance, PTL

\* A client that reports a print has had its own raster printed to the end, whatever
\* the other clients send, give up, cancel or restart.
THEOREM SuccessIsAPrint == SysSpec => []SuccessMeansPrinted
<1>1. SysInv => SuccessMeansPrinted
  BY DEF SysInv, ThreadsInv, JobInv, SuccessMeansPrinted
<1> QED
  BY <1>1, SystemInvariance, PTL

-----------------------------------------------------------------------------
(* What a client that reports a failure leaves behind.                      *)

\* The places of a job thread from which its upload has been drawn.
HasUpload == {"append", "handOver", "commit", "cleanup", "done"}

\* The printer has seen nothing of an upload; it has not printed it.
Untouched(u) == outcome[u] = "none" /\ ~Printing(u)
NotPrinted(u) == outcome[u] /= "printed" /\ ~Printing(u)

\* An upload is drawn once: it belongs to one job thread, or to one answer that no
\* thread has taken.
OwnInv ==
    /\ \A c \in Clients : job[c].upload /= NoUpload =>
          job[c].upload \in minted /\ job[c].pc \in HasUpload
    /\ \A c, d \in Clients : c /= d /\ job[c].upload /= NoUpload =>
          job[c].upload /= job[d].upload
    /\ \A c \in Clients : c \in unheard => At(c, "done")
    /\ \A k \in Conns : conn[k].state = "answered" /\ conn[k].upload /= NoUpload =>
          /\ conn[k].upload \in minted
          /\ \A c \in Clients : job[c].upload /= conn[k].upload
          /\ \A q \in Conns : q /= k /\ conn[q].state = "answered" =>
                conn[q].upload /= conn[k].upload

\* Every commit under way has its client, which waits for it unless it gave the answer up;
\* and what is still to be taken by a client is untouched.
Holds(c, k, u) ==
    job[c].upload = u /\ (c \in unheard \/ (job[c].slot = k /\ At(c, "commit")))
HolderInv ==
    /\ \A k \in Conns : conn[k].state = "waiting" /\ conn[k].req.cmd = "commitRasterUpload" =>
          \E c \in Clients : Holds(c, k, conn[k].req.upload)
    /\ \A i \in DOMAIN stack : stack[i].kind = "spooled" =>
          \E c \in Clients : Holds(c, stack[i].conn, stack[i].upload)
    /\ \A k \in Conns : conn[k].state = "answered" /\ conn[k].upload /= NoUpload =>
          Untouched(conn[k].upload)

\* What has become of a client's upload at each place of its job thread, unless it gave
\* the answer to its commit up.
Fate(c) ==
    LET u == job[c].upload
        k == job[c].slot IN
    /\ job[c].pc \in {"append", "handOver", "cleanup"} => Untouched(u)
    /\ At(c, "commit") /\ k = NoConn => Untouched(u)
    /\ At(c, "commit") /\ k /= NoConn =>
          /\ conn[k].state = "waiting" => Untouched(u)
          /\ conn[k].state = "serving" => outcome[u] = "none"
          /\ conn[k].state = "answered" => conn[k].ok \/ NotPrinted(u)
    /\ At(c, "done") => job[c].ok \/ NotPrinted(u)
FateInv == \A c \in Clients \ unheard : job[c].upload /= NoUpload => Fate(c)

\* What the lemmas below use of the invariants above.
Grounds ==
    /\ stack \in Seq(Frame) /\ conn \in [Conns -> ConnState]
    /\ outcome \in [Uploads -> {"none", "printed", "canceled", "failed"}]
    /\ minted \subseteq Uploads /\ table \subseteq minted
    /\ NoUpload \notin Uploads /\ NoConn \notin Conns
    /\ job \in [Clients -> JobType]
    /\ \A i \in DOMAIN stack : stack[i].conn \in Conns
    /\ \A i \in DOMAIN stack : stack[i].kind = "spooled" => i = 1
    /\ \A u \in Uploads \ minted : Untouched(u)
    /\ FramesInv /\ SlotsInv
    /\ \A c \in Clients : JobInv(c)

\* The invariants give the grounds.
LEMMA HaveGrounds ==
    ASSUME SysInv
    PROVE  Grounds
<1>1. TypeOK /\ ProcessInv /\ GateGuardsThePrint /\ EndedInv /\ ClientTypeOK /\ ThreadsInv
      /\ FramesInv
  BY DEF SysInv, IndInv
<1>2. stack \in Seq(Frame) /\ \A i \in DOMAIN stack : stack[i].conn \in Conns
  BY <1>1 DEF TypeOK, Frame, FrameOf
<1>3. job \in [Clients -> JobType]
  BY <1>1 DEF ClientTypeOK, JobType
<1>4. \A u \in Uploads \ minted : Untouched(u)
  BY <1>1 DEF ProcessInv, EndedInv, Untouched
<1>5. \A i \in DOMAIN stack : stack[i].kind = "spooled" => i = 1
  BY <1>1 DEF GateGuardsThePrint
<1>6. /\ conn \in [Conns -> ConnState]
      /\ outcome \in [Uploads -> {"none", "printed", "canceled", "failed"}]
      /\ minted \subseteq Uploads /\ table \subseteq minted
      /\ NoUpload \notin Uploads /\ NoConn \notin Conns
  BY <1>1, ServerAssumption, SystemAssumption DEF TypeOK, ProcessInv
<1> QED
  BY <1>1, <1>2, <1>3, <1>4, <1>5, <1>6 DEF Grounds, ThreadsInv

\* A thread of another client holds another connection.
LEMMA HolderIsAlone ==
    ASSUME Grounds, NEW c \in Clients, NEW d \in Clients, NEW k \in Conns,
           job[c].slot = k, job[d].slot = k
    PROVE  c = d
BY DEF Grounds, SlotsInv

\* An answer on the spot: a new upload is nobody's yet, and nothing printed.
LEMMA RepliedKeeps ==
    ASSUME Grounds, OwnInv, UNCHANGED <<job, unheard, outcome>>, NEW k \in Conns,
           NEW ok \in BOOLEAN, NEW u \in Uploads \cup {NoUpload},
           conn[k].state = "waiting", Replied(k, ok, u)
    PROVE  OwnInv' /\ (HolderInv /\ FateInv => HolderInv' /\ FateInv')
<1>1. /\ conn'[k].state = "answered" /\ conn'[k].ok = ok /\ conn'[k].upload = u
      /\ \A q \in Conns \ {k} : conn'[q] = conn[q]
  BY DEF Grounds, Replied, Answered
<1>2. /\ stack' = stack /\ minted \subseteq minted'
      /\ u /= NoUpload => u \in minted' \ minted /\ Untouched(u)
  BY DEF Replied, TableShrinks, Grounds
<1>3. \A v : (Untouched(v)' <=> Untouched(v)) /\ (NotPrinted(v)' <=> NotPrinted(v))
  BY <1>2 DEF Untouched, NotPrinted, Printing
<1>4. OwnInv'
  BY <1>1, <1>2 DEF OwnInv, At
<1>5. ASSUME HolderInv PROVE HolderInv'
  <2>1. \A c \in Clients : \A q, v : Holds(c, q, v)' <=> Holds(c, q, v)
    BY DEF Holds, At
  <2>2. \A q \in Conns : conn'[q].state = "waiting" => q /= k
    BY <1>1
  <2> QED
    BY <1>1, <1>2, <1>3, <1>5, <2>1, <2>2 DEF HolderInv
<1>6. ASSUME FateInv, NEW c \in Clients \ unheard, job[c].upload /= NoUpload PROVE Fate(c)'
  <2>1. Fate(c)
    BY <1>6 DEF FateInv
  <2>2. job[c].slot \in Conns \cup {NoConn} /\ job[c].upload \in Uploads
    BY <1>6 DEF Grounds, JobType
  <2>3. CASE job[c].slot /= k
    <3>1. job[c].slot /= NoConn => conn'[job[c].slot] = conn[job[c].slot]
      BY <1>1, <2>2, <2>3
    <3> QED
      BY <1>3, <2>1, <3>1 DEF Fate, At
  <2>4. CASE job[c].slot = k
    <3>1. At(c, "commit") => Untouched(job[c].upload)
      BY <2>1, <2>4 DEF Fate, Grounds
    <3>2. Untouched(job[c].upload) => NotPrinted(job[c].upload)
      BY DEF Untouched, NotPrinted
    <3> QED
      BY <1>1, <1>3, <2>1, <2>4, <3>1, <3>2 DEF Fate, At, Grounds
  <2> QED
    BY <2>3, <2>4
<1> QED
  BY <1>4, <1>5, <1>6 DEF FateInv

\* A handler that starts to print prints what its client has just committed.
LEMMA StartedKeeps ==
    ASSUME Grounds, OwnInv, UNCHANGED <<job, unheard, outcome>>, NEW k \in Conns, NEW f \in Frame,
           conn[k].state = "waiting", Started(k, f)
    PROVE  OwnInv' /\ (HolderInv /\ FateInv => HolderInv' /\ FateInv')
<1>1. conn'[k].state = "serving" /\ \A q \in Conns \ {k} : conn'[q] = conn[q]
  BY DEF Grounds, Started, Serving
<1>2. minted' = minted /\ f.conn = k
      /\ (f.kind = "spooled" => conn[k].req.cmd = "commitRasterUpload" /\ f.upload = conn[k].req.upload)
  BY DEF Started, TableShrinks
<1>3. /\ \A i \in DOMAIN stack' : stack'[i] = f \/ \E j \in DOMAIN stack : stack'[i] = stack[j]
      /\ \A j \in DOMAIN stack : \E i \in DOMAIN stack' : stack'[i] = stack[j]
  <2>1. /\ stack \in Seq(Frame) /\ stack' = <<f>> \o stack
        /\ Len(stack') = Len(stack) + 1 /\ Head(stack') = f
        /\ \A i \in 2 .. Len(stack) + 1 : stack'[i] = stack[i - 1]
    BY StackPush DEF Grounds, Started
  <2>2. DOMAIN stack = 1 .. Len(stack) /\ DOMAIN stack' = 1 .. Len(stack) + 1
        /\ Len(stack) \in Nat /\ stack'[1] = f
    BY <2>1
  <2>3. \A i \in DOMAIN stack' : i = 1 \/ (i - 1 \in DOMAIN stack /\ stack'[i] = stack[i - 1])
    BY <2>1, <2>2
  <2>4. \A j \in DOMAIN stack : j + 1 \in DOMAIN stack' /\ stack'[j + 1] = stack[j]
    BY <2>1, <2>2
  <2> QED
    BY <2>2, <2>3, <2>4
<1>4. \A v : Printing(v)' => Printing(v) \/ (f.kind = "spooled" /\ f.upload = v)
  BY <1>3 DEF Printing
<1>5. OwnInv'
  BY <1>1, <1>2 DEF OwnInv, At
<1>6. \A c \in Clients : \A q, v : Holds(c, q, v)' <=> Holds(c, q, v)
  BY DEF Holds, At
<1>7. ASSUME HolderInv, f.kind = "spooled" PROVE \E c \in Clients : Holds(c, k, f.upload)
  BY <1>2, <1>7 DEF HolderInv
<1>8. ASSUME HolderInv PROVE HolderInv'
  <2>1. \A i \in DOMAIN stack' : stack'[i].kind = "spooled" =>
          \E c \in Clients : Holds(c, stack'[i].conn, stack'[i].upload)
    BY <1>2, <1>3, <1>7, <1>8 DEF HolderInv
  <2>2. \A q \in Conns : conn'[q].state = "waiting" => conn'[q] = conn[q]
    BY <1>1
  <2>3. ASSUME NEW q \in Conns, conn'[q].state = "answered", conn'[q].upload /= NoUpload
        PROVE  Untouched(conn[q].upload)'
    <3>1. conn'[q] = conn[q]
      BY <1>1, <2>3
    <3>2. Untouched(conn[q].upload) /\ \A c \in Clients : job[c].upload /= conn[q].upload
      BY <1>8, <2>3, <3>1 DEF HolderInv, OwnInv
    <3>3. f.kind = "spooled" => f.upload /= conn[q].upload
      BY <1>7, <1>8, <3>2 DEF Holds
    <3> QED
      BY <1>4, <3>1, <3>2, <3>3 DEF Untouched
  <2> QED
    BY <1>6, <1>8, <2>1, <2>2, <2>3 DEF HolderInv
<1>9. ASSUME HolderInv, FateInv, NEW c \in Clients \ unheard, job[c].upload /= NoUpload PROVE Fate(c)'
  <2>1. Fate(c)
    BY <1>9 DEF FateInv
  <2>2. job[c].slot \in Conns \cup {NoConn} /\ job[c].upload \in Uploads
    BY <1>9 DEF Grounds, JobType
  <2>3. CASE job[c].slot = k /\ At(c, "commit")
    <3>1. outcome[job[c].upload] = "none"
      BY <2>1, <2>3 DEF Fate, Untouched, Grounds
    <3> QED
      BY <1>1, <2>3, <3>1 DEF Fate, At, Grounds
  <2>4. CASE ~(job[c].slot = k /\ At(c, "commit"))
    <3>1. f.kind = "spooled" => f.upload /= job[c].upload
      <4>1. SUFFICES ASSUME f.kind = "spooled", f.upload = job[c].upload PROVE FALSE
        OBVIOUS
      <4>2. PICK d \in Clients : Holds(d, k, f.upload)
        BY <1>7, <1>9, <4>1
      <4>3. d = c
        BY <1>9, <4>1, <4>2 DEF OwnInv, Holds
      <4> QED
        BY <2>4, <4>2, <4>3 DEF Holds
    <3>2. Untouched(job[c].upload) => Untouched(job[c].upload)'
      BY <1>4, <3>1 DEF Untouched
    <3>3. NotPrinted(job[c].upload) => NotPrinted(job[c].upload)'
      BY <1>4, <3>1 DEF NotPrinted
    <3>4. At(c, "commit") /\ job[c].slot /= NoConn => conn'[job[c].slot] = conn[job[c].slot]
      BY <1>1, <2>2, <2>4
    <3> QED
      BY <2>1, <3>2, <3>3, <3>4 DEF Fate, At
  <2> QED
    BY <2>3, <2>4
<1> QED
  BY <1>5, <1>8, <1>9 DEF FateInv

\* A print that ends decides what its own client is told, and no other upload's fate.
LEMMA ReturnedKeeps ==
    ASSUME Grounds, OwnInv, UNCHANGED <<job, unheard, minted>>,
           NEW ok \in BOOLEAN, NEW why \in {"printed", "canceled", "failed"},
           stack /= <<>>, Return(ok, why), ok <=> why = "printed"
    PROVE  OwnInv' /\ (HolderInv /\ FateInv => HolderInv' /\ FateInv')
<1> DEFINE f == stack[1]
           k == stack[1].conn
<1>1. /\ 1 \in DOMAIN stack /\ k \in Conns /\ conn[k].state = "serving"
      /\ f \in Frame
  BY StackTop DEF Grounds, FramesInv
<1>2. /\ conn'[k].state = "answered" /\ conn'[k].ok = ok /\ conn'[k].upload = NoUpload
      /\ \A q \in Conns \ {k} : conn'[q] = conn[q]
  BY <1>1, StackTop DEF Grounds, Return, Answered
<1>3. \A i \in DOMAIN stack' : i + 1 \in DOMAIN stack /\ i + 1 /= 1 /\ stack'[i] = stack[i + 1]
  <2>1. stack \in Seq(Frame) /\ stack' = Tail(stack)
    BY DEF Grounds, Return
  <2>2. Len(Tail(stack)) = Len(stack) - 1
        /\ \A i \in 1 .. Len(stack) - 1 : Tail(stack)[i] = stack[i + 1]
    BY <2>1, StackTop
  <2> QED
    BY <2>1, <2>2
<1>4. \A i \in DOMAIN stack' : stack'[i].kind /= "spooled"
  BY <1>3 DEF Grounds
<1>5. \A v : ~Printing(v)'
  BY <1>4 DEF Printing
<1>6. \/ f.kind = "spooled" /\ outcome' = [outcome EXCEPT ![f.upload] = why]
      \/ f.kind /= "spooled" /\ outcome' = outcome
  BY StackTop DEF Grounds, Return
<1>7. \A v \in Uploads : outcome'[v] = outcome[v]
                         \/ (f.kind = "spooled" /\ f.upload = v /\ outcome'[v] = why)
  BY <1>6 DEF Grounds
<1>8. OwnInv'
  BY <1>2 DEF OwnInv, At
<1>9. ASSUME HolderInv, f.kind = "spooled" PROVE \E c \in Clients : Holds(c, k, f.upload)
  BY <1>1, <1>9 DEF HolderInv
<1>10. ASSUME NEW v \in Uploads, outcome'[v] = outcome[v]
       PROVE  /\ Untouched(v) => Untouched(v)'
              /\ NotPrinted(v) => NotPrinted(v)'
  BY <1>5, <1>10 DEF Untouched, NotPrinted
<1>11. ASSUME HolderInv PROVE HolderInv'
  <2>1. ASSUME NEW q \in Conns, conn'[q].state = "answered", conn'[q].upload /= NoUpload
        PROVE  Untouched(conn[q].upload)'
    <3>1. q /= k /\ conn'[q] = conn[q]
      BY <1>2, <2>1
    <3>2. Untouched(conn[q].upload) /\ \A c \in Clients : job[c].upload /= conn[q].upload
      BY <1>11, <2>1, <3>1 DEF HolderInv, OwnInv
    <3>3. f.kind = "spooled" => f.upload /= conn[q].upload
      BY <1>9, <1>11, <3>2 DEF Holds
    <3>4. conn[q].upload \in Uploads
      BY <2>1, <3>1 DEF OwnInv, Grounds
    <3> QED
      BY <1>5, <1>7, <3>1, <3>2, <3>3, <3>4 DEF Untouched
  <2>2. \A q \in Conns : conn'[q].state = "waiting" => conn'[q] = conn[q]
    BY <1>2
  <2>3. \A c \in Clients : \A q, v : Holds(c, q, v)' <=> Holds(c, q, v)
    BY DEF Holds, At
  <2>4. \A q \in Conns : conn'[q].state = "answered" /\ conn'[q].upload /= NoUpload
          => conn'[q] = conn[q]
    BY <1>2
  <2> QED
    BY <1>4, <1>11, <2>1, <2>2, <2>3, <2>4 DEF HolderInv
<1>12. ASSUME HolderInv, FateInv, NEW c \in Clients \ unheard, job[c].upload /= NoUpload PROVE Fate(c)'
  <2>1. Fate(c)
    BY <1>12 DEF FateInv
  <2>2. job[c].slot \in Conns \cup {NoConn} /\ job[c].upload \in Uploads
    BY <1>12 DEF Grounds, JobType
  <2>3. CASE job[c].slot = k /\ At(c, "commit")
    <3>1. f.kind = "spooled" /\ f.upload = job[c].upload
      BY <1>1, <2>3 DEF Grounds, JobInv, CommitAt
    <3>2. outcome'[job[c].upload] = why
      BY <1>6, <2>2, <3>1 DEF Grounds
    <3>3. ok \/ NotPrinted(job[c].upload)'
      BY <1>5, <3>2 DEF NotPrinted
    <3> QED
      BY <1>1, <1>2, <2>3, <3>3 DEF Fate, At, Grounds
  <2>4. CASE ~(job[c].slot = k /\ At(c, "commit"))
    <3>1. f.kind = "spooled" => f.upload /= job[c].upload
      <4>1. SUFFICES ASSUME f.kind = "spooled", f.upload = job[c].upload PROVE FALSE
        OBVIOUS
      <4>2. PICK d \in Clients : Holds(d, k, f.upload)
        BY <1>9, <1>12, <4>1
      <4>3. d = c
        BY <1>12, <4>1, <4>2 DEF OwnInv, Holds
      <4> QED
        BY <2>4, <4>2, <4>3 DEF Holds
    <3>2. /\ Untouched(job[c].upload) => Untouched(job[c].upload)'
          /\ NotPrinted(job[c].upload) => NotPrinted(job[c].upload)'
          /\ outcome'[job[c].upload] = outcome[job[c].upload]
      BY <1>5, <1>7, <2>2, <3>1 DEF Untouched, NotPrinted
    <3>3. At(c, "commit") /\ job[c].slot /= NoConn => conn'[job[c].slot] = conn[job[c].slot]
      BY <1>2, <2>2, <2>4
    <3> QED
      BY <2>1, <3>2, <3>3 DEF Fate, At
  <2> QED
    BY <2>3, <2>4
<1> QED
  BY <1>8, <1>11, <1>12 DEF FateInv

\* A step inside a print changes no fate.
LEMMA InsideKeeps ==
    ASSUME Grounds, UNCHANGED <<job, unheard, minted, conn, outcome>>, NEW f \in Frame,
           stack /= <<>>, stack' = <<f>> \o Tail(stack),
           f.conn = Top.conn, f.kind = Top.kind, f.upload = Top.upload
    PROVE  /\ OwnInv => OwnInv'
           /\ HolderInv => HolderInv'
           /\ FateInv => FateInv'
<1>1. /\ stack \in Seq(Frame) /\ Len(stack') = Len(stack) /\ Head(stack') = f
      /\ \A i \in 2 .. Len(stack) : stack'[i] = stack[i]
  BY StackStep DEF Grounds
<1>2. DOMAIN stack' = DOMAIN stack
      /\ \A i \in DOMAIN stack : /\ stack'[i].conn = stack[i].conn
                                 /\ stack'[i].kind = stack[i].kind
                                 /\ stack'[i].upload = stack[i].upload
  BY <1>1, StackTop
<1>3. \A v : Printing(v)' <=> Printing(v)
  BY <1>2 DEF Printing
<1>4. \A v : (Untouched(v)' <=> Untouched(v)) /\ (NotPrinted(v)' <=> NotPrinted(v))
  BY <1>3 DEF Untouched, NotPrinted
<1>5. OwnInv => OwnInv'
  BY DEF OwnInv, At
<1>6. ASSUME HolderInv PROVE HolderInv'
  <2>1. \A c \in Clients : \A q, v : Holds(c, q, v)' <=> Holds(c, q, v)
    BY DEF Holds, At
  <2>2. \A i \in DOMAIN stack' : stack'[i].kind = "spooled" =>
          \E c \in Clients : Holds(c, stack'[i].conn, stack'[i].upload)
    BY <1>2, <1>6 DEF HolderInv
  <2> QED
    BY <1>4, <1>6, <2>1, <2>2 DEF HolderInv
<1>7. FateInv => FateInv'
  BY <1>4 DEF FateInv, Fate, At
<1> QED
  BY <1>5, <1>6, <1>7

\* The end of the process prints nothing more.
LEMMA BrokenKeeps ==
    ASSUME Grounds, UNCHANGED <<job, unheard, minted, outcome>>, conn' = BrokenConns, stack' = <<>>
    PROVE  /\ OwnInv => OwnInv'
           /\ HolderInv => HolderInv'
           /\ FateInv => FateInv'
<1>1. \A v : ~Printing(v)'
  BY DEF Printing
<1>2. ASSUME NEW k \in Conns
      PROVE  \/ conn[k].state \in {"free", "answered"} /\ conn'[k] = conn[k]
             \/ /\ conn[k].state \in {"waiting", "serving"}
                /\ conn'[k].state = "answered" /\ conn'[k].upload = NoUpload
  <2>1. conn[k] \in ConnState
    BY DEF Grounds
  <2>2. conn[k].state \in {"free", "answered", "waiting", "serving"}
    BY <2>1 DEF ConnState, Free, Serving, Waiting, Answered
  <2>3. CASE conn[k].state \in {"free", "answered"}
    BY <2>3 DEF BrokenConns
  <2>4. CASE conn[k].state \in {"waiting", "serving"}
    <3>1. conn'[k] = Answered(FALSE, NoUpload)
      BY <2>4 DEF BrokenConns
    <3> QED
      BY <2>4, <3>1 DEF Answered
  <2> QED
    BY <2>2, <2>3, <2>4
<1>3. OwnInv => OwnInv'
  BY <1>2 DEF OwnInv, At
<1>4. \A v : (Untouched(v) => Untouched(v)') /\ (NotPrinted(v) => NotPrinted(v)')
  BY <1>1 DEF Untouched, NotPrinted
<1>5. HolderInv => HolderInv'
  BY <1>2, <1>4 DEF HolderInv
<1>6. ASSUME FateInv, NEW c \in Clients \ unheard, job[c].upload /= NoUpload PROVE Fate(c)'
  <2>1. Fate(c)
    BY <1>6 DEF FateInv
  <2>2. job[c].slot \in Conns \cup {NoConn}
    BY DEF Grounds, JobType
  <2>3. Untouched(job[c].upload) => NotPrinted(job[c].upload)'
    BY <1>4 DEF Untouched, NotPrinted
  <2>4. outcome[job[c].upload] = "none" => NotPrinted(job[c].upload)'
    BY <1>1 DEF NotPrinted
  <2>5. ASSUME At(c, "commit"), job[c].slot /= NoConn
        PROVE  \/ /\ conn[job[c].slot].state \in {"free", "answered"}
                  /\ conn'[job[c].slot] = conn[job[c].slot]
               \/ /\ conn'[job[c].slot].state = "answered"
                  /\ NotPrinted(job[c].upload)'
    BY <1>2, <2>1, <2>2, <2>3, <2>4, <2>5 DEF Fate
  <2> QED
    BY <1>4, <2>1, <2>3, <2>5 DEF Fate, At
<1> QED
  BY <1>3, <1>5, <1>6 DEF FateInv

\* A connection that no job thread holds is taken for another request, or given up.
LEMMA OtherConnKeeps ==
    ASSUME Grounds, UNCHANGED <<job, unheard, minted, outcome, stack>>, NEW k \in Conns,
           \A c \in Clients : job[c].slot /= k,
           \/ \E r : r.cmd /= "commitRasterUpload" /\ conn' = [conn EXCEPT ![k] = Waiting(r)]
           \/ conn' = [conn EXCEPT ![k] = Free]
           \/ conn' = conn
    PROVE  /\ OwnInv => OwnInv'
           /\ HolderInv => HolderInv'
           /\ FateInv => FateInv'
<1>1. /\ \A q \in Conns \ {k} : conn'[q] = conn[q]
      /\ \/ conn'[k].state = "waiting" /\ conn'[k].req.cmd /= "commitRasterUpload"
         \/ conn'[k].state = "free"
         \/ conn'[k] = conn[k]
  <2>1. conn \in [Conns -> ConnState]
    BY DEF Grounds
  <2>2. CASE \E r : r.cmd /= "commitRasterUpload" /\ conn' = [conn EXCEPT ![k] = Waiting(r)]
    BY <2>1, <2>2 DEF Waiting
  <2>3. CASE conn' = [conn EXCEPT ![k] = Free]
    BY <2>1, <2>3 DEF Free
  <2> QED
    BY <2>2, <2>3
<1>2. \A v : (Untouched(v)' <=> Untouched(v)) /\ (NotPrinted(v)' <=> NotPrinted(v))
  BY DEF Untouched, NotPrinted, Printing
<1>3. OwnInv => OwnInv'
  BY <1>1 DEF OwnInv, At
<1>4. \A c \in Clients : \A q, v : Holds(c, q, v)' <=> Holds(c, q, v)
  BY DEF Holds, At
<1>5. HolderInv => HolderInv'
  BY <1>1, <1>2, <1>4 DEF HolderInv
<1>6. \A c \in Clients : job[c].slot /= NoConn => conn'[job[c].slot] = conn[job[c].slot]
  BY <1>1 DEF Grounds, JobType
<1>7. FateInv => FateInv'
  BY <1>2, <1>6 DEF FateInv, Fate, At
<1> QED
  BY <1>3, <1>5, <1>7

\* How a job thread moves when it lets go of its connection: up to the answer of its
\* begin without an upload, from there with the one it was given.
Moves(c, ok, u) ==
    LET i == job[c]
        j == job'[c] IN
    /\ \A d \in Clients \ {c} : job'[d] = job[d]
    /\ j.slot = NoConn
    /\ \/ i.pc \notin HasUpload /\ j.upload = i.upload
       \/ i.pc = "begin" /\ ok /\ j.pc = "append" /\ j.upload = u
       \/ i.pc = "append" /\ j.pc \in {"append", "cleanup", "handOver"} /\ j.upload = i.upload
       \/ i.pc = "handOver" /\ j.pc = "commit" /\ j.upload = i.upload
       \/ i.pc = "commit" /\ j.pc = "done" /\ j.ok = ok /\ j.upload = i.upload
       \/ i.pc = "cleanup" /\ j.pc = "done" /\ ~j.ok /\ j.upload = i.upload

\* What a job thread does with an answer is one of those moves.
LEMMA AfterMoves ==
    ASSUME Grounds, NEW c \in Clients, NEW ok \in BOOLEAN, NEW u, After(c, ok, u)
    PROVE  Moves(c, ok, u)
<1>0. job \in [Clients -> JobType] /\ job[c] \in JobType
  BY DEF Grounds
<1>1. ASSUME NEW pc, Goes(c, pc), job[c].pc \notin HasUpload PROVE Moves(c, ok, u)
  BY <1>0, <1>1 DEF Goes, Moves, JobType
<1>2. ASSUME NEW b, Ends(c, b),
             \/ job[c].pc \notin HasUpload
             \/ At(c, "commit") /\ b = ok
             \/ At(c, "cleanup") /\ b = FALSE
      PROVE  Moves(c, ok, u)
  BY <1>0, <1>2 DEF Ends, Moves, JobType, At
<1>3. CASE At(c, "append") /\ TakeBack(c)
  BY <1>0, <1>3 DEF TakeBack, Moves, JobType, At
<1>4. CASE At(c, "begin") /\ ok /\
           job' = [job EXCEPT ![c].pc = "append", ![c].slot = NoConn,
                             ![c].upload = u, ![c].offset = 0]
  BY <1>0, <1>4 DEF Moves, JobType, At
<1>5. CASE At(c, "append") /\ ok /\ job' = [job EXCEPT ![c].slot = NoConn, ![c].offset = @ + 1]
  BY <1>0, <1>5 DEF Moves, JobType, At
<1>6. CASE \/ At(c, "hello") /\ Goes(c, IF ok THEN "begin" ELSE "shutdown")
           \/ At(c, "shutdown") /\ Goes(c, "awaitExit")
           \/ At(c, "reconnect") /\ Goes(c, "rehello")
           \/ At(c, "rehello") /\ Goes(c, "begin")
  BY <1>1, <1>6 DEF At, HasUpload
<1>7. CASE job[c].pc \in {"reconnect", "rehello", "begin"} /\ Ends(c, FALSE)
  BY <1>2, <1>7 DEF HasUpload
<1>8. CASE \/ At(c, "commit") /\ Ends(c, Committed(ok))
           \/ At(c, "cleanup") /\ Ends(c, FALSE)
  BY <1>2, <1>8 DEF Committed
<1> QED
  BY <1>3, <1>4, <1>5, <1>6, <1>7, <1>8 DEF After

\* The steps of a job thread without an exchange.
JobAlone(c) ==
    \/ RunDirectPrint(c) \/ RasterCanceled(c) \/ RasterBuilt(c)
    \/ ForgetCancel(c) \/ Activate(c) \/ VerifyFails(c) \/ VerifyPasses(c)
    \/ UploadStops(c) \/ UploadComplete(c) \/ HandOver(c) \/ AwaitExit(c) \/ StartFails(c)

\* What a job thread does on its own is one, too, whatever answer one imagines.
LEMMA AloneMoves ==
    ASSUME Grounds, NEW c \in Clients, JobAlone(c), NEW ok \in BOOLEAN, NEW u
    PROVE  /\ job[c].slot = NoConn /\ Moves(c, ok, u)
           /\ UNCHANGED vars /\ timeouts' = timeouts /\ unheard' = unheard
<1>0. job \in [Clients -> JobType] /\ job[c] \in JobType
  BY DEF Grounds
<1>1. job[c].slot = NoConn
  BY DEF Grounds, JobInv, Asking, JobAlone, RunDirectPrint, RasterCanceled, RasterBuilt,
         ForgetCancel, Activate, VerifyFails, VerifyPasses, UploadStops, UploadComplete,
         HandOver, AwaitExit, StartFails, At
<1>2. UNCHANGED vars /\ timeouts' = timeouts /\ unheard' = unheard
  BY DEF JobAlone, RunDirectPrint, RasterCanceled, RasterBuilt, ForgetCancel, Activate,
         VerifyFails, VerifyPasses, UploadStops, UploadComplete, HandOver, AwaitExit,
         StartFails, JobLocal, vars
<1> SUFFICES Moves(c, ok, u)
  BY <1>1, <1>2
<1>3. ASSUME NEW pc, To(c, pc), \/ job[c].pc \notin HasUpload
                                \/ job[c].pc = "append" /\ pc = "handOver"
                                \/ job[c].pc = "handOver" /\ pc = "commit"
      PROVE  Moves(c, ok, u)
  BY <1>0, <1>1, <1>3 DEF To, Moves, JobType
<1>4. CASE \/ RunDirectPrint(c) \/ RasterBuilt(c) \/ ForgetCancel(c) \/ Activate(c)
           \/ VerifyPasses(c) \/ UploadComplete(c) \/ HandOver(c) \/ AwaitExit(c)
  <2>1. CASE UploadComplete(c)
    BY <1>3, <2>1 DEF UploadComplete, At
  <2>2. CASE HandOver(c)
    BY <1>3, <2>2 DEF HandOver, At
  <2>3. CASE ~UploadComplete(c) /\ ~HandOver(c)
    <3>1. job[c].pc \notin HasUpload
      BY <1>4, <2>3 DEF RunDirectPrint, RasterBuilt, ForgetCancel, Activate, VerifyPasses,
         AwaitExit, At, HasUpload
    <3>2. \E pc : To(c, pc)
      BY <1>4, <2>3 DEF RunDirectPrint, RasterBuilt, ForgetCancel, Activate, VerifyPasses,
         AwaitExit
    <3> QED
      BY <1>3, <3>1, <3>2
  <2> QED
    BY <2>1, <2>2, <2>3
<1>5. CASE RasterCanceled(c) \/ VerifyFails(c) \/ StartFails(c)
  <2>1. job[c].pc \notin HasUpload /\ Ends(c, FALSE)
    BY <1>5 DEF RasterCanceled, VerifyFails, StartFails, At, HasUpload
  <2> QED
    BY <1>0, <2>1 DEF Ends, Moves, JobType
<1>6. CASE UploadStops(c)
  <2>1. job[c].pc = "append" /\ TakeBack(c)
    BY <1>6 DEF UploadStops, At
  <2> QED
    BY <1>0, <2>1 DEF TakeBack, Moves, JobType
<1> QED
  BY <1>4, <1>5, <1>6 DEF JobAlone

\* A job thread that lets go of the connection where its commit is.
GaveUp(c) == At(c, "commit") /\ job[c].slot /= NoConn /\ conn' = conn

\* A job thread that moves takes its upload's fate along.  (With no answer at hand it is
\* as if the request had failed.)
LEMMA MovesKeep ==
    ASSUME Grounds, OwnInv, UNCHANGED <<minted, outcome, stack>>, NEW c \in Clients,
           NEW ok \in BOOLEAN, NEW u, Moves(c, ok, u),
           \/ conn' = conn /\ ~ok
           \/ /\ job[c].slot \in Conns /\ conn[job[c].slot].state = "answered"
              /\ conn' = [conn EXCEPT ![job[c].slot] = Free]
              /\ ok = conn[job[c].slot].ok /\ u = conn[job[c].slot].upload,
           unheard' = IF GaveUp(c) THEN unheard \cup {c} ELSE unheard
    PROVE  OwnInv' /\ (HolderInv /\ FateInv => HolderInv' /\ FateInv')
<1> DEFINE k == job[c].slot
<1>1. /\ \A d \in Clients \ {c} : job'[d] = job[d]
      /\ job'[c].slot = NoConn
  BY DEF Moves
<1>2. \A q \in Conns : conn'[q].state /= "free" => conn'[q] = conn[q]
  BY DEF Grounds, Free
<1>3. \/ job'[c].upload = job[c].upload
      \/ /\ k \in Conns /\ conn[k].state = "answered" /\ conn'[k].state = "free"
         /\ job'[c].upload = conn[k].upload /\ job'[c].pc = "append"
  BY DEF Moves, Grounds, Free
<1>4. job'[c].upload /= NoUpload => job'[c].pc \in HasUpload
  BY DEF Moves, OwnInv, HasUpload
<1>0. /\ c \notin unheard' => ~GaveUp(c)
      /\ \A d \in Clients \ {c} : d \in unheard' <=> d \in unheard
      /\ c \in unheard' => At(c, "done")'
      /\ c \notin unheard
  BY DEF OwnInv, Moves, GaveUp, At, HasUpload
<1>5. OwnInv'
  <2>1. job'[c].upload /= NoUpload =>
          /\ job'[c].upload \in minted
          /\ \A d \in Clients \ {c} : job[d].upload /= job'[c].upload
          /\ \A q \in Conns : conn'[q].state = "answered" => conn'[q].upload /= job'[c].upload
    <3>1. CASE job'[c].upload = job[c].upload
      BY <1>2, <3>1 DEF OwnInv
    <3>2. CASE /\ k \in Conns /\ conn[k].state = "answered" /\ conn'[k].state = "free"
               /\ job'[c].upload = conn[k].upload
      BY <1>2, <3>2 DEF OwnInv
    <3> QED
      BY <1>3, <3>1, <3>2
  <2>2. \A d \in Clients \ {c} : job'[d].upload /= NoUpload =>
          job'[d].upload \in minted /\ job'[d].pc \in HasUpload
    BY <1>1 DEF OwnInv
  <2>3. \A d, e \in Clients : d /= e /\ job'[d].upload /= NoUpload =>
          job'[d].upload /= job'[e].upload
    BY <1>1, <2>1 DEF OwnInv
  <2>4. \A q \in Conns : conn'[q].state = "answered" /\ conn'[q].upload /= NoUpload =>
          /\ conn'[q].upload \in minted
          /\ \A d \in Clients : job'[d].upload /= conn'[q].upload
          /\ \A p \in Conns : p /= q /\ conn'[p].state = "answered" =>
                conn'[p].upload /= conn'[q].upload
    BY <1>1, <1>2, <2>1 DEF OwnInv
  <2> QED
    BY <1>0, <1>1, <1>4, <2>1, <2>2, <2>3, <2>4 DEF OwnInv, At
<1>6. \A v : (Untouched(v)' <=> Untouched(v)) /\ (NotPrinted(v)' <=> NotPrinted(v))
  BY DEF Untouched, NotPrinted, Printing
<1>7. ASSUME HolderInv PROVE HolderInv'
  <2>1. ASSUME NEW d \in Clients, NEW q \in Conns, NEW v, Holds(d, q, v),
               conn[q].state /= "answered"
        PROVE  Holds(d, q, v)'
    <3>1. CASE d /= c
      BY <1>0, <1>1, <2>1, <3>1 DEF Holds, At
    <3>2. CASE d = c
      <4>1. job[c].slot = q /\ At(c, "commit") /\ q /= NoConn
        BY <1>0, <2>1, <3>2 DEF Holds, Grounds
      <4>2. conn' = conn
        BY <2>1, <4>1
      <4>3. c \in unheard'
        BY <1>0, <4>1, <4>2 DEF GaveUp
      <4>4. job'[c].upload = job[c].upload
        BY <4>1 DEF Moves, HasUpload, At
      <4> QED
        BY <2>1, <3>2, <4>3, <4>4 DEF Holds
    <3> QED
      BY <3>1, <3>2
  <2>2. \A q \in Conns : conn'[q].state = "waiting" /\ conn'[q].req.cmd = "commitRasterUpload" =>
          \E d \in Clients : Holds(d, q, conn[q].req.upload)'
    BY <1>2, <1>7, <2>1 DEF HolderInv
  <2>3. \A i \in DOMAIN stack : stack[i].kind = "spooled" =>
          \E d \in Clients : Holds(d, stack[i].conn, stack[i].upload)'
    BY <1>7, <2>1 DEF HolderInv, Grounds, FramesInv
  <2> QED
    BY <1>2, <1>6, <1>7, <2>2, <2>3 DEF HolderInv
<1>8. ASSUME HolderInv, FateInv PROVE FateInv'
  <2>1. ASSUME NEW d \in Clients \ unheard', d /= c, job'[d].upload /= NoUpload PROVE Fate(d)'
    <3>1. Fate(d) /\ job'[d] = job[d] /\ job[d].slot \in Conns \cup {NoConn}
      BY <1>0, <1>1, <1>8, <2>1 DEF FateInv, Grounds, JobType
    <3>2. job[d].slot /= NoConn => job[d].slot /= job[c].slot
      BY <2>1 DEF Grounds, SlotsInv
    <3>3. job[d].slot /= NoConn => conn'[job[d].slot] = conn[job[d].slot]
      BY <3>1, <3>2 DEF Grounds
    <3> QED
      BY <1>6, <3>1, <3>3 DEF Fate, At
  <2>2. ASSUME c \notin unheard', job'[c].upload /= NoUpload PROVE Fate(c)'
    <3>1. CASE job[c].pc \notin HasUpload /\ job'[c].upload = job[c].upload
      BY <2>2, <3>1 DEF OwnInv
    <3>2. CASE /\ job[c].pc = "begin" /\ ok /\ job'[c].pc = "append" /\ job'[c].upload = u
      <4>1. Untouched(u)
        BY <1>8, <2>2, <3>2 DEF HolderInv
      <4> QED
        BY <1>6, <3>2, <4>1 DEF Fate, At
    <3>3. CASE job[c].pc \in {"append", "handOver", "cleanup"} /\ job'[c].upload = job[c].upload
               /\ job'[c].pc \in {"append", "cleanup", "handOver", "commit", "done"}
      <4>1. Untouched(job[c].upload)
        BY <1>0, <1>8, <2>2, <3>3 DEF FateInv, Fate
      <4>2. NotPrinted(job[c].upload)
        BY <4>1 DEF Untouched, NotPrinted
      <4> QED
        BY <1>1, <1>6, <3>3, <4>1, <4>2 DEF Fate, At
    <3>4. CASE /\ job[c].pc = "commit" /\ job'[c].pc = "done" /\ job'[c].ok = ok
               /\ job'[c].upload = job[c].upload
      <4>1. Fate(c)
        BY <1>0, <1>8, <2>2, <3>4 DEF FateInv
      <4>2. ok \/ NotPrinted(job[c].upload)
        BY <1>0, <2>2, <3>4, <4>1 DEF Fate, At, Untouched, NotPrinted, Grounds, GaveUp
      <4> QED
        BY <1>6, <3>4, <4>2 DEF Fate, At
    <3> QED
      BY <3>1, <3>2, <3>3, <3>4 DEF Moves
  <2> QED
    BY <2>1, <2>2 DEF FateInv
<1> QED
  BY <1>5, <1>7, <1>8

\* A job thread that asks holds its request, and nothing of the upload has moved.
LEMMA AskHolds ==
    ASSUME Grounds, OwnInv, UNCHANGED <<unheard, minted, outcome, stack>>, NEW c \in Clients,
           NEW k \in Conns, NEW r, Asks(c, r), job[c].slot = NoConn, conn[k].state = "free",
           conn' = [conn EXCEPT ![k] = Waiting(r)], job' = [job EXCEPT ![c].slot = k]
    PROVE  OwnInv' /\ (HolderInv /\ FateInv => HolderInv' /\ FateInv')
<1>1. /\ conn'[k].state = "waiting" /\ conn'[k].req = r
      /\ \A q \in Conns \ {k} : conn'[q] = conn[q]
  BY DEF Grounds, Waiting
<1>2. /\ job'[c].slot = k /\ job'[c].pc = job[c].pc /\ job'[c].upload = job[c].upload
      /\ job'[c].ok = job[c].ok
      /\ \A d \in Clients \ {c} : job'[d] = job[d]
  BY DEF Grounds, JobType
<1>3. \A v : (Untouched(v)' <=> Untouched(v)) /\ (NotPrinted(v)' <=> NotPrinted(v))
  BY DEF Untouched, NotPrinted, Printing
<1>4. OwnInv'
  <2>1. \A d \in Clients : job'[d].upload = job[d].upload /\ job'[d].pc = job[d].pc
    BY <1>2
  <2> QED
    BY <1>1, <2>1 DEF OwnInv, At
<1>5. r.cmd = "commitRasterUpload" => Holds(c, k, r.upload)'
  BY <1>2 DEF Asks, Holds, At
<1>6. ASSUME HolderInv PROVE HolderInv'
  <2>1. \A d \in Clients : \A q \in Conns : \A v : Holds(d, q, v) => Holds(d, q, v)'
    BY <1>2 DEF Holds, At, Grounds
  <2>2. \A q \in Conns : conn'[q].state = "waiting" /\ conn'[q].req.cmd = "commitRasterUpload" =>
          \E d \in Clients : Holds(d, q, conn[q].req.upload)'
    BY <1>1, <1>5, <1>6, <2>1 DEF HolderInv
  <2>3. \A i \in DOMAIN stack : stack[i].kind = "spooled" =>
          \E d \in Clients : Holds(d, stack[i].conn, stack[i].upload)'
    BY <1>6, <2>1 DEF HolderInv, Grounds
  <2>4. \A q \in Conns : conn'[q].state = "answered" /\ conn'[q].upload /= NoUpload
          => Untouched(conn'[q].upload)
    BY <1>1, <1>6 DEF HolderInv
  <2> QED
    BY <1>3, <2>2, <2>3, <2>4 DEF HolderInv
<1>7. ASSUME FateInv PROVE FateInv'
  <2>1. ASSUME NEW d \in Clients \ unheard, d /= c, job'[d].upload /= NoUpload PROVE Fate(d)'
    <3>1. Fate(d) /\ job'[d] = job[d] /\ job[d].slot \in Conns \cup {NoConn}
      BY <1>2, <1>7, <2>1 DEF FateInv, Grounds, JobType
    <3>2. job[d].slot /= k
      BY SystemAssumption DEF Grounds, SlotsInv
    <3>3. job[d].slot /= NoConn => conn'[job[d].slot] = conn[job[d].slot]
      BY <1>1, <3>1, <3>2
    <3> QED
      BY <1>3, <3>1, <3>3 DEF Fate, At
  <2>2. ASSUME c \notin unheard, job'[c].upload /= NoUpload PROVE Fate(c)'
    <3>1. Fate(c)
      BY <1>2, <1>7, <2>2 DEF FateInv
    <3>2. At(c, "commit") => Untouched(job[c].upload)
      BY <3>1 DEF Fate
    <3> QED
      BY <1>1, <1>2, <1>3, <3>1, <3>2 DEF Fate, At
  <2> QED
    BY <2>1, <2>2 DEF FateInv
<1> QED
  BY <1>4, <1>6, <1>7

\* What a client alone with the service finds of its upload in the table: nothing once
\* it is done, because its last request was served, or died with the process.
LeftInv(c) ==
    LET u == job[c].upload
        k == job[c].slot IN
    /\ abandoned = {}
    /\ At(c, "cleanup") /\ k /= NoConn =>
          \/ /\ conn[k].state = "waiting"
             /\ conn[k].req.cmd = "cancelRasterUpload" /\ conn[k].req.upload = u
          \/ conn[k].state = "answered" /\ u \notin table
    /\ At(c, "commit") /\ k /= NoConn => conn[k].state = "waiting" \/ u \notin table
    /\ At(c, "done") => u \notin table

\* As long as its request is under way, or gone from the table with its upload.
LEMMA LeftKept ==
    ASSUME NEW c \in Clients, LeftInv(c), job' = job, abandoned' = abandoned,
           job[c].upload \notin table => job[c].upload \notin table',
           job[c].slot /= NoConn =>
              \/ conn'[job[c].slot] = conn[job[c].slot]
              \/ /\ At(c, "cleanup") \/ At(c, "commit") => job[c].upload \notin table'
                 /\ At(c, "cleanup") => conn'[job[c].slot].state = "answered"
    PROVE  LeftInv(c)'
BY DEF LeftInv, At

\* An upload that left the table does not come back: nobody draws it again.
LEMMA StaysOut ==
    ASSUME Grounds, OwnInv, NEW c \in Clients, job[c].upload \notin table,
           \/ table' \subseteq table
           \/ \E v \in Uploads \ minted : table' = table \cup {v}
    PROVE  job[c].upload \notin table'
<1>1. job[c].upload \in Uploads => job[c].upload \in minted
  BY DEF OwnInv, Grounds
<1> QED
  BY <1>1

\* Where the gate is closed, the one client waits for its print.
LEMMA GateHasClient ==
    ASSUME SysInv, HolderInv, unheard = {}, NEW c \in Clients, Clients = {c}, printInProgress
    PROVE  At(c, "commit") /\ job[c].slot \in Conns /\ conn[job[c].slot].state = "serving"
<1>1. /\ stack /= <<>> /\ Top.kind = "spooled" /\ stack \in Seq(Frame)
  BY DEF SysInv, IndInv, GateGuardsThePrint, TypeOK
<1>2. 1 \in DOMAIN stack /\ stack[1].kind = "spooled"
  BY <1>1, StackTop
<1>3. Holds(c, stack[1].conn, stack[1].upload)
  BY <1>2 DEF HolderInv
<1> QED
  BY <1>2, <1>3, HaveGrounds DEF Holds, Grounds, FramesInv

\* The steps of the service.
LEMMA RepliedLeaves ==
    ASSUME SysInv, OwnInv, HolderInv, unheard = {}, NEW c \in Clients, Clients = {c}, LeftInv(c),
           job' = job, abandoned' = abandoned, NEW k \in Conns, NEW ok \in BOOLEAN,
           NEW u \in Uploads \cup {NoUpload}, conn[k].state = "waiting", Replied(k, ok, u)
    PROVE  LeftInv(c)'
<1>0. Grounds
  BY HaveGrounds
<1>1. conn'[k].state = "answered" /\ \A q \in Conns \ {k} : conn'[q] = conn[q]
  BY <1>0 DEF Grounds, Replied, Answered
<1>2. \/ table' \subseteq table
      \/ \E v \in Uploads \ minted : table' = table \cup {v}
  BY DEF Replied, TableShrinks
<1>3. job[c].slot \in Conns \cup {NoConn}
  BY <1>0 DEF Grounds, JobType
<1>4. CASE job[c].slot = k
  <2>1. ~(printInProgress /\ (At(c, "cleanup") \/ At(c, "commit")))
    BY <1>4, GateHasClient DEF At
  <2>2. At(c, "cleanup") \/ At(c, "commit") =>
          /\ conn[k].req.cmd \in {"commitRasterUpload", "cancelRasterUpload"}
          /\ conn[k].req.upload = job[c].upload
    BY <1>0, <1>4 DEF LeftInv, Grounds, JobInv, CommitAt
  <2>3. At(c, "cleanup") \/ At(c, "commit") => job[c].upload \notin table'
    BY <2>1, <2>2 DEF Replied
  <2> QED
    BY <1>0, <1>1, <1>2, <1>4, <2>3, StaysOut, LeftKept
<1>5. CASE job[c].slot /= k
  <2>1. job[c].slot /= NoConn => conn'[job[c].slot] = conn[job[c].slot]
    BY <1>1, <1>3, <1>5
  <2> QED
    BY <1>0, <1>2, <2>1, StaysOut, LeftKept
<1> QED
  BY <1>4, <1>5

\* A request taken up by a handler leaves its upload where it was.
LEMMA StartedLeaves ==
    ASSUME SysInv, OwnInv, NEW c \in Clients, LeftInv(c),
           job' = job, abandoned' = abandoned, NEW k \in Conns, NEW f \in Frame,
           conn[k].state = "waiting", Started(k, f)
    PROVE  LeftInv(c)'
<1>0. Grounds
  BY HaveGrounds
<1>1. \A q \in Conns \ {k} : conn'[q] = conn[q]
  BY <1>0 DEF Grounds, Started
<1>2. job[c].upload \notin table => job[c].upload \notin table'
  BY DEF Started, TableShrinks
<1>3. job[c].slot \in Conns \cup {NoConn}
  BY <1>0 DEF Grounds, JobType
<1>4. CASE job[c].slot = k
  <2>1. ~At(c, "cleanup")
    BY <1>0, <1>4 DEF LeftInv, Started, Grounds
  <2>2. At(c, "commit") => job[c].upload \notin table'
    BY <1>0, <1>4 DEF Grounds, JobInv, CommitAt, Started
  <2> QED
    BY <1>2, <2>1, <2>2, LeftKept
<1>5. CASE job[c].slot /= k
  BY <1>1, <1>2, <1>3, <1>5, LeftKept
<1> QED
  BY <1>4, <1>5

\* So does the answer at the end of a print.
LEMMA ReturnedLeaves ==
    ASSUME SysInv, NEW c \in Clients, LeftInv(c), job' = job, UNCHANGED <<abandoned, table>>,
           NEW ok, NEW why, stack /= <<>>, Return(ok, why)
    PROVE  LeftInv(c)'
<1>0. Grounds
  BY HaveGrounds
<1>1. /\ stack[1].conn \in Conns /\ conn[stack[1].conn].state = "serving"
      /\ \A q \in Conns \ {stack[1].conn} : conn'[q] = conn[q]
  BY <1>0, StackTop DEF Grounds, Return, FramesInv
<1>2. job[c].slot \in Conns \cup {NoConn}
  BY <1>0 DEF Grounds, JobType
<1>3. CASE job[c].slot = stack[1].conn
  <2>1. ~At(c, "cleanup") /\ (At(c, "commit") => job[c].upload \notin table)
    BY <1>0, <1>1, <1>3 DEF LeftInv, Grounds
  <2> QED
    BY <2>1, LeftKept
<1>4. CASE job[c].slot /= stack[1].conn
  BY <1>1, <1>2, <1>4, LeftKept
<1> QED
  BY <1>3, <1>4

\* The end of the process takes the table along.
LEMMA BrokenLeaves ==
    ASSUME SysInv, NEW c \in Clients, LeftInv(c), job' = job, abandoned' = abandoned,
           table' = {}, conn' = BrokenConns
    PROVE  LeftInv(c)'
<1>0. Grounds
  BY HaveGrounds
<1>1. job[c].slot \in Conns \cup {NoConn}
  BY <1>0 DEF Grounds, JobType
<1>2. ASSUME At(c, "cleanup"), job[c].slot /= NoConn
      PROVE  conn'[job[c].slot].state = "answered"
  <2>1. conn[job[c].slot].state \in {"waiting", "answered"}
    BY <1>2 DEF LeftInv
  <2> QED
    BY <1>1, <1>2, <2>1 DEF BrokenConns, Answered
<1> QED
  BY <1>2, LeftKept

\* A job thread that ends has had the answer of its last request, or saw the process gone.
LEMMA MovesLeave ==
    ASSUME SysInv, OwnInv, NEW c \in Clients, LeftInv(c), UNCHANGED <<abandoned, table>>,
           NEW ok, NEW u, Moves(c, ok, u),
           \/ job[c].slot = NoConn /\ (job'[c].pc = "done" =>
                 table = {} \/ job[c].pc \notin HasUpload)
           \/ job[c].slot /= NoConn /\ conn[job[c].slot].state = "answered"
    PROVE  LeftInv(c)'
<1>0. Grounds
  BY HaveGrounds
<1>1. job[c].pc \notin HasUpload => job[c].upload \notin table
  BY <1>0 DEF OwnInv, Grounds
<1>2. job[c].pc \in {"commit", "cleanup"} /\ job'[c].pc = "done" => job[c].upload \notin table
  BY DEF LeftInv, At, HasUpload
<1>3. job'[c].slot = NoConn
      /\ (job'[c].pc = "done" => job'[c].upload = job[c].upload /\
            (job[c].pc \in {"commit", "cleanup"} \/ job[c].pc \notin HasUpload))
  BY DEF Moves
<1> QED
  BY <1>1, <1>2, <1>3 DEF LeftInv, At

\* A job thread that asks has its own upload in its request.
LEMMA AskLeaves ==
    ASSUME SysInv, NEW c \in Clients, LeftInv(c), UNCHANGED <<abandoned, table>>,
           NEW k \in Conns, NEW r, Asks(c, r),
           conn' = [conn EXCEPT ![k] = Waiting(r)], job' = [job EXCEPT ![c].slot = k]
    PROVE  LeftInv(c)'
<1>0. Grounds
  BY HaveGrounds
<1>1. conn'[k].state = "waiting" /\ conn'[k].req = r
  BY <1>0 DEF Grounds, Waiting
<1>2. /\ job'[c].slot = k /\ job'[c].pc = job[c].pc /\ job'[c].upload = job[c].upload
  BY <1>0 DEF Grounds, JobType
<1>3. At(c, "cleanup") => r.cmd = "cancelRasterUpload" /\ r.upload = job[c].upload
  BY DEF Asks, At
<1> QED
  BY <1>1, <1>2, <1>3 DEF LeftInv, At

\* What holds of every upload; and what holds of a lone client's while nothing has been
\* given up.
Promises == HolderInv /\ FateInv
Leaves == unheard = {} /\ \A c \in Clients : Clients = {c} => LeftInv(c)
PromiseInv == OwnInv /\ Promises /\ (timeouts = 0 => Leaves)

\* A step that keeps them all.
StepKeeps == OwnInv' /\ Promises' /\ (Leaves => Leaves')

\* A connection that no job thread uses carries none of their requests.
LEMMA AsideKeeps ==
    ASSUME SysInv, OwnInv, Promises,
           UNCHANGED <<job, unheard, minted, outcome, stack, abandoned, table>>,
           NEW k \in Conns, \A c \in Clients : job[c].slot /= k,
           \/ \E r : r.cmd /= "commitRasterUpload" /\ conn' = [conn EXCEPT ![k] = Waiting(r)]
           \/ conn' = [conn EXCEPT ![k] = Free]
           \/ conn' = conn
    PROVE  StepKeeps
<1>1. Grounds
  BY HaveGrounds
<1>2. \A c \in Clients : job[c].slot /= NoConn => conn'[job[c].slot] = conn[job[c].slot]
  BY <1>1 DEF Grounds, JobType
<1>3. ASSUME NEW c \in Clients, LeftInv(c) PROVE LeftInv(c)'
  BY <1>2, <1>3, LeftKept
<1> QED
  BY <1>1, <1>3, OtherConnKeeps DEF Promises, Leaves, StepKeeps

\* A handler's step.
LEMMA ServeKeeps ==
    ASSUME SysInv, OwnInv, Promises, UNCHANGED <<job, unheard>>, NEW k \in Conns, Serve(k)
    PROVE  StepKeeps
<1>1. Grounds /\ IndInv /\ FramesInv
  BY HaveGrounds DEF SysInv
<1>2. conn[k].state = "waiting" /\ UNCHANGED <<outcome, abandoned>>
  BY <1>1, ServeAnswers
<1>3. ASSUME NEW ok \in BOOLEAN, NEW u \in Uploads \cup {NoUpload}, Replied(k, ok, u)
      PROVE  StepKeeps
  BY <1>1, <1>2, <1>3, RepliedKeeps, RepliedLeaves DEF Promises, Leaves, StepKeeps
<1>4. ASSUME NEW f \in Frame, Started(k, f)
      PROVE  StepKeeps
  BY <1>1, <1>2, <1>4, StartedKeeps, StartedLeaves DEF Promises, Leaves, StepKeeps
<1> QED
  BY <1>1, <1>3, <1>4, ServeAnswers

\* A step of a print.
LEMMA PrintKeeps ==
    ASSUME SysInv, OwnInv, Promises, UNCHANGED <<job, unheard>>, JobStep
    PROVE  StepKeeps
<1>1. Grounds /\ IndInv /\ stack /= <<>> /\ UNCHANGED <<minted, table, abandoned>>
  BY HaveGrounds, JobAnswers DEF SysInv
<1>2. ASSUME NEW ok \in BOOLEAN, NEW why \in {"printed", "canceled", "failed"},
             Return(ok, why), ok <=> why = "printed"
      PROVE  StepKeeps
  BY <1>1, <1>2, ReturnedKeeps, ReturnedLeaves DEF Promises, Leaves, StepKeeps
<1>3. ASSUME NEW f \in Frame, UNCHANGED <<conn, outcome>>, stack' = <<f>> \o Tail(stack),
             f.conn = Top.conn, f.kind = Top.kind, f.upload = Top.upload
      PROVE  StepKeeps
  <2>1. \A c \in Clients : LeftInv(c) => LeftInv(c)'
    BY <1>1, <1>3, LeftKept
  <2> QED
    BY <1>1, <1>3, <2>1, InsideKeeps DEF Promises, Leaves, StepKeeps
<1> QED
  BY <1>1, <1>2, <1>3, JobAnswers

\* Only a crash adds an abandoned file to the disk.
LEMMA RestForgetsNothing ==
    ASSUME \/ WorkerStep \/ (\E u \in Uploads : Age(u)) \/ RemoveExpiredUploads
           \/ Terminate \/ Exit \/ Restart \/ OrphanExits
    PROVE  abandoned' = abandoned
BY DEF WorkerStep, WorkerSetup, WorkerCheck, WorkerSend, WorkerFinish, WorkerFails, WorkerTo,
       Age, RemoveExpiredUploads, Terminate, Exit, Restart, OrphanExits, Forget, vars,
       uploadVars, jobVars, histVars, diskVars

\* A step of the rest of the service, and the end of the process.  It is killed only by
\* a client that waits for its end, so not below a print of the only client.
LEMMA RestKeeps ==
    ASSUME SysInv, OwnInv, Promises, UNCHANGED <<job, unheard>>,
           \/ WorkerStep \/ (\E u \in Uploads : Age(u)) \/ RemoveExpiredUploads
           \/ Terminate \/ Exit \/ Restart \/ OrphanExits
           \/ Crash /\ \E c \in Clients : At(c, "awaitExit")
    PROVE  StepKeeps
<1>1. Grounds /\ IndInv
  BY HaveGrounds DEF SysInv
<1>2. /\ UNCHANGED <<outcome, minted>> /\ table' \subseteq table
      /\ abandoned' = abandoned \/ (Crash /\ \E c \in Clients : At(c, "awaitExit"))
      /\ \/ UNCHANGED <<conn, stack>>
         \/ conn' = BrokenConns /\ stack' = <<>> /\ table' = {}
  BY <1>1, OthersAnswer, RestForgetsNothing DEF TableShrinks
<1>3. /\ OwnInv' /\ (HolderInv => HolderInv') /\ (FateInv => FateInv')
  <2>1. CASE UNCHANGED <<conn, stack>>
    <3>1. \A v : (Untouched(v)' <=> Untouched(v)) /\ (NotPrinted(v)' <=> NotPrinted(v))
      BY <1>2, <2>1 DEF Untouched, NotPrinted, Printing
    <3>2. OwnInv'
      BY <1>2, <2>1 DEF OwnInv, At
    <3>3. HolderInv => HolderInv'
      BY <2>1, <3>1 DEF HolderInv, Holds, At
    <3>4. FateInv => FateInv'
      BY <1>2, <2>1, <3>1 DEF FateInv, Fate, At
    <3> QED
      BY <3>2, <3>3, <3>4
  <2>2. CASE conn' = BrokenConns /\ stack' = <<>>
    BY <1>1, <1>2, <2>2, BrokenKeeps
  <2> QED
    BY <1>2, <2>1, <2>2
<1>4. ASSUME NEW c \in Clients, Clients = {c}, HolderInv, unheard = {}, LeftInv(c)
      PROVE  LeftInv(c)'
  <2>1. abandoned' = abandoned
    <3>1. SUFFICES ASSUME Crash, At(c, "awaitExit") PROVE abandoned' = abandoned
      BY <1>2, <1>4
    <3>2. \A i \in DOMAIN stack : stack[i].kind /= "spooled"
      BY <1>4, <3>1 DEF HolderInv, Holds, At
    <3> QED
      BY <3>1, <3>2 DEF Crash
  <2>2. CASE UNCHANGED <<conn, stack>>
    BY <1>2, <1>4, <2>1, <2>2, LeftKept
  <2>3. CASE conn' = BrokenConns /\ table' = {}
    BY <1>4, <2>1, <2>3, BrokenLeaves
  <2> QED
    BY <1>2, <2>2, <2>3
<1> QED
  BY <1>3, <1>4 DEF Promises, Leaves, StepKeeps

\* A step of a job thread.
LEMMA JobKeepsPromises ==
    ASSUME SysInv, OwnInv, Promises, NEW c \in Clients, Submission(c),
           ~SigTerm(c), ~SigKill(c)
    PROVE  OwnInv' /\ Promises' /\ (timeouts' = timeouts /\ Leaves => Leaves')
<1>1. Grounds /\ ClientTypeOK /\ IndInv
  BY HaveGrounds DEF SysInv
<1>2. \A d \in Clients : Clients = {d} => d = c
  OBVIOUS
<1>3. CASE JobAlone(c)
  <2>1. PICK ok \in BOOLEAN : ~ok
    OBVIOUS
  <2>2. /\ job[c].slot = NoConn /\ Moves(c, ok, NoUpload) /\ UNCHANGED vars
        /\ unheard' = unheard /\ ~GaveUp(c)
    BY <1>1, <1>3, AloneMoves DEF GaveUp
  <2>3. UNCHANGED <<minted, outcome, stack, conn, abandoned, table>>
    BY <2>2 DEF vars, uploadVars, jobVars, histVars
  <2>4. job'[c].pc = "done" => job[c].pc \notin HasUpload
    <3>1. job[c].pc \notin {"commit", "cleanup"}
      BY <1>3 DEF JobAlone, RunDirectPrint, RasterCanceled, RasterBuilt, ForgetCancel,
         Activate, VerifyFails, VerifyPasses, UploadStops, UploadComplete, HandOver,
         AwaitExit, StartFails, At
    <3> QED
      BY <2>2, <3>1 DEF Moves, HasUpload
  <2>5. LeftInv(c) => LeftInv(c)'
    BY <2>2, <2>3, <2>4, MovesLeave
  <2> QED
    BY <1>1, <1>2, <2>1, <2>2, <2>3, <2>5, MovesKeep DEF Promises, Leaves
<1>4. CASE Ask(c)
  <2>1. PICK k \in Conns, r \in Request :
          Asks(c, r) /\ Send(k, r) /\ job' = [job EXCEPT ![c].slot = k]
    BY <1>4 DEF Ask
  <2>2. /\ job[c].slot = NoConn /\ conn[k].state = "free"
        /\ conn' = [conn EXCEPT ![k] = Waiting(r)]
        /\ UNCHANGED <<unheard, minted, outcome, stack, abandoned, table>>
    <3>1. conn[k] = Free /\ conn' = [conn EXCEPT ![k] = Waiting(r)]
      BY <2>1 DEF Send
    <3>2. conn[k].state = "free"
      BY <3>1 DEF Free
    <3>3. job[c].slot = NoConn
      BY <1>4 DEF Ask
    <3>4. UNCHANGED <<unheard, minted, outcome, stack, abandoned, table>>
      BY <1>4, <2>1 DEF Ask, ClientLocal, Send, uploadVars, jobVars, histVars, diskVars
    <3> QED
      BY <3>1, <3>2, <3>3, <3>4
  <2>3. LeftInv(c) => LeftInv(c)'
    BY <2>1, <2>2, AskLeaves
  <2> QED
    BY <1>1, <1>2, <2>1, <2>2, <2>3, AskHolds DEF Promises, Leaves
<1>5. CASE Answer(c)
  <2>1. PICK k \in Conns : job[c].slot = k /\ Receive(k) /\ After(c, conn[k].ok, conn[k].upload)
    BY <1>5 DEF Answer
  <2>2. /\ conn[k].state = "answered" /\ conn' = [conn EXCEPT ![k] = Free]
        /\ UNCHANGED <<unheard, minted, outcome, stack, abandoned, table>>
    BY <1>5, <2>1 DEF Answer, Receive, uploadVars, jobVars, histVars
  <2>3. conn[k].ok \in BOOLEAN
    <3>1. conn[k] \in ConnState
      BY <1>1 DEF Grounds
    <3> QED
      BY <2>2, <3>1 DEF ConnState, Free, Serving, Waiting, Answered
  <2>4. Moves(c, conn[k].ok, conn[k].upload)
    BY <1>1, <2>1, <2>3, AfterMoves
  <2>5. k /= NoConn
    BY SystemAssumption
  <2>6. LeftInv(c) => LeftInv(c)'
    BY <2>1, <2>2, <2>4, <2>5, MovesLeave
  <2>7. OwnInv' /\ (HolderInv /\ FateInv => HolderInv' /\ FateInv')
    <3>1. ~GaveUp(c)
      BY <1>1, <2>2 DEF Grounds, Free, GaveUp
    <3> QED
      BY <1>1, <2>1, <2>2, <2>3, <2>4, <3>1, MovesKeep
  <2>8. Leaves => Leaves'
    BY <1>2, <2>2, <2>6 DEF Leaves
  <2> QED
    BY <1>2, <2>8, <2>6, <2>7 DEF Promises, Leaves
<1>6. CASE NoAnswer(c)
  <2>1. PICK ok \in BOOLEAN : ~ok
    OBVIOUS
  <2>2. After(c, ok, NoUpload)
    BY <1>6, <2>1 DEF NoAnswer
  <2>3. Moves(c, ok, NoUpload)
    BY <1>1, <2>2, AfterMoves
  <2>4. UNCHANGED <<minted, outcome, stack, conn, abandoned, table>>
    BY <1>6 DEF NoAnswer, vars, uploadVars, jobVars, histVars
  <2>5. timeouts' = timeouts => job[c].slot = NoConn /\ table = {}
    BY <1>1, <1>6 DEF NoAnswer, GivesUp, ClientTypeOK, IndInv, ProcessInv
  <2>6. timeouts' = timeouts /\ LeftInv(c) => LeftInv(c)'
    BY <2>3, <2>4, <2>5, MovesLeave
  <2>7. unheard' = IF GaveUp(c) THEN unheard \cup {c} ELSE unheard
    BY <1>6, <2>4 DEF NoAnswer, GaveUp
  <2>8. OwnInv' /\ Promises'
    BY <1>1, <2>1, <2>3, <2>4, <2>7, MovesKeep DEF Promises
  <2>9. timeouts' = timeouts /\ Leaves => Leaves'
    BY <1>2, <2>5, <2>6, <2>7 DEF Leaves, GaveUp
  <2> QED
    BY <2>8, <2>9
<1> QED
  BY <1>3, <1>4, <1>5, <1>6 DEF Submission, JobThread, JobAlone

\* A step of a GUI thread, or of another program.
LEMMA OthersKeepPromises ==
    ASSUME SysInv, OwnInv, Promises,
           \/ \E c \in Clients : GuiThread(c)
           \/ \E k \in Conns : Integration(k) \/ Discard(k)
    PROVE  StepKeeps
<1>0. Grounds /\ ClientTypeOK /\ SlotsInv
  BY HaveGrounds DEF SysInv, ThreadsInv
<1>1. ASSUME NEW k \in Conns, NEW r, r.cmd /= "commitRasterUpload", Send(k, r),
             UNCHANGED <<job, unheard>>
      PROVE  StepKeeps
  <2>1. conn[k].state = "free" /\ conn' = [conn EXCEPT ![k] = Waiting(r)]
        /\ UNCHANGED <<minted, outcome, stack, abandoned, table>>
    BY <1>1 DEF Send, Free, uploadVars, jobVars, histVars
  <2>2. \A c \in Clients : job[c].slot /= k
    BY <1>0, <2>1, SystemAssumption DEF SlotsInv
  <2> QED
    BY <1>1, <2>1, <2>2, AsideKeeps
<1>2. ASSUME NEW k \in Conns, Receive(k), UNCHANGED <<job, unheard>>,
             \A c \in Clients : job[c].slot /= k
      PROVE  StepKeeps
  <2>1. conn' = [conn EXCEPT ![k] = Free]
        /\ UNCHANGED <<minted, outcome, stack, abandoned, table>>
    BY <1>2 DEF Receive, uploadVars, jobVars, histVars
  <2> QED
    BY <1>2, <2>1, AsideKeeps
<1>3. ASSUME UNCHANGED <<vars, job, unheard>> PROVE StepKeeps
  <2>1. UNCHANGED <<minted, outcome, stack, abandoned, table, conn>>
    BY <1>3 DEF vars, uploadVars, jobVars, histVars
  <2>2. \A c \in Clients : LeftInv(c) => LeftInv(c)'
    BY <1>3, <2>1, LeftKept
  <2>3. \A v : (Untouched(v)' <=> Untouched(v)) /\ (NotPrinted(v)' <=> NotPrinted(v))
    BY <2>1 DEF Untouched, NotPrinted, Printing
  <2>4. OwnInv'
    BY <1>3, <2>1 DEF OwnInv, At
  <2>5. HolderInv => HolderInv'
    BY <1>3, <2>1, <2>3 DEF HolderInv, Holds, At
  <2>6. FateInv => FateInv'
    BY <1>3, <2>1, <2>3 DEF FateInv, Fate, At
  <2> QED
    BY <1>3, <2>2, <2>4, <2>5, <2>6 DEF Promises, Leaves, StepKeeps
<1>4. ASSUME NEW c \in Clients, GuiThread(c) PROVE StepKeeps
  <2>1. CASE AskAbort(c)
    BY <1>1, <2>1 DEF AskAbort, ClientLocal
  <2>2. CASE AbortAnswered(c)
    <3>1. PICK k \in Conns : gui[c].slot = k /\ Receive(k)
            /\ UNCHANGED <<job, unheard>>
      BY <2>2 DEF AbortAnswered
    <3>2. \A d \in Clients : job[d].slot /= k
      BY <1>0, <3>1, SystemAssumption DEF SlotsInv
    <3> QED
      BY <1>2, <3>1, <3>2
  <2>3. CASE Click(c) \/ ReadActive(c) \/ StoreCancel(c) \/ AbortUnanswered(c)
    BY <1>3, <2>3 DEF Click, ReadActive, StoreCancel, AbortUnanswered, ClientLocal
  <2> QED
    BY <1>4, <2>1, <2>2, <2>3 DEF GuiThread
<1>5. ASSUME NEW k \in Conns, Integration(k) \/ Discard(k)
      PROVE  StepKeeps
  <2>1. CASE Integration(k)
    BY <1>1, <2>1 DEF Integration
  <2>2. CASE Discard(k)
    BY <1>2, <2>2 DEF Discard, clientVars
  <2> QED
    BY <1>5, <2>1, <2>2
<1> QED
  BY <1>4, <1>5

\* Every step of the system keeps the promises.
LEMMA PromisesKept ==
    ASSUME SysInv, PromiseInv, [SysNext]_sysVars
    PROVE  PromiseInv'
<1>1. OwnInv /\ Promises /\ (timeouts = 0 => Leaves) /\ ClientTypeOK
  BY DEF PromiseInv, SysInv
<1>2. ASSUME OwnInv' /\ Promises' /\ (timeouts' = timeouts /\ Leaves => Leaves'),
             timeouts' = timeouts \/ timeouts' = timeouts + 1
      PROVE  PromiseInv'
  <2>1. timeouts' = 0 => timeouts = 0 /\ timeouts' = timeouts
    BY <1>1, <1>2 DEF ClientTypeOK
  <2> QED
    BY <1>1, <1>2, <2>1 DEF PromiseInv
<1>3. CASE Service \/ \E c \in Clients : SigTerm(c) \/ SigKill(c)
  <2>1. UNCHANGED <<job, unheard, timeouts>>
    BY <1>3 DEF Service, SigTerm, SigKill, clientVars
  <2>2. CASE \E k \in Conns : Serve(k)
    BY <1>1, <1>2, <2>1, <2>2, ServeKeeps DEF StepKeeps
  <2>3. CASE JobStep
    BY <1>1, <1>2, <2>1, <2>3, PrintKeeps DEF StepKeeps
  <2>4. CASE \/ WorkerStep \/ (\E u \in Uploads : Age(u)) \/ RemoveExpiredUploads
             \/ Terminate \/ Exit \/ Restart \/ OrphanExits
             \/ Crash /\ \E c \in Clients : At(c, "awaitExit")
    <3>1. StepKeeps
      BY <1>1, <2>1, <2>4, RestKeeps
    <3> QED
      BY <1>2, <2>1, <3>1 DEF StepKeeps
  <2> QED
    BY <1>3, <2>2, <2>3, <2>4 DEF Service, Replace, SigTerm, SigKill
<1>4. ASSUME NEW c \in Clients, Submission(c), ~SigTerm(c), ~SigKill(c) PROVE PromiseInv'
  <2>1. timeouts' = timeouts \/ timeouts' = timeouts + 1
    BY <1>4 DEF Submission, StartFails, JobThread, RunDirectPrint, RasterCanceled, RasterBuilt, ForgetCancel, Activate,
       VerifyFails, VerifyPasses, Ask, Answer, NoAnswer, GivesUp, UploadStops, UploadComplete,
       HandOver, AwaitExit, JobLocal, ClientLocal
  <2> QED
    BY <1>1, <1>2, <1>4, <2>1, JobKeepsPromises
<1>5. CASE \/ \E c \in Clients : GuiThread(c)
           \/ \E k \in Conns : Integration(k) \/ Discard(k)
  <2>1. timeouts' = timeouts \/ timeouts' = timeouts + 1
    BY <1>5 DEF GuiThread, Click, ReadActive, StoreCancel, AskAbort, AbortAnswered,
       AbortUnanswered, GivesUp, ClientLocal, Integration, Discard, clientVars
  <2> QED
    BY <1>1, <1>2, <1>5, <2>1, OthersKeepPromises DEF StepKeeps
<1>6. CASE UNCHANGED sysVars
  <2>1. UNCHANGED <<job, unheard, timeouts, minted, outcome, stack, abandoned, table, conn>>
    BY <1>6 DEF sysVars, clientVars, vars, uploadVars, jobVars, histVars
  <2>2. \A v : (Untouched(v)' <=> Untouched(v)) /\ (NotPrinted(v)' <=> NotPrinted(v))
    BY <2>1 DEF Untouched, NotPrinted, Printing
  <2>3. OwnInv'
    BY <1>1, <2>1 DEF OwnInv, At
  <2>4. HolderInv => HolderInv'
    BY <2>1, <2>2 DEF HolderInv, Holds, At
  <2>5. FateInv => FateInv'
    BY <2>1, <2>2 DEF FateInv, Fate, At
  <2>6. \A c \in Clients : LeftInv(c) => LeftInv(c)'
    BY <2>1, LeftKept
  <2> QED
    BY <1>1, <1>2, <2>1, <2>3, <2>4, <2>5, <2>6 DEF Promises, Leaves
<1> QED
  BY <1>3, <1>4, <1>5, <1>6 DEF SysNext

\* They hold at the start.
LEMMA PromiseInit == SysInit => PromiseInv
<1> SUFFICES ASSUME SysInit PROVE PromiseInv
  OBVIOUS
<1>1. \A k \in Conns : conn[k].state = "free"
  BY DEF SysInit, Init, Free
<1>2. \A c \in Clients : job[c].pc = "idle" /\ job[c].upload = NoUpload
  BY DEF SysInit
<1>3. OwnInv
  BY <1>1, <1>2 DEF OwnInv, SysInit
<1>4. HolderInv /\ FateInv
  BY <1>1, <1>2 DEF HolderInv, FateInv, SysInit, Init
<1>5. unheard = {} /\ \A c \in Clients : LeftInv(c)
  BY <1>2 DEF LeftInv, At, SysInit, Init
<1> QED
  BY <1>3, <1>4, <1>5 DEF PromiseInv, Promises, Leaves

\* So they hold always.
LEMMA PromiseInvariance == SysSpec => [](SysInv /\ PromiseInv)
<1>1. SysInit => SysInv /\ PromiseInv
  BY SystemInit, PromiseInit
<1>2. SysInv /\ PromiseInv /\ [SysNext]_sysVars => (SysInv /\ PromiseInv)'
  BY SystemKeeps, PromisesKept
<1> QED
  BY <1>1, <1>2, PTL DEF SysSpec

\* A failure that a client reports is final, however many clients share the service,
\* give requests up, restart it or kill it: unless it did not wait for the answer to its
\* commit, or its print was left to the worker of a killed service, the job is not booked
\* as printed, nothing more of it prints, and no commit of it is left to serve.  (What was
\* sent before the failure, up to the whole job, may be on paper.)
THEOREM FailureEndsThePrint == SysSpec => []FailureIsFinal
<1>1. SysInv /\ PromiseInv => FailureIsFinal
  <2> SUFFICES ASSUME SysInv, PromiseInv, NEW c \in Clients \ unheard, At(c, "done"),
                      ~job[c].ok, job[c].upload \notin abandoned \cup {NoUpload}
               PROVE  /\ outcome[job[c].upload] /= "printed"
                      /\ ~Printing(job[c].upload)
                      /\ \A k \in Conns : conn[k].state = "waiting" =>
                            conn[k].req /= [cmd |-> "commitRasterUpload",
                                            upload |-> job[c].upload]
    BY DEF FailureIsFinal
  <2>1. HolderInv /\ FateInv /\ OwnInv
    BY DEF PromiseInv, Promises
  <2>2. NotPrinted(job[c].upload)
    BY <2>1 DEF FateInv, Fate
  <2>3. ASSUME NEW k \in Conns, conn[k].state = "waiting",
               conn[k].req = [cmd |-> "commitRasterUpload", upload |-> job[c].upload]
        PROVE  FALSE
    <3>1. conn[k].req.cmd = "commitRasterUpload" /\ conn[k].req.upload = job[c].upload
      BY <2>3
    <3>2. PICK d \in Clients : Holds(d, k, job[c].upload)
      BY <2>1, <2>3, <3>1 DEF HolderInv
    <3>3. d = c
      BY <2>1, <3>2 DEF OwnInv, Holds
    <3> QED
      BY <3>2, <3>3 DEF Holds, At
  <2> QED
    BY <2>2, <2>3 DEF NotPrinted
<1> QED
  BY <1>1, PromiseInvariance, PTL

\* As long as no exchange is given up, a client that is done, and alone with the service,
\* has left neither an entry of the table nor a raster file behind: its cancel or commit
\* was served, or the process took the table along when it ended.
THEOREM NothingIsLeftBehind == SysSpec => []NothingLeftBehind
<1>1. SysInv /\ PromiseInv => NothingLeftBehind
  <2> SUFFICES ASSUME SysInv, PromiseInv, NEW c \in Clients, timeouts = 0, Clients = {c},
                      At(c, "done")
               PROVE  job[c].upload \notin table /\ job[c].upload \notin final
    BY DEF NothingLeftBehind
  <2>1. HolderInv /\ LeftInv(c) /\ unheard = {}
    BY DEF PromiseInv, Promises, Leaves
  <2>2. job[c].upload \notin final
    <3>1. SUFFICES ASSUME job[c].upload \in final PROVE FALSE
      OBVIOUS
    <3>2. Printing(job[c].upload)
      BY <2>1, <3>1 DEF SysInv, IndInv, FinalsArePrintedOrAbandoned, LeftInv
    <3> QED
      BY <2>1, <3>2 DEF Printing, HolderInv, Holds, At
  <2> QED
    BY <2>1, <2>2 DEF LeftInv
<1> QED
  BY <1>1, PromiseInvariance, PTL

=============================================================================
