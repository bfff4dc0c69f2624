------------------------ MODULE PrinterServiceProofs ------------------------
(* Type correctness of PrinterServiceServer, for every value of its constants. *)
EXTENDS PrinterServiceServer, TLAPS

\* A waiting connection carries a request of one of the known kinds.
LEMMA RequestKinds ==
    ASSUME TypeOK, NEW k \in Conns, conn[k].state = "waiting"
    PROVE  /\ conn[k].req \in Request
           /\ conn[k].req.cmd \in {"cancelRasterUpload", "commitRasterUpload"}
                => conn[k].req.upload \in Uploads
           /\ conn[k].req.cmd = "appendRasterChunk"
                => conn[k].req.upload \in Uploads /\ conn[k].req.chunk \in ChunkNames
<1>1. conn[k] \in ConnState
  BY DEF TypeOK
<1>2. conn[k] \in {Waiting(r) : r \in Request}
  BY <1>1 DEF ConnState, Free, Serving, Answered
<1>3. PICK r \in Request : conn[k] = Waiting(r)
  BY <1>2
<1>4. conn[k].req = r
  BY <1>3 DEF Waiting
<1> QED
  BY <1>4 DEF Request, Plain, OnUpload, Append_

\* What pushing a frame on the call stack gives.
LEMMA StackPush ==
    ASSUME stack \in Seq(Frame), NEW f \in Frame
    PROVE  /\ <<f>> \o stack \in Seq(Frame)
           /\ <<f>> \o stack /= <<>>
           /\ Head(<<f>> \o stack) = f
           /\ Len(<<f>> \o stack) = Len(stack) + 1
           /\ \A i \in 2 .. Len(stack) + 1 : (<<f>> \o stack)[i] = stack[i - 1]
  OBVIOUS

\* What the top of a call stack is, and what lies below it.
LEMMA StackTop ==
    ASSUME stack \in Seq(Frame), stack /= <<>>
    PROVE  /\ Top \in Frame
           /\ Top = stack[1]
           /\ Tail(stack) \in Seq(Frame)
           /\ Len(Tail(stack)) = Len(stack) - 1
           /\ \A i \in 1 .. Len(stack) - 1 : Tail(stack)[i] = stack[i + 1]
  BY DEF Top

\* The upload of a committed job is an upload.
LEMMA SpooledTop ==
    ASSUME stack \in Seq(Frame), stack /= <<>>, Top.kind = "spooled"
    PROVE  Top.upload \in Uploads
  BY StackTop DEF Frame, FrameOf

\* What replacing the top frame gives.
LEMMA StackStep ==
    ASSUME stack \in Seq(Frame), stack /= <<>>, NEW f \in Frame
    PROVE  /\ <<f>> \o Tail(stack) \in Seq(Frame)
           /\ <<f>> \o Tail(stack) /= <<>>
           /\ Head(<<f>> \o Tail(stack)) = f
           /\ Len(<<f>> \o Tail(stack)) = Len(stack)
           /\ \A i \in 2 .. Len(stack) : (<<f>> \o Tail(stack))[i] = stack[i]
  BY StackTop

USE DEF loopVars, uploadVars, diskVars, jobVars, histVars

\* An answer keeps the connections typed.
LEMMA AnswerTyped ==
    ASSUME TypeOK, NEW k \in Conns, NEW ok \in BOOLEAN,
           NEW u \in Uploads \cup {NoUpload},
           conn' = [conn EXCEPT ![k] = Answered(ok, u)]
    PROVE  conn' \in [Conns -> ConnState]
<1>1. Answered(ok, u) \in ConnState
  BY DEF ConnState
<1>2. conn \in [Conns -> ConnState]
  BY DEF TypeOK
<1> QED
  BY <1>1, <1>2

\* Entries that leave the table leave a typed table.
LEMMA ForgetTyped ==
    ASSUME TypeOK, NEW S, Forget(S)
    PROVE  /\ table' \subseteq Uploads /\ stale' \subseteq table'
           /\ minted' \subseteq Uploads
           /\ received' \in [Uploads -> 0 .. Chunks]
  BY ServerAssumption DEF TypeOK, Forget

\* Files that are removed leave a typed disk.
LEMMA RemovePartialsTyped ==
    ASSUME TypeOK, NEW S, RemovePartials(S)
    PROVE  /\ partial' \subseteq Uploads /\ final' \subseteq Uploads
           /\ body' \in [Uploads -> Seq(ChunkNames)]
<1>1. <<>> \in Seq(ChunkNames)
  OBVIOUS
<1> QED
  BY <1>1 DEF TypeOK, RemovePartials

\* The started service is typed.
LEMMA InitTyped == Init => TypeOK
<1> SUFFICES ASSUME Init PROVE TypeOK
  OBVIOUS
<1>1. <<>> \in Seq(ChunkNames) /\ <<>> \in Seq(Frame)
  OBVIOUS
<1>2. conn \in [Conns -> ConnState]
  BY DEF Init, ConnState
<1>3. body \in [Uploads -> Seq(ChunkNames)] /\ stack \in Seq(Frame)
  BY <1>1 DEF Init
<1>4. worker \in Worker
  BY DEF Init, Worker, NoWorker
<1>5. received \in [Uploads -> 0 .. Chunks] /\ crashes \in 0 .. MaxCrashes
  BY ServerAssumption DEF Init
<1> QED
  BY <1>2, <1>3, <1>4, <1>5 DEF Init, TypeOK

\* Every handler keeps the type.
LEMMA ServeTyped ==
    ASSUME TypeOK, NEW k \in Conns, Serve(k)
    PROVE  TypeOK'
<1>1. CASE Ping(k)
  BY <1>1, AnswerTyped DEF Ping, TypeOK, Serves, Reply, MayLoadSdk
<1>2. CASE Refuse(k)
  BY <1>2, AnswerTyped DEF Refuse, TypeOK, Serves, Reply, MayLoadSdk
<1>3. CASE Controller(k)
  BY <1>3, AnswerTyped DEF Controller, TypeOK, Serves, Reply, MayLoadSdk
<1>4. CASE AbortPrint(k)
  <2>1. conn' \in [Conns -> ConnState] /\ sdk' \in BOOLEAN /\ cancelFile' \in BOOLEAN
    BY <1>4, AnswerTyped DEF AbortPrint, TypeOK, MayLoadSdk
  <2>2. aborted' \subseteq Uploads
    <3>1. CASE stack /= <<>> /\ Top.kind = "spooled"
      BY <1>4, <3>1, StackTop, SpooledTop DEF AbortPrint, TypeOK
    <3> QED
      BY <1>4, <3>1 DEF AbortPrint, TypeOK
  <2> QED
    BY <1>4, <2>1, <2>2 DEF AbortPrint, TypeOK
<1>5. CASE BeginRefused(k)
  BY <1>5, AnswerTyped DEF BeginRefused, TypeOK, Serves, Reply, MayLoadSdk
<1>6. CASE BeginRasterUpload(k)
  <2>1. PICK u \in Fresh :
          /\ minted' = minted \cup {u}
          /\ table' = table \cup {u}
          /\ received' = [received EXCEPT ![u] = 0]
          /\ partial' = partial \cup {u}
          /\ body' = [body EXCEPT ![u] = <<>>]
          /\ Reply(k, TRUE, u)
    BY <1>6 DEF BeginRasterUpload, Fresh
  <2>2. conn' \in [Conns -> ConnState] /\ sdk' \in BOOLEAN
    BY <2>1, AnswerTyped DEF Reply, MayLoadSdk, Fresh, TypeOK
  <2>3. <<>> \in Seq(ChunkNames) /\ 0 \in 0 .. Chunks
    BY ServerAssumption
  <2>4. /\ body' \in [Uploads -> Seq(ChunkNames)]
        /\ received' \in [Uploads -> 0 .. Chunks]
    BY <2>1, <2>3 DEF TypeOK
  <2> QED
    BY <1>6, <2>1, <2>2, <2>4 DEF BeginRasterUpload, Fresh, TypeOK
<1>7. CASE AppendRefused(k)
  BY <1>7, AnswerTyped DEF AppendRefused, TypeOK, Serves, Reply, MayLoadSdk
<1>8. CASE AppendRasterChunk(k)
  <2> DEFINE r == conn[k].req
  <2>1. /\ r.upload \in Uploads /\ r.chunk \in ChunkNames
        /\ received[r.upload] + 1 <= Chunks
    BY <1>8, RequestKinds DEF AppendRasterChunk, Serves, ChunkFits
  <2>2. received' \in [Uploads -> 0 .. Chunks]
    BY <1>8, <2>1, ServerAssumption DEF AppendRasterChunk, TypeOK
  <2>3. Append(body[r.upload], r.chunk) \in Seq(ChunkNames)
    BY <2>1 DEF TypeOK
  <2>4. body' \in [Uploads -> Seq(ChunkNames)]
    BY <1>8, <2>1, <2>3 DEF AppendRasterChunk, TypeOK
  <2>5. conn' \in [Conns -> ConnState] /\ sdk' \in BOOLEAN
    BY <1>8, AnswerTyped DEF AppendRasterChunk, Reply, MayLoadSdk, TypeOK
  <2> QED
    BY <1>8, <2>2, <2>4, <2>5 DEF AppendRasterChunk, TypeOK
<1>9. CASE AppendFails(k)
  <2>1. Forget({conn[k].req.upload}) /\ RemovePartials({conn[k].req.upload})
    BY <1>9 DEF AppendFails
  <2>2. conn' \in [Conns -> ConnState] /\ sdk' \in BOOLEAN
    BY <1>9, AnswerTyped DEF AppendFails, Reply, MayLoadSdk, TypeOK
  <2> QED
    BY <1>9, <2>1, <2>2, ForgetTyped, RemovePartialsTyped DEF AppendFails, TypeOK
<1>10. CASE CancelRasterUpload(k)
  <2>1. Forget({conn[k].req.upload} \cap table) /\ RemovePartials({conn[k].req.upload} \cap table)
    BY <1>10 DEF CancelRasterUpload
  <2>2. conn' \in [Conns -> ConnState] /\ sdk' \in BOOLEAN
    BY <1>10, AnswerTyped DEF CancelRasterUpload, Reply, MayLoadSdk, TypeOK
  <2> QED
    BY <1>10, <2>1, <2>2, ForgetTyped, RemovePartialsTyped DEF CancelRasterUpload, TypeOK
<1>11. CASE CommitUnknown(k)
  BY <1>11, AnswerTyped DEF CommitUnknown, TypeOK, Serves, Reply, MayLoadSdk
<1>12. CASE CommitRejected(k)
  <2>1. Forget({conn[k].req.upload}) /\ RemovePartials({conn[k].req.upload})
    BY <1>12 DEF CommitRejected
  <2>2. conn' \in [Conns -> ConnState] /\ sdk' \in BOOLEAN
    BY <1>12, AnswerTyped DEF CommitRejected, Reply, MayLoadSdk, TypeOK
  <2> QED
    BY <1>12, <2>1, <2>2, ForgetTyped, RemovePartialsTyped DEF CommitRejected, TypeOK
<1>13. CASE Commit(k)
  <2> DEFINE u == conn[k].req.upload
             f == OpenFrame("spooled", k, u)
  <2>1. u \in Uploads
    BY <1>13, RequestKinds DEF Commit, Serves
  <2>2. f \in Frame
    BY <2>1 DEF OpenFrame, Frame, FrameOf, FrameOf
  <2>3. stack' \in Seq(Frame)
    BY <1>13, <2>2, StackPush DEF Commit, Push, TypeOK
  <2>4. conn' \in [Conns -> ConnState]
    <3>1. Serving \in ConnState
      BY DEF ConnState
    <3> QED
      BY <1>13, <3>1 DEF Commit, TypeOK
  <2>5. Forget({u})
    BY <1>13 DEF Commit
  <2> QED
    BY <1>13, <2>1, <2>3, <2>4, <2>5, ForgetTyped
    DEF Commit, ForgetCancellation, TypeOK
<1>14. CASE SubmitJobUndecoded(k)
  BY <1>14, AnswerTyped DEF SubmitJobUndecoded, TypeOK, Serves, Reply, MayLoadSdk
<1>15. CASE SubmitJob(k)
  BY <1>15, AnswerTyped DEF SubmitJob, TypeOK, Serves, Reply, MayLoadSdk, Push, OpenFrame, Frame, FrameOf, ConnState, Serving, ForgetCancellation
<1>16. CASE Shutdown(k)
  BY <1>16, AnswerTyped DEF Shutdown, TypeOK, Serves, Reply, MayLoadSdk
<1> QED
  BY <1>1, <1>2, <1>3, <1>4, <1>5, <1>6, <1>7, <1>8, <1>9, <1>10, <1>11, <1>12, <1>13, <1>14, <1>15, <1>16 DEF Serve

\* A printing handler that returns keeps the type.
LEMMA ReturnTyped ==
    ASSUME TypeOK, stack /= <<>>, NEW ok \in BOOLEAN,
           NEW why \in {"printed", "canceled", "failed"}, Return(ok, why),
           worker' \in Worker, sdk' \in BOOLEAN
    PROVE  TypeOK'
<1>1. Top \in Frame /\ Tail(stack) \in Seq(Frame)
  BY StackTop DEF TypeOK
<1>2. conn' \in [Conns -> ConnState]
  <2>1. Answered(ok, NoUpload) \in ConnState
    BY DEF ConnState
  <2> QED
    BY <1>1, <2>1 DEF Return, TypeOK
<1>3. CASE Top.kind = "spooled"
  <2>1. Top.upload \in Uploads /\ <<>> \in Seq(ChunkNames)
    BY <1>3, SpooledTop DEF TypeOK
  <2>2. body' \in [Uploads -> Seq(ChunkNames)] /\ final' \subseteq Uploads
    BY <1>3, <2>1 DEF Return, RemoveFinal, TypeOK
  <2> QED
    BY <1>1, <1>2, <1>3, <2>1, <2>2 DEF Return, TypeOK
<1>4. CASE Top.kind /= "spooled"
  BY <1>1, <1>2, <1>4 DEF Return, TypeOK
<1> QED
  BY <1>3, <1>4

\* A printing handler that goes on keeps the type.
LEMMA StepTyped ==
    ASSUME TypeOK, stack /= <<>>,
           NEW pc \in {"launch", "wait", "setup", "check", "events", "send", "finish"},
           Step(pc)
    PROVE  stack' \in Seq(Frame)
<1>1. [Top EXCEPT !.pc = pc] \in Frame
  BY StackTop DEF Frame, FrameOf, TypeOK
<1> QED
  BY <1>1, StackStep DEF Step, TypeOK

\* Every step of a printing handler keeps the type.
LEMMA JobStepTyped ==
    ASSUME TypeOK, JobStep
    PROVE  TypeOK'
<1>0. stack /= <<>>
  BY DEF JobStep, Launch, LaunchFails, WorkerDone, SetUpJob, CheckLine, CancelJob,
         LeaveEvents, SendLine, FinishJob, JobFails, InJob
<1>1. CASE Launch
  <2>1. worker' \in Worker
    BY <1>1 DEF Launch, Worker
  <2> QED
    BY <1>0, <1>1, <2>1, StepTyped DEF Launch, TypeOK
<1>2. CASE LaunchFails
  BY <1>0, <1>2, ReturnTyped DEF LaunchFails, TypeOK
<1>3. CASE WorkerDone
  <2>1. worker' \in Worker /\ worker.ok \in BOOLEAN /\ sdk' \in BOOLEAN
    BY <1>3 DEF WorkerDone, Worker, NoWorker, MayLoadSdk, TypeOK
  <2> QED
    BY <1>0, <1>3, <2>1, ReturnTyped DEF WorkerDone, WhyNot
<1>4. CASE SetUpJob
  BY <1>0, <1>4, StepTyped DEF SetUpJob, TypeOK
<1>5. CASE CheckLine
  BY <1>0, <1>5, StepTyped DEF CheckLine, Resume, TypeOK
<1>6. CASE CancelJob
  BY <1>0, <1>6, ReturnTyped DEF CancelJob, MayLoadSdk, TypeOK
<1>7. CASE LeaveEvents
  BY <1>0, <1>7, StepTyped DEF LeaveEvents, Resume, TypeOK
<1>8. CASE SendLine
  <2>1. [Top EXCEPT !.pc = "check", !.line = @ + 1] \in Frame
    <3>1. Top \in Frame /\ Top.line + 1 \in Nat
      BY <1>0, StackTop DEF Frame, FrameOf, TypeOK
    <3> QED
      BY <3>1 DEF Frame, FrameOf
  <2>2. stack' \in Seq(Frame)
    BY <1>0, <1>8, <2>1, StackStep DEF SendLine, TypeOK
  <2> QED
    BY <1>8, <2>2 DEF SendLine, TypeOK
<1>9. CASE FinishJob
  BY <1>0, <1>9, ReturnTyped DEF FinishJob, MayLoadSdk, TypeOK
<1>10. CASE JobFails
  BY <1>0, <1>10, ReturnTyped DEF JobFails, TypeOK
<1> QED
  BY <1>1, <1>2, <1>3, <1>4, <1>5, <1>6, <1>7, <1>8, <1>9, <1>10 DEF JobStep

\* Every step of the worker keeps the type.
LEMMA WorkerStepTyped ==
    ASSUME TypeOK, WorkerStep
    PROVE  TypeOK'
<1>1. CASE WorkerSetup
  BY <1>1 DEF WorkerSetup, WorkerTo, Worker, TypeOK
<1>2. CASE WorkerCheck
  <2>1. \E w \in {[worker EXCEPT !.pc = p] : p \in {"finish", "exited", "send"}} : WorkerTo(w)
    BY <1>2 DEF WorkerCheck
  <2>2. worker' \in Worker
    <3>1. PICK p \in {"finish", "exited", "send"} : worker' = [worker EXCEPT !.pc = p]
      BY <2>1 DEF WorkerTo
    <3>2. worker \in Worker
      BY DEF TypeOK
    <3> QED
      BY <3>1, <3>2 DEF Worker
  <2> QED
    BY <1>2, <2>1, <2>2 DEF WorkerCheck, WorkerTo, TypeOK
<1>3. CASE WorkerSend
  <2>1. worker.line + 1 \in Nat /\ late + 1 \in Nat
    BY DEF Worker, TypeOK
  <2>2. worker' \in Worker
    BY <1>3, <2>1 DEF WorkerSend, WorkerTo, Worker, TypeOK
  <2> QED
    BY <1>3, <2>1, <2>2 DEF WorkerSend, WorkerTo, TypeOK
<1>4. CASE WorkerFinish
  BY <1>4 DEF WorkerFinish, WorkerTo, Worker, TypeOK
<1>5. CASE WorkerFails
  BY <1>5 DEF WorkerFails, WorkerTo, Worker, TypeOK
<1> QED
  BY <1>1, <1>2, <1>3, <1>4, <1>5 DEF WorkerStep

\* Broken connections are connections.
LEMMA BrokenConnsTyped == TypeOK => BrokenConns \in [Conns -> ConnState]
<1>1. \A ok \in BOOLEAN : Answered(ok, NoUpload) \in ConnState
  BY DEF ConnState
<1> QED
  BY <1>1 DEF BrokenConns, TypeOK

\* Every step keeps the type.
LEMMA NextTyped ==
    ASSUME TypeOK, [Next]_vars
    PROVE  TypeOK'
<1>1. ASSUME NEW k \in Conns, NEW r \in Request, Send(k, r) PROVE TypeOK'
  <2>1. Waiting(r) \in ConnState
    BY DEF ConnState
  <2> QED
    BY <1>1, <2>1 DEF Send, TypeOK
<1>2. ASSUME NEW k \in Conns, Receive(k) PROVE TypeOK'
  <2>1. Free \in ConnState
    BY DEF ConnState
  <2> QED
    BY <1>2, <2>1 DEF Receive, TypeOK
<1>3. ASSUME NEW k \in Conns, Serve(k) PROVE TypeOK'
  BY <1>3, ServeTyped
<1>4. CASE JobStep
  BY <1>4, JobStepTyped
<1>5. CASE WorkerStep
  BY <1>5, WorkerStepTyped
<1>6. ASSUME NEW u \in Uploads, Age(u) PROVE TypeOK'
  BY <1>6 DEF Age, TypeOK
<1>7. CASE RemoveExpiredUploads
  BY <1>7, ForgetTyped, RemovePartialsTyped DEF RemoveExpiredUploads, TypeOK
<1>8. CASE Terminate
  BY <1>8 DEF Terminate, TypeOK
<1>9. CASE Exit
  BY <1>9, ForgetTyped, RemovePartialsTyped, BrokenConnsTyped DEF Exit, TypeOK
<1>10. CASE Crash
  <2>1. <<>> \in Seq(Frame) /\ NoWorker \in Worker
    BY DEF NoWorker, Worker
  <2>2. crashes' \in 0 .. MaxCrashes /\ orphan' \in BOOLEAN
    BY <1>10, ServerAssumption DEF Crash, TypeOK, WorkerRuns
  <2> QED
    BY <1>10, <2>1, <2>2, ForgetTyped, BrokenConnsTyped DEF Crash, TypeOK
<1>11. CASE Restart
  BY <1>11, RemovePartialsTyped DEF Restart, TypeOK
<1>12. CASE OrphanExits
  BY <1>12 DEF OrphanExits, TypeOK
<1>13. CASE UNCHANGED vars
  BY <1>13 DEF vars, TypeOK
<1> QED
  BY <1>1, <1>2, <1>3, <1>4, <1>5, <1>6, <1>7, <1>8, <1>9, <1>10, <1>11, <1>12,
     <1>13 DEF Next

\* In every reachable state each variable has a value of its type.
THEOREM TypeCorrect == Spec => []TypeOK
  BY InitTyped, NextTyped, PTL DEF Spec

=============================================================================
