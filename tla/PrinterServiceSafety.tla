------------------------ MODULE PrinterServiceSafety ------------------------
(* IndInv is inductive, and what follows from it.                          *)
EXTENDS PrinterServiceProofs

USE DEF loopVars, uploadVars, diskVars, jobVars, histVars

\* The started service satisfies the inductive invariant.
LEMMA InitInd == Init => IndInv
<1> SUFFICES ASSUME Init PROVE IndInv
  OBVIOUS
<1>1. TypeOK
  BY InitTyped
<1>2. stack = <<>> /\ worker.pc = "none" /\ DOMAIN stack = {}
  BY DEF Init, NoWorker
<1>3. \A u \in Uploads : ~Printing(u)
  BY <1>2 DEF Printing
<1> QED
  BY <1>1, <1>2, <1>3
  DEF Init, IndInv, ProcessInv, BuildInv, GateGuardsThePrint, UploadFilesMatchTable,
      PrintsOnlyComplete, FinalsArePrintedOrAbandoned, SdkExclusive, WorkerRuns,
      CancelInv, PrintsNow, CancelHitsItsOwnJob, LateInv

\* Under the gate invariant only the innermost handler can be a committed job.
LEMMA PrintingIsInnermost ==
    ASSUME TypeOK, GateGuardsThePrint, NEW u \in Uploads
    PROVE  Printing(u) <=> PrintsNow /\ Top.upload = u
<1>1. stack \in Seq(Frame)
  BY DEF TypeOK
<1>2. ASSUME Printing(u) PROVE PrintsNow /\ Top.upload = u
  BY <1>1, <1>2, StackTop DEF Printing, GateGuardsThePrint, PrintsNow
<1>3. ASSUME PrintsNow, Top.upload = u PROVE Printing(u)
  BY <1>1, <1>3, StackTop DEF Printing, PrintsNow
<1> QED
  BY <1>2, <1>3

\* A request the gate lets in runs below no committed job and beside no worker.
LEMMA AdmittedAtRest ==
    ASSUME IndInv, NEW k \in Conns, NEW cmd, Serves(k, cmd), Admits(cmd),
           cmd \notin {"ping", "abortPrint"}
    PROVE  /\ ~printInProgress /\ ~PrintsNow /\ worker.pc = "none" /\ ~WorkerRuns
           /\ ~cancelFile
           /\ \A i \in DOMAIN stack : stack[i].kind /= "spooled"
           /\ \A u \in Uploads : ~Printing(u)
<1>1. ~printInProgress /\ ~PrintsNow
  BY DEF Admits, IndInv, GateGuardsThePrint, PrintsNow
<1>2. \A i \in DOMAIN stack : stack[i].kind /= "spooled"
  BY <1>1, StackTop DEF IndInv, TypeOK, GateGuardsThePrint, PrintsNow
<1>3. worker.pc = "none"
  BY <1>1 DEF Serves, EventPoint, IndInv, BuildInv, PrintsNow
<1> QED
  BY <1>1, <1>2, <1>3 DEF WorkerRuns, Printing, IndInv, CancelInv

\* Steps that touch neither the files nor the stack.
LEMMA QuietStep ==
    ASSUME IndInv, TypeOK',
           UNCHANGED <<up, table, received, minted, diskVars, stack, printInProgress,
                       cancelRequested, cancelFile, worker, histVars>>,
           quitting' = quitting \/ up,
           WorkerRuns => ~sdk'
    PROVE  IndInv'
<1>2. ProcessInv' /\ PrintsOnlyComplete' /\ FinalsArePrintedOrAbandoned'
  BY DEF IndInv, ProcessInv, PrintsOnlyComplete, FinalsArePrintedOrAbandoned, Complete,
         Printing
<1>3. BuildInv' /\ GateGuardsThePrint' /\ SdkExclusive'
  BY DEF IndInv, BuildInv, GateGuardsThePrint, Top, SdkExclusive, WorkerRuns
<1>4. UploadFilesMatchTable'
  BY DEF IndInv, UploadFilesMatchTable
<1>5. CancelInv' /\ CancelHitsItsOwnJob' /\ LateInv'
  BY DEF IndInv, CancelInv, PrintsNow, Top, CancelHitsItsOwnJob, LateInv
<1> QED
  BY <1>2, <1>3, <1>4, <1>5 DEF IndInv

\* Entries leave the table together with their files.
LEMMA DropStep ==
    ASSUME IndInv, TypeOK', up, NEW S, S \subseteq table,
           Forget(S), RemovePartials(S),
           UNCHANGED <<loopVars, jobVars, histVars>>,
           WorkerRuns => ~sdk'
    PROVE  IndInv'
<1>2. UploadFilesMatchTable'
  BY DEF IndInv, UploadFilesMatchTable, Forget, RemovePartials, TypeOK
<1>3. PrintsOnlyComplete'
  BY DEF IndInv, PrintsOnlyComplete, Forget, RemovePartials, Complete, Printing
<1>4. ProcessInv' /\ FinalsArePrintedOrAbandoned'
  BY DEF IndInv, ProcessInv, FinalsArePrintedOrAbandoned, Forget, RemovePartials,
         Printing
<1>5. BuildInv' /\ GateGuardsThePrint' /\ SdkExclusive'
  BY DEF IndInv, BuildInv, GateGuardsThePrint, Top, SdkExclusive, WorkerRuns
<1>6. CancelInv' /\ CancelHitsItsOwnJob' /\ LateInv'
  BY DEF IndInv, CancelInv, PrintsNow, Top, CancelHitsItsOwnJob, LateInv
<1> QED
  BY <1>2, <1>3, <1>4, <1>5, <1>6 DEF IndInv

\* Three handlers change more than that and print nothing.
LEMMA AbortStep ==
    ASSUME IndInv, TypeOK', NEW k \in Conns, AbortPrint(k)
    PROVE  IndInv'
<1>1. /\ WorkerRuns => ~sdk'
      /\ cancelFile => cancelFile'
      /\ cancelFile' => cancelFile \/ (PrintsNow /\ ~InProcess)
  <2>1. WorkerRuns => IsolatedCancelPath /\ printInProgress /\ ~sdk
    BY DEF AbortPrint, Serves, EventPoint, IsolatedCancelPath, PrintsNow,
           IndInv, GateGuardsThePrint, BuildInv, SdkExclusive, WorkerRuns
  <2>2. CASE IsolatedCancelPath
    BY <2>1, <2>2 DEF AbortPrint, IsolatedCancelPath, MayLoadSdk, PrintsNow, IndInv, TypeOK
  <2>3. CASE ~IsolatedCancelPath
    BY <2>1, <2>3 DEF AbortPrint, IndInv, TypeOK
  <2> QED
    BY <2>2, <2>3
<1>2. ProcessInv' /\ PrintsOnlyComplete' /\ FinalsArePrintedOrAbandoned'
      /\ UploadFilesMatchTable'
  BY DEF AbortPrint, IndInv, ProcessInv, PrintsOnlyComplete, UploadFilesMatchTable,
         FinalsArePrintedOrAbandoned, Complete, Printing
<1>3. BuildInv' /\ GateGuardsThePrint' /\ SdkExclusive'
  BY <1>1 DEF AbortPrint, IndInv, BuildInv, GateGuardsThePrint, Top, SdkExclusive,
         WorkerRuns
<1>4. CancelInv' /\ CancelHitsItsOwnJob'
  BY <1>1 DEF AbortPrint, IndInv, CancelInv, PrintsNow, Top, CancelHitsItsOwnJob
<1>5. LateInv'
  BY <1>1 DEF AbortPrint, IndInv, LateInv, PrintsNow, Top
<1> QED
  BY <1>2, <1>3, <1>4, <1>5 DEF IndInv

\* A new upload preserves the inductive invariant.
LEMMA BeginStep ==
    ASSUME IndInv, TypeOK', NEW k \in Conns, BeginRasterUpload(k)
    PROVE  IndInv'
<1>1. PICK u \in Fresh :
          /\ minted' = minted \cup {u}
          /\ table' = table \cup {u}
          /\ received' = [received EXCEPT ![u] = 0]
          /\ partial' = partial \cup {u}
          /\ body' = [body EXCEPT ![u] = <<>>]
          /\ Reply(k, TRUE, u)
  BY DEF BeginRasterUpload
<1>2. ~WorkerRuns /\ \A v \in Uploads : ~Printing(v)
  BY AdmittedAtRest DEF BeginRasterUpload
<1>3. UploadFilesMatchTable'
  BY <1>1 DEF BeginRasterUpload, Fresh, Serves, IndInv, UploadFilesMatchTable, TypeOK
<1>4. ProcessInv' /\ PrintsOnlyComplete' /\ FinalsArePrintedOrAbandoned'
  BY <1>1, <1>2 DEF BeginRasterUpload, Fresh, Serves, IndInv, ProcessInv, PrintsOnlyComplete,
         FinalsArePrintedOrAbandoned, Printing
<1>5. BuildInv' /\ GateGuardsThePrint' /\ SdkExclusive'
  BY <1>2 DEF BeginRasterUpload, IndInv, BuildInv, GateGuardsThePrint, Top,
         SdkExclusive, WorkerRuns
<1>6. CancelInv' /\ CancelHitsItsOwnJob' /\ LateInv'
  BY DEF BeginRasterUpload, IndInv, CancelInv, PrintsNow, Top, CancelHitsItsOwnJob,
         LateInv
<1> QED
  BY <1>3, <1>4, <1>5, <1>6 DEF IndInv

\* A chunk, written or not, preserves the inductive invariant.
LEMMA AppendStep ==
    ASSUME IndInv, TypeOK', NEW k \in Conns, AppendRasterChunk(k)
    PROVE  IndInv'
<1>1. conn[k].req.upload \in table /\ conn[k].req.upload \in Uploads
      /\ conn[k].req.chunk \in ChunkNames
  BY RequestKinds DEF AppendRasterChunk, ChunkFits, Serves, IndInv
<1>2. ~WorkerRuns /\ \A v \in Uploads : ~Printing(v)
  BY AdmittedAtRest DEF AppendRasterChunk
<1>3. Len(Append(body[conn[k].req.upload], conn[k].req.chunk))
         = Len(body[conn[k].req.upload]) + 1
  BY <1>1 DEF IndInv, TypeOK
<1>4. UploadFilesMatchTable'
  BY <1>1, <1>3 DEF AppendRasterChunk, Serves, IndInv, UploadFilesMatchTable, TypeOK
<1>5. ProcessInv' /\ PrintsOnlyComplete' /\ FinalsArePrintedOrAbandoned'
  BY <1>2 DEF AppendRasterChunk, Serves, IndInv, ProcessInv, PrintsOnlyComplete,
         FinalsArePrintedOrAbandoned, Printing
<1>6. BuildInv' /\ GateGuardsThePrint' /\ SdkExclusive'
  BY <1>2 DEF AppendRasterChunk, IndInv, BuildInv, GateGuardsThePrint, Top,
         SdkExclusive, WorkerRuns
<1>7. CancelInv' /\ CancelHitsItsOwnJob' /\ LateInv'
  BY DEF AppendRasterChunk, IndInv, CancelInv, PrintsNow, Top, CancelHitsItsOwnJob,
         LateInv
<1> QED
  BY <1>4, <1>5, <1>6, <1>7 DEF IndInv

\* A committed job is pushed on handlers none of which is one.
LEMMA CommitStep ==
    ASSUME IndInv, TypeOK', NEW k \in Conns, Commit(k)
    PROVE  IndInv'
<1> DEFINE u == conn[k].req.upload
           f == OpenFrame("spooled", k, u)
<1>1. /\ u \in Uploads /\ u \in table /\ Verified(u)
      /\ stack' = <<f>> \o stack /\ Forget({u}) /\ up
  BY RequestKinds DEF Commit, Serves, Push, IndInv
<1>2. /\ worker.pc = "none" /\ ~cancelFile
      /\ \A i \in DOMAIN stack : stack[i].kind /= "spooled"
  BY AdmittedAtRest DEF Commit
<1>3. f \in Frame /\ f.kind = "spooled" /\ f.upload = u
      /\ f.pc = (IF InProcess THEN "setup" ELSE "launch")
  BY <1>1 DEF OpenFrame, Frame, FrameOf
<1>4. stack \in Seq(Frame) /\ stack' \in Seq(Frame)
  BY DEF IndInv, TypeOK
<1>5. /\ stack' /= <<>> /\ Top' = f /\ stack'[1] = f
      /\ \A i \in DOMAIN stack' : i /= 1 => i - 1 \in DOMAIN stack /\ stack'[i] = stack[i - 1]
  BY <1>1, <1>3, <1>4, StackPush DEF Top
<1>6. \A i \in DOMAIN stack' : stack'[i].kind = "spooled" => i = 1
  BY <1>2, <1>5
<1>7. GateGuardsThePrint' /\ PrintsNow'
  BY <1>3, <1>5, <1>6 DEF Commit, GateGuardsThePrint, PrintsNow
<1>8. \A v \in Uploads : Printing(v)' <=> v = u
  BY <1>3, <1>4, <1>5, <1>6 DEF Printing
<1>9. BuildInv'
  BY <1>2, <1>3, <1>5 DEF Commit, IndInv, BuildInv
<1>10. UploadFilesMatchTable'
  BY <1>1 DEF Commit, IndInv, TypeOK, UploadFilesMatchTable, Forget
<1>11. PrintsOnlyComplete'
  BY <1>1, <1>8 DEF Commit, PrintsOnlyComplete, Verified, Forget, Complete
<1>12. ProcessInv' /\ FinalsArePrintedOrAbandoned'
  <2>1. \A v \in Uploads : ~Printing(v)
    BY <1>2 DEF Printing
  <2>2. ProcessInv'
    BY <1>1, <1>8 DEF Commit, IndInv, ProcessInv, Forget
  <2>3. final \subseteq abandoned /\ final' = final \cup {u} /\ abandoned' = abandoned
    BY <1>1, <2>1 DEF Commit, IndInv, TypeOK, FinalsArePrintedOrAbandoned
  <2>4. FinalsArePrintedOrAbandoned'
    BY <1>1, <1>8, <2>3 DEF FinalsArePrintedOrAbandoned
  <2> QED
    BY <2>2, <2>4
<1>13. SdkExclusive' /\ CancelInv' /\ CancelHitsItsOwnJob' /\ LateInv'
  BY <1>2, <1>7 DEF Commit, ForgetCancellation, IndInv, SdkExclusive, WorkerRuns,
         CancelInv, CancelHitsItsOwnJob, LateInv
<1> QED
  BY <1>7, <1>9, <1>10, <1>11, <1>12, <1>13 DEF IndInv

\* A one-frame job preserves the inductive invariant.
LEMMA SubmitStep ==
    ASSUME IndInv, TypeOK', NEW k \in Conns, SubmitJob(k)
    PROVE  IndInv'
<1> DEFINE f == OpenFrame("legacy", k, NoUpload)
<1>1. stack' = <<f>> \o stack /\ up
  BY DEF SubmitJob, Serves, Push
<1>2. /\ worker.pc = "none" /\ ~cancelFile /\ ~printInProgress
      /\ \A i \in DOMAIN stack : stack[i].kind /= "spooled"
      /\ \A v \in Uploads : ~Printing(v)
  BY AdmittedAtRest DEF SubmitJob
<1>3. f \in Frame /\ f.kind = "legacy" /\ f.pc = (IF InProcess THEN "setup" ELSE "launch")
  BY DEF OpenFrame, Frame, FrameOf
<1>4. stack \in Seq(Frame) /\ stack' \in Seq(Frame)
  BY DEF IndInv, TypeOK
<1>5. /\ stack' /= <<>> /\ Top' = f /\ stack'[1] = f
      /\ \A i \in DOMAIN stack' : i /= 1 => i - 1 \in DOMAIN stack /\ stack'[i] = stack[i - 1]
  BY <1>1, <1>3, <1>4, StackPush DEF Top
<1>6. \A i \in DOMAIN stack' : stack'[i].kind /= "spooled"
  BY <1>2, <1>3, <1>5
<1>7. GateGuardsThePrint' /\ ~PrintsNow'
  BY <1>2, <1>3, <1>5, <1>6 DEF SubmitJob, GateGuardsThePrint, PrintsNow
<1>8. \A v \in Uploads : ~Printing(v)'
  BY <1>6 DEF Printing
<1>9. BuildInv'
  BY <1>2, <1>3, <1>5 DEF SubmitJob, IndInv, BuildInv
<1>10. UploadFilesMatchTable'
  BY DEF SubmitJob, IndInv, UploadFilesMatchTable
<1>11. ProcessInv' /\ PrintsOnlyComplete' /\ FinalsArePrintedOrAbandoned'
  BY <1>1, <1>2, <1>8 DEF SubmitJob, IndInv, ProcessInv, PrintsOnlyComplete,
         FinalsArePrintedOrAbandoned, Printing
<1>12. SdkExclusive' /\ CancelInv' /\ CancelHitsItsOwnJob' /\ LateInv'
  BY <1>2, <1>7 DEF SubmitJob, IndInv, SdkExclusive, WorkerRuns,
         CancelInv, CancelHitsItsOwnJob, LateInv
<1> QED
  BY <1>7, <1>9, <1>10, <1>11, <1>12 DEF IndInv

\* The innermost handler returns: whatever is below it, it is not a committed job.
LEMMA ReturnStep ==
    ASSUME IndInv, TypeOK', up, stack /= <<>>, worker'.pc = "none",
           NEW ok, NEW why, Return(ok, why),
           PrintsNow /\ why = "canceled" => cancelRequested
    PROVE  IndInv'
<1>1. stack \in Seq(Frame) /\ stack' = Tail(stack) /\ stack' \in Seq(Frame)
  BY DEF Return, IndInv, TypeOK
<1>2. \A i \in DOMAIN stack' : i + 1 \in DOMAIN stack /\ i + 1 /= 1 /\ stack'[i] = stack[i + 1]
  BY <1>1, StackTop
<1>3. \A i \in DOMAIN stack' : stack'[i].kind /= "spooled"
  BY <1>2 DEF IndInv, GateGuardsThePrint
<1>4. stack' /= <<>> => Top' = stack'[1] /\ 1 \in DOMAIN stack'
  BY <1>1 DEF Top
<1>5. ~PrintsNow' /\ \A v \in Uploads : ~Printing(v)'
  BY <1>3, <1>4 DEF PrintsNow, Printing
<1>6. ~printInProgress' /\ ~cancelFile'
  BY DEF Return, IndInv, GateGuardsThePrint, CancelInv, PrintsNow
<1>7. GateGuardsThePrint'
  BY <1>3, <1>5, <1>6 DEF GateGuardsThePrint, PrintsNow
<1>8. BuildInv'
  BY <1>2 DEF IndInv, BuildInv
<1>9. Top.kind = "spooled" => Top.upload \in Uploads /\ PrintsNow /\ Printing(Top.upload)
  BY <1>1, SpooledTop, PrintingIsInnermost DEF IndInv, PrintsNow
<1>10. UploadFilesMatchTable'
  <2>1. CASE Top.kind = "spooled"
    BY <1>9, <2>1 DEF Return, RemoveFinal, IndInv, TypeOK, UploadFilesMatchTable,
           PrintsOnlyComplete
  <2>2. CASE Top.kind /= "spooled"
    BY <2>2 DEF Return, IndInv, UploadFilesMatchTable
  <2> QED
    BY <2>1, <2>2
<1>11. FinalsArePrintedOrAbandoned'
  <2>1. \A v \in final : v \in abandoned \/ (PrintsNow /\ Top.upload = v)
    BY PrintingIsInnermost DEF IndInv, FinalsArePrintedOrAbandoned, TypeOK
  <2> QED
    BY <2>1 DEF Return, RemoveFinal, FinalsArePrintedOrAbandoned, PrintsNow
<1>12. ProcessInv' /\ PrintsOnlyComplete'
  BY <1>5 DEF Return, IndInv, ProcessInv, PrintsOnlyComplete
<1>13. CancelHitsItsOwnJob'
  BY <1>9 DEF Return, IndInv, TypeOK, CancelHitsItsOwnJob, CancelInv, PrintsNow
<1>14. SdkExclusive' /\ CancelInv' /\ LateInv'
  BY <1>5, <1>6 DEF Return, IndInv, SdkExclusive, WorkerRuns, CancelInv, LateInv
<1> QED
  BY <1>7, <1>8, <1>10, <1>11, <1>12, <1>13, <1>14 DEF IndInv

\* The innermost handler goes on.
LEMMA FrameStep ==
    ASSUME IndInv, TypeOK', stack /= <<>>, NEW f \in Frame,
           f.kind = Top.kind, f.upload = Top.upload,
           f.pc \in (IF InProcess THEN {"setup", "check", "events", "send", "finish"}
                                  ELSE {"launch", "wait"}),
           worker'.pc /= "none" => ~InProcess /\ f.pc = "wait",
           WorkerRuns' => ~sdk',
           stack' = <<f>> \o Tail(stack),
           UNCHANGED <<loopVars, uploadVars, diskVars, printInProgress, cancelRequested,
                       cancelFile, outcome, aborted, abandoned>>,
           LateInv'
    PROVE  IndInv'
<1>1. stack \in Seq(Frame) /\ stack' \in Seq(Frame)
  BY DEF IndInv, TypeOK
<1>2. /\ stack' /= <<>> /\ Top' = f /\ stack'[1] = f
      /\ DOMAIN stack' = DOMAIN stack
      /\ \A i \in DOMAIN stack : i /= 1 => stack'[i] = stack[i]
  BY <1>1, StackStep DEF Top
<1>3. Top = stack[1]
  BY <1>1, StackTop
<1>4. \A i \in DOMAIN stack : stack'[i].kind = stack[i].kind
                              /\ stack'[i].upload = stack[i].upload
  BY <1>2, <1>3
<1>5. \A v \in Uploads : Printing(v)' <=> Printing(v)
  BY <1>2, <1>4 DEF Printing
<1>6. PrintsNow' <=> PrintsNow
  BY <1>2 DEF PrintsNow
<1>7. GateGuardsThePrint'
  BY <1>2, <1>4, <1>6 DEF IndInv, GateGuardsThePrint, PrintsNow
<1>8. BuildInv'
  BY <1>2 DEF IndInv, BuildInv
<1>9. ProcessInv'
  <2>1. up \/ stack = <<>>
    BY DEF IndInv, ProcessInv
  <2> QED
    BY <1>5, <2>1 DEF IndInv, ProcessInv, Printing
<1>10. UploadFilesMatchTable' /\ PrintsOnlyComplete' /\ FinalsArePrintedOrAbandoned'
  <2>1. UploadFilesMatchTable'
    BY DEF IndInv, UploadFilesMatchTable
  <2>2. PrintsOnlyComplete'
    BY <1>2, <1>4 DEF IndInv, PrintsOnlyComplete, Printing, Complete
  <2>3. FinalsArePrintedOrAbandoned'
    <3>1. final \subseteq Uploads /\ final' = final /\ abandoned' = abandoned
      BY DEF IndInv, TypeOK, diskVars
    <3> QED
      BY <1>5, <3>1 DEF IndInv, FinalsArePrintedOrAbandoned
  <2> QED
    BY <2>1, <2>2, <2>3
<1>11. SdkExclusive' /\ CancelInv' /\ CancelHitsItsOwnJob'
  BY <1>2, <1>6 DEF IndInv, SdkExclusive, CancelInv, CancelHitsItsOwnJob
<1> QED
  BY <1>7, <1>8, <1>9, <1>10, <1>11 DEF IndInv

\* Every step of a printing handler preserves the inductive invariant.
LEMMA JobInd ==
    ASSUME IndInv, TypeOK', JobStep
    PROVE  IndInv'
<1>0. stack /= <<>> /\ up
  BY DEF JobStep, Launch, LaunchFails, WorkerDone, SetUpJob, CheckLine, CancelJob,
         LeaveEvents, SendLine, FinishJob, JobFails, InJob
<1>1. /\ Top \in Frame /\ Top.line + 1 \in Nat
      /\ Top.pc \in (IF InProcess THEN {"setup", "check", "events", "send", "finish"}
                                  ELSE {"launch", "wait"})
      /\ Top.pc /= "wait" => worker.pc = "none" /\ ~WorkerRuns
  <2>1. Top \in Frame /\ Top = stack[1] /\ 1 \in DOMAIN stack
    BY <1>0, StackTop DEF IndInv, TypeOK
  <2>2. Top.line + 1 \in Nat
    BY <2>1 DEF Frame, FrameOf
  <2>3. Top.pc /= "wait" => worker.pc = "none" /\ ~WorkerRuns
    BY DEF IndInv, BuildInv, WorkerRuns
  <2> QED
    BY <2>1, <2>2, <2>3 DEF IndInv, BuildInv
<1> DEFINE to(pc) == [Top EXCEPT !.pc = pc]
<1>2. \A pc \in {"wait", "check", "finish", "events", "send"} :
         to(pc) \in Frame /\ to(pc).kind = Top.kind /\ to(pc).upload = Top.upload
         /\ to(pc).pc = pc
  BY <1>1 DEF Frame, FrameOf
<1>3. CASE Launch
  <2>1. LateInv'
    BY <1>0, <1>1, <1>3, StackStep, <1>2 DEF Launch, Step, InJob, IndInv, LateInv, PrintsNow, Top,
           TypeOK
  <2> QED
    BY <1>0, <1>1, <1>2, <1>3, <2>1, FrameStep DEF Launch, Step, InJob
<1>4. CASE LaunchFails
  BY <1>0, <1>1, <1>4, ReturnStep DEF LaunchFails, InJob
<1>5. CASE WorkerDone
  BY <1>0, <1>5, ReturnStep DEF WorkerDone, InJob, WhyNot, NoWorker, PrintsNow
<1>6. CASE SetUpJob
  <2>1. LateInv'
    BY <1>0, <1>1, <1>2, <1>6, StackStep
    DEF SetUpJob, Step, InJob, IndInv, LateInv, PrintsNow, Top, TypeOK
  <2> QED
    BY <1>0, <1>1, <1>2, <1>6, <2>1, FrameStep DEF SetUpJob, Step, InJob, WorkerRuns
<1>7. CASE CheckLine
  <2> DEFINE pc == IF Top.line >= PlaneLines THEN "finish"
                   ELSE IF Top.line % EventStride = 0 THEN "events" ELSE "send"
  <2>1. pc \in {"finish", "events", "send"} /\ Step(pc)
    BY <1>7 DEF CheckLine, Resume
  <2>2. Top' = to(pc) /\ to(pc).kind = Top.kind /\ to(pc).pc = pc /\ stack' /= <<>>
    BY <1>0, <1>2, <2>1, StackStep DEF Step, Top, IndInv, TypeOK
  <2>3. PrintsNow' = PrintsNow /\ late' = late /\ worker' = worker
        /\ cancelRequested' = cancelRequested
    BY <1>0, <1>7, <2>2 DEF CheckLine, Resume, PrintsNow
  <2>4. PrintsNow /\ late = 1 => InProcess /\ cancelRequested /\ worker.pc = "none"
    BY <1>1, <1>7 DEF CheckLine, InJob, IndInv, LateInv
  <2>5. PrintsNow /\ late = 1 => pc = "finish"
    BY <1>1, <1>7, <2>4, ServerAssumption
    DEF CheckLine, CancelSeen, InJob, Frame, FrameOf
  <2>6. LateInv'
    BY <2>2, <2>3, <2>4, <2>5 DEF IndInv, LateInv
  <2> QED
    BY <1>0, <1>1, <1>2, <1>7, <2>1, <2>6, FrameStep
    DEF CheckLine, Resume, Step, InJob, WorkerRuns
<1>8. CASE CancelJob
  BY <1>0, <1>1, <1>8, ReturnStep DEF CancelJob, CancelSeen, InJob, PrintsNow
<1>9. CASE LeaveEvents
  <2>1. LateInv'
    BY <1>0, <1>1, <1>2, <1>9, StackStep
    DEF LeaveEvents, Resume, Step, InJob, IndInv, LateInv, PrintsNow, Top, TypeOK
  <2> QED
    BY <1>0, <1>1, <1>2, <1>9, <2>1, FrameStep
    DEF LeaveEvents, Resume, Step, InJob, WorkerRuns
<1>10. CASE SendLine
  <2> DEFINE f == [Top EXCEPT !.pc = "check", !.line = @ + 1]
  <2>1. f \in Frame /\ f.kind = Top.kind /\ f.upload = Top.upload /\ f.pc = "check"
    BY <1>1 DEF Frame, FrameOf
  <2>2. Top' = f /\ stack' /= <<>> /\ stack' = <<f>> \o Tail(stack)
    BY <1>10, <2>1, <1>0, StackStep DEF SendLine, Top, IndInv, TypeOK
  <2>3. InProcess /\ worker.pc = "none" /\ worker' = worker
    BY <1>1, <1>10 DEF SendLine, InJob
  <2>4. PrintsNow => late = 0
    BY <1>10 DEF SendLine, InJob, IndInv, LateInv, TypeOK
  <2>5. late <= 1 /\ late \in Nat
    BY DEF IndInv, LateInv, TypeOK
  <2>6. late' = (IF cancelRequested /\ PrintsNow THEN 1 ELSE late)
    BY <1>0, <1>10, <2>4 DEF SendLine, PrintsNow
  <2>7. LateInv'
    <3>1. PrintsNow' <=> PrintsNow
      BY <1>0, <2>1, <2>2 DEF PrintsNow
    <3> QED
      BY <1>10, <2>1, <2>2, <2>3, <2>4, <2>5, <2>6, <3>1 DEF SendLine, LateInv
  <2> QED
    <3>1. ~WorkerRuns' /\ worker'.pc = "none"
      BY <2>3 DEF WorkerRuns
    <3> HIDE DEF f
    <3> QED
      BY <1>0, <1>1, <1>10, <2>1, <2>2, <2>3, <2>7, <3>1, FrameStep DEF SendLine
<1>11. CASE FinishJob
  BY <1>0, <1>1, <1>11, ReturnStep DEF FinishJob, InJob
<1>12. CASE JobFails
  BY <1>0, <1>1, <1>12, ReturnStep DEF JobFails
<1> QED
  BY <1>3, <1>4, <1>5, <1>6, <1>7, <1>8, <1>9, <1>10, <1>11, <1>12 DEF JobStep

\* Every step of the worker preserves the inductive invariant.
LEMMA WorkerInd ==
    ASSUME IndInv, TypeOK', WorkerStep
    PROVE  IndInv'
<1>1. /\ worker.pc /= "none"
      /\ UNCHANGED <<loopVars, uploadVars, diskVars, stack, printInProgress,
                     cancelRequested, cancelFile, sdk, outcome, aborted, abandoned>>
      /\ WorkerRuns
  BY DEF WorkerStep, WorkerSetup, WorkerCheck, WorkerSend, WorkerFinish, WorkerFails,
         WorkerTo, WorkerRuns
<1>2. ~InProcess /\ stack /= <<>> /\ Top.pc = "wait" /\ ~sdk
  BY <1>1 DEF IndInv, BuildInv, SdkExclusive
<1>3. late \in Nat /\ worker \in Worker
  BY DEF IndInv, TypeOK
<1>4. LateInv'
  <2>1. CASE WorkerSetup
    BY <1>1, <1>2, <1>3, <2>1
    DEF WorkerSetup, WorkerTo, Worker, IndInv, LateInv, PrintsNow, Top
  <2>2. CASE WorkerCheck
    BY <1>1, <1>2, <1>3, <2>2
    DEF WorkerCheck, WorkerTo, Worker, CancelSeen, IndInv, LateInv, PrintsNow, Top
  <2>3. CASE WorkerSend
    <3>1. worker' = [worker EXCEPT !.pc = "check", !.line = @ + 1] /\ worker.pc = "send"
      BY <2>3 DEF WorkerSend, WorkerTo
    <3>2. worker'.pc = "check"
      BY <1>3, <3>1 DEF Worker
    <3>3. cancelFile => PrintsNow /\ late = 0
      BY <1>2, <1>3, <3>1 DEF IndInv, CancelInv, LateInv
    <3>4. PrintsNow' = PrintsNow /\ Top' = Top
      BY <1>1 DEF PrintsNow, Top
    <3>5. late' = (IF cancelFile THEN late + 1 ELSE late)
      BY <2>3 DEF WorkerSend
    <3> QED
      BY <1>1, <1>2, <1>3, <3>2, <3>3, <3>4, <3>5 DEF IndInv, LateInv
  <2>4. CASE WorkerFinish
    BY <1>1, <1>2, <1>3, <2>4
    DEF WorkerFinish, WorkerTo, Worker, IndInv, LateInv, PrintsNow, Top
  <2>5. CASE WorkerFails
    BY <1>1, <1>2, <1>3, <2>5
    DEF WorkerFails, WorkerTo, Worker, IndInv, LateInv, PrintsNow, Top
  <2> QED
    BY <2>1, <2>2, <2>3, <2>4, <2>5 DEF WorkerStep
<1>5. ProcessInv' /\ PrintsOnlyComplete' /\ FinalsArePrintedOrAbandoned'
  BY <1>1 DEF IndInv, ProcessInv, PrintsOnlyComplete, FinalsArePrintedOrAbandoned,
         Complete, Printing
<1>6. BuildInv' /\ GateGuardsThePrint' /\ SdkExclusive'
  BY <1>1, <1>2 DEF IndInv, BuildInv, GateGuardsThePrint, Top, SdkExclusive
<1>7. UploadFilesMatchTable'
  BY <1>1 DEF IndInv, UploadFilesMatchTable
<1>8. CancelInv' /\ CancelHitsItsOwnJob'
  BY <1>1 DEF IndInv, CancelInv, PrintsNow, Top, CancelHitsItsOwnJob
<1> QED
  BY <1>4, <1>5, <1>6, <1>7, <1>8 DEF IndInv

\* An orderly exit preserves the inductive invariant.
LEMMA ExitStep ==
    ASSUME IndInv, TypeOK', Exit
    PROVE  IndInv'
<1>1. stack = <<>> /\ stack' = <<>> /\ worker.pc = "none" /\ partial = table /\ up
      /\ ~PrintsNow /\ worker' = worker
  BY DEF Exit, IndInv, BuildInv, UploadFilesMatchTable, PrintsNow
<1>2. table' = {} /\ partial' = {}
  BY <1>1 DEF Exit, Forget, RemovePartials
<1>3. \A v \in Uploads : ~Printing(v) /\ ~Printing(v)'
  BY <1>1 DEF Printing
<1>4. ProcessInv' /\ BuildInv'
  BY <1>1, <1>2, <1>3 DEF Exit, ProcessInv, BuildInv
<1>5. GateGuardsThePrint' /\ SdkExclusive'
  BY <1>1 DEF Exit, IndInv, GateGuardsThePrint, SdkExclusive
<1>6. UploadFilesMatchTable' /\ PrintsOnlyComplete'
  BY <1>2, <1>3 DEF Exit, UploadFilesMatchTable, PrintsOnlyComplete
<1>7. FinalsArePrintedOrAbandoned'
  BY <1>3 DEF Exit, RemovePartials, IndInv, TypeOK, FinalsArePrintedOrAbandoned
<1>8. CancelInv' /\ CancelHitsItsOwnJob' /\ LateInv'
  BY <1>1 DEF Exit, IndInv, CancelInv, CancelHitsItsOwnJob, LateInv, PrintsNow
<1> QED
  BY <1>4, <1>5, <1>6, <1>7, <1>8 DEF IndInv

\* An abrupt end preserves the inductive invariant.
LEMMA CrashStep ==
    ASSUME IndInv, TypeOK', Crash
    PROVE  IndInv'
<1>1. stack' = <<>> /\ worker'.pc = "none" /\ ~up' /\ ~quitting' /\ ~PrintsNow'
  BY DEF Crash, NoWorker, PrintsNow
<1>2. table' = {}
  BY DEF Crash, Forget, IndInv, TypeOK
<1>3. \A v \in Uploads : ~Printing(v)'
  BY <1>1 DEF Printing
<1>4. ProcessInv' /\ BuildInv'
  BY <1>1, <1>2, <1>3 DEF ProcessInv, BuildInv
<1>5. GateGuardsThePrint' /\ SdkExclusive'
  BY <1>1 DEF Crash, GateGuardsThePrint, SdkExclusive
<1>6. UploadFilesMatchTable' /\ PrintsOnlyComplete'
  BY <1>1, <1>2, <1>3 DEF UploadFilesMatchTable, PrintsOnlyComplete
<1>7. FinalsArePrintedOrAbandoned'
  BY DEF Crash, IndInv, TypeOK, FinalsArePrintedOrAbandoned, Printing
<1>8. CancelInv' /\ CancelHitsItsOwnJob' /\ LateInv'
  BY <1>1 DEF Crash, IndInv, CancelInv, CancelHitsItsOwnJob, LateInv
<1> QED
  BY <1>4, <1>5, <1>6, <1>7, <1>8 DEF IndInv

\* The sweep of a new process preserves the inductive invariant.
LEMMA RestartStep ==
    ASSUME IndInv, TypeOK', Restart
    PROVE  IndInv'
<1>1. stack = <<>> /\ stack' = stack /\ table = {} /\ table' = {} /\ partial' = {}
      /\ ~PrintsNow /\ ~PrintsNow' /\ worker' = worker /\ sdk' = sdk
  BY DEF Restart, RemovePartials, IndInv, ProcessInv, PrintsNow
<1>2. \A v \in Uploads : ~Printing(v) /\ ~Printing(v)'
  BY <1>1 DEF Printing
<1>3. ProcessInv' /\ BuildInv' /\ UploadFilesMatchTable' /\ PrintsOnlyComplete'
  BY <1>1, <1>2 DEF Restart, IndInv, ProcessInv, BuildInv, UploadFilesMatchTable,
         PrintsOnlyComplete
<1>4. GateGuardsThePrint' /\ SdkExclusive'
  BY <1>1 DEF Restart, IndInv, GateGuardsThePrint, SdkExclusive, WorkerRuns
<1>5. FinalsArePrintedOrAbandoned'
  BY <1>2 DEF Restart, RemovePartials, IndInv, TypeOK, FinalsArePrintedOrAbandoned
<1>6. CancelInv' /\ CancelHitsItsOwnJob' /\ LateInv'
  BY <1>1 DEF Restart, IndInv, CancelInv, CancelHitsItsOwnJob, LateInv
<1> QED
  BY <1>3, <1>4, <1>5, <1>6 DEF IndInv

\* A reply never loads the vendor library beside a worker.
LEMMA ReplyKeepsSdk ==
    ASSUME IndInv, up, EventPoint, MayLoadSdk
    PROVE  WorkerRuns => ~sdk'
<1>1. WorkerRuns => printInProgress /\ ~sdk
  BY DEF IndInv, EventPoint, BuildInv, GateGuardsThePrint, SdkExclusive, WorkerRuns
<1> QED
  BY <1>1 DEF MayLoadSdk

\* Every handler preserves the inductive invariant.
LEMMA ServeInd ==
    ASSUME IndInv, TypeOK', NEW k \in Conns, Serve(k)
    PROVE  IndInv'
<1>1. CASE Ping(k) \/ Refuse(k) \/ BeginRefused(k) \/ AppendRefused(k)
           \/ CommitUnknown(k) \/ SubmitJobUndecoded(k) \/ Shutdown(k)
  <2>1. up /\ EventPoint /\ MayLoadSdk
    BY <1>1 DEF Ping, Refuse, BeginRefused, AppendRefused, CommitUnknown,
           SubmitJobUndecoded, Shutdown, Serves, Reply
  <2>2. WorkerRuns => ~sdk'
    BY <2>1, ReplyKeepsSdk
  <2>3. UNCHANGED <<up, uploadVars, diskVars, jobVars, histVars>>
    BY <1>1 DEF Ping, Refuse, BeginRefused, AppendRefused, CommitUnknown,
           SubmitJobUndecoded, Shutdown
  <2> QED
    BY <2>1, <2>2, <2>3, QuietStep DEF IndInv, TypeOK
<1>2. CASE Controller(k)
  <2>1. ~WorkerRuns
    BY <1>2, AdmittedAtRest DEF Controller
  <2> QED
    BY <1>2, <2>1, QuietStep DEF Controller
<1>3. CASE AbortPrint(k)
  BY <1>3, AbortStep
<1>4. CASE BeginRasterUpload(k)
  BY <1>4, BeginStep
<1>5. CASE AppendRasterChunk(k)
  BY <1>5, AppendStep
<1>6. CASE AppendFails(k)
  <2>1. up /\ EventPoint /\ MayLoadSdk /\ {conn[k].req.upload} \subseteq table
    BY <1>6 DEF AppendFails, Serves, Reply, ChunkFits
  <2> QED
    BY <1>6, <2>1, ReplyKeepsSdk, DropStep DEF AppendFails
<1>7. CASE CancelRasterUpload(k)
  <2>1. up /\ EventPoint /\ MayLoadSdk
    BY <1>7 DEF CancelRasterUpload, Serves, Reply
  <2> QED
    BY <1>7, <2>1, ReplyKeepsSdk, DropStep DEF CancelRasterUpload
<1>8. CASE CommitRejected(k)
  <2>1. up /\ EventPoint /\ MayLoadSdk /\ {conn[k].req.upload} \subseteq table
    BY <1>8 DEF CommitRejected, Serves, Reply
  <2> QED
    BY <1>8, <2>1, ReplyKeepsSdk, DropStep DEF CommitRejected
<1>9. CASE Commit(k)
  BY <1>9, CommitStep
<1>10. CASE SubmitJob(k)
  BY <1>10, SubmitStep
<1> QED
  BY <1>1, <1>2, <1>3, <1>4, <1>5, <1>6, <1>7, <1>8, <1>9, <1>10 DEF Serve

\* Every step preserves the inductive invariant.
LEMMA NextInd ==
    ASSUME IndInv, [Next]_vars
    PROVE  IndInv'
<1>0. TypeOK' /\ (WorkerRuns => ~sdk)
  BY NextTyped DEF IndInv, SdkExclusive
<1>1. ASSUME NEW k \in Conns, NEW r \in Request, Send(k, r) PROVE IndInv'
  BY <1>0, <1>1, QuietStep DEF Send
<1>2. ASSUME NEW k \in Conns, Receive(k) PROVE IndInv'
  BY <1>0, <1>2, QuietStep DEF Receive
<1>3. ASSUME NEW k \in Conns, Serve(k) PROVE IndInv'
  BY <1>0, <1>3, ServeInd
<1>4. CASE JobStep
  BY <1>0, <1>4, JobInd
<1>5. CASE WorkerStep
  BY <1>0, <1>5, WorkerInd
<1>6. ASSUME NEW u \in Uploads, Age(u) PROVE IndInv'
  BY <1>0, <1>6, QuietStep DEF Age
<1>7. CASE RemoveExpiredUploads
  <2>1. stale \subseteq table
    BY DEF IndInv, TypeOK
  <2> QED
    BY <1>0, <1>7, <2>1, DropStep DEF RemoveExpiredUploads
<1>8. CASE Terminate
  BY <1>0, <1>8, QuietStep DEF Terminate
<1>9. CASE Exit
  BY <1>0, <1>9, ExitStep
<1>10. CASE Crash
  BY <1>0, <1>10, CrashStep
<1>11. CASE Restart
  BY <1>0, <1>11, RestartStep
<1>12. CASE OrphanExits
  BY <1>0, <1>12, QuietStep DEF OrphanExits
<1>13. CASE UNCHANGED vars
  BY <1>0, <1>13, QuietStep DEF vars
<1> QED
  BY <1>1, <1>2, <1>3, <1>4, <1>5, <1>6, <1>7, <1>8, <1>9, <1>10, <1>11, <1>12,
     <1>13 DEF Next

\* The inductive invariant holds in every reachable state.
THEOREM Invariance == Spec => []IndInv
  BY InitInd, NextInd, PTL DEF Spec

\* The table and the partial files never part: neither requests, nor failures, nor
\* expiry, exit, kill and restart leave a file without an entry or the converse.
THEOREM FilesMatchTable == Spec => []UploadFilesMatchTable
<1>1. IndInv => UploadFilesMatchTable
  BY DEF IndInv
<1> QED
  BY <1>1, Invariance, PTL

\* The backend prints from complete files only, and nothing takes the file away
\* before the handler returns.
THEOREM PrintsWholeRasters == Spec => []PrintsOnlyComplete
<1>1. IndInv => PrintsOnlyComplete
  BY DEF IndInv
<1> QED
  BY <1>1, Invariance, PTL

\* A finished raster file is in print or was left by a kill.
THEOREM FinalsAccounted == Spec => []FinalsArePrintedOrAbandoned
<1>1. IndInv => FinalsArePrintedOrAbandoned
  BY DEF IndInv
<1> QED
  BY <1>1, Invariance, PTL

\* m_printInProgress is the presence of a committed job at the top of the stack,
\* and there is one such job at most.
THEOREM GateHolds == Spec => []GateGuardsThePrint
<1>1. IndInv => GateGuardsThePrint
  BY DEF IndInv
<1> QED
  BY <1>1, Invariance, PTL

\* Whatever is requested while a worker prints, the service does not load the SDK.
THEOREM WorkerHasTheSdk == Spec => []SdkExclusive
<1>1. IndInv => SdkExclusive
  BY DEF IndInv
<1> QED
  BY <1>1, Invariance, PTL

\* A job reported as canceled was aborted while it printed.
THEOREM CancelIsOwn == Spec => []CancelHitsItsOwnJob
<1>1. IndInv => CancelHitsItsOwnJob
  BY DEF IndInv
<1> QED
  BY <1>1, Invariance, PTL

\* After an abort is recorded, at most one more plane line is sent.
THEOREM AbortIsPrompt == Spec => []AbortStopsTheStream
<1>1. IndInv => AbortStopsTheStream
  BY DEF IndInv, LateInv, AbortStopsTheStream
<1> QED
  BY <1>1, Invariance, PTL

-----------------------------------------------------------------------------
(* Vendor calls.                                                            *)

\* Requests and frames stay without one-frame jobs.
LEMMA NoLegacyStep ==
    ASSUME TypeOK, NoLegacyInv, [Next]_vars
    PROVE  NoLegacyInv'
<1> SUFFICES ASSUME ~Legacy PROVE NoLegacyInv'
  BY DEF NoLegacyInv
<1> DEFINE Fine(c) == c.state = "waiting" => c.req.cmd /= "submitJob"
<1>0. /\ conn \in [Conns -> ConnState] /\ stack \in Seq(Frame)
      /\ \A k \in Conns : Fine(conn[k])
      /\ \A i \in DOMAIN stack : stack[i].kind = "spooled"
  BY DEF NoLegacyInv, TypeOK
<1>1. ASSUME NEW k \in Conns, NEW c, Fine(c), conn' = [conn EXCEPT ![k] = c]
      PROVE  \A l \in Conns : Fine(conn'[l])
  BY <1>0, <1>1
<1>2. /\ Fine(Free) /\ Fine(Serving)
      /\ \A ok, u : Fine(Answered(ok, u))
  BY DEF Free, Serving, Answered
<1>3. ASSUME NEW k \in Conns, NEW ok, NEW u, conn' = [conn EXCEPT ![k] = Answered(ok, u)]
      PROVE  \A l \in Conns : Fine(conn'[l])
  BY <1>1, <1>2, <1>3
<1>4. ASSUME NEW k \in Conns, NEW r \in Request, Send(k, r) PROVE NoLegacyInv'
  <2>1. Fine(Waiting(r)) /\ conn' = [conn EXCEPT ![k] = Waiting(r)] /\ UNCHANGED stack
    BY <1>4 DEF Send, Waiting
  <2> QED
    BY <1>0, <1>1, <2>1 DEF NoLegacyInv
<1>5. ASSUME NEW k \in Conns, Receive(k) PROVE NoLegacyInv'
  BY <1>0, <1>1, <1>2, <1>5 DEF Receive, NoLegacyInv
<1>6. ASSUME NEW k \in Conns, Serve(k) PROVE NoLegacyInv'
  <2>1. ~SubmitJob(k)
    BY <1>0 DEF SubmitJob, Serves
  <2>2. CASE Commit(k)
    <3>1. PICK f \in Frame : f.kind = "spooled" /\ stack' = <<f>> \o stack
      <4>1. conn[k].req.upload \in Uploads
        BY <2>2, RequestKinds DEF Commit, Serves
      <4>2. /\ OpenFrame("spooled", k, conn[k].req.upload) \in Frame
            /\ OpenFrame("spooled", k, conn[k].req.upload).kind = "spooled"
        BY <4>1 DEF OpenFrame, Frame, FrameOf
      <4> QED
        BY <2>2, <4>2 DEF Commit, Push
    <3>2. \A i \in DOMAIN stack' : stack'[i].kind = "spooled"
      BY <1>0, <3>1, StackPush
    <3>3. \A l \in Conns : Fine(conn'[l])
      BY <1>1, <1>2, <2>2 DEF Commit
    <3> QED
      BY <3>2, <3>3 DEF NoLegacyInv
  <2>3. CASE ~Commit(k)
    <3>1. UNCHANGED stack
      BY <1>6, <2>1, <2>3
      DEF Serve, Ping, Refuse, Controller, AbortPrint, BeginRefused, BeginRasterUpload,
          AppendRefused, AppendRasterChunk, AppendFails, CancelRasterUpload,
          CommitUnknown, CommitRejected, SubmitJobUndecoded, Shutdown
    <3>2. \E ok, u : conn' = [conn EXCEPT ![k] = Answered(ok, u)]
      BY <1>6, <2>1, <2>3
      DEF Serve, Ping, Refuse, Controller, AbortPrint, BeginRefused, BeginRasterUpload,
          AppendRefused, AppendRasterChunk, AppendFails, CancelRasterUpload,
          CommitUnknown, CommitRejected, SubmitJobUndecoded, Shutdown, Reply
    <3>3. \A l \in Conns : Fine(conn'[l])
      BY <1>3, <3>2, Zenon
    <3> QED
      BY <1>0, <3>1, <3>3 DEF NoLegacyInv
  <2> QED
    BY <2>2, <2>3
<1>7. CASE JobStep
  <2>0. stack /= <<>>
    BY <1>7 DEF JobStep, Launch, LaunchFails, WorkerDone, SetUpJob, CheckLine, CancelJob,
           LeaveEvents, SendLine, FinishJob, JobFails, InJob
  <2>1. Top \in Frame /\ Top.kind = "spooled" /\ Top.conn \in Conns /\ Top.line + 1 \in Nat
    BY <1>0, <2>0, StackTop DEF Frame, FrameOf
  <2>2. ASSUME NEW ok, NEW why, Return(ok, why) PROVE NoLegacyInv'
    <3>1. stack' = Tail(stack) /\ conn' = [conn EXCEPT ![Top.conn] = Answered(ok, NoUpload)]
      BY <2>2 DEF Return
    <3>2. \A i \in DOMAIN stack' : stack'[i].kind = "spooled"
      BY <1>0, <2>0, <3>1, StackTop
    <3>3. \A l \in Conns : Fine(conn'[l])
      BY <1>3, <2>1, <3>1
    <3> QED
      BY <3>2, <3>3 DEF NoLegacyInv
  <2>3. ASSUME NEW f \in Frame, f.kind = "spooled", stack' = <<f>> \o Tail(stack),
               UNCHANGED conn
        PROVE  NoLegacyInv'
    <3>1. \A i \in DOMAIN stack' : stack'[i].kind = "spooled"
      BY <1>0, <2>0, <2>3, StackStep
    <3> QED
      BY <1>0, <2>3, <3>1 DEF NoLegacyInv
  <2>4. ASSUME NEW pc \in {"wait", "check", "finish", "events", "send"}, Step(pc),
               UNCHANGED conn
        PROVE  NoLegacyInv'
    <3>1. [Top EXCEPT !.pc = pc] \in Frame /\ [Top EXCEPT !.pc = pc].kind = "spooled"
      BY <2>1 DEF Frame, FrameOf
    <3> QED
      BY <2>3, <2>4, <3>1 DEF Step
  <2>5. CASE LaunchFails \/ WorkerDone \/ CancelJob \/ FinishJob \/ JobFails
    BY <2>2, <2>5 DEF LaunchFails, WorkerDone, CancelJob, FinishJob, JobFails
  <2>6. CASE Launch \/ SetUpJob \/ CheckLine \/ LeaveEvents
    BY <2>4, <2>6 DEF Launch, SetUpJob, CheckLine, LeaveEvents, Resume
  <2>7. CASE SendLine
    <3>1. /\ [Top EXCEPT !.pc = "check", !.line = @ + 1] \in Frame
          /\ [Top EXCEPT !.pc = "check", !.line = @ + 1].kind = "spooled"
      BY <2>1 DEF Frame, FrameOf
    <3> QED
      BY <2>3, <2>7, <3>1 DEF SendLine
  <2> QED
    BY <1>7, <2>5, <2>6, <2>7 DEF JobStep
<1>8. CASE \/ WorkerStep \/ (\E u \in Uploads : Age(u))
           \/ RemoveExpiredUploads \/ Terminate \/ Restart \/ OrphanExits \/ UNCHANGED vars
  <2>1. UNCHANGED <<conn, stack>>
    BY <1>8 DEF WorkerStep, WorkerSetup, WorkerCheck, WorkerSend, WorkerFinish, WorkerFails,
           WorkerTo, Age, RemoveExpiredUploads, Terminate, Restart, OrphanExits, vars
  <2> QED
    BY <1>0, <2>1 DEF NoLegacyInv
<1>9. CASE Exit \/ Crash
  <2>1. stack' = <<>> /\ conn' = BrokenConns
    BY <1>9 DEF Exit, Crash
  <2>2. \A k \in Conns : Fine(conn'[k])
    BY <1>0, <1>2, <2>1 DEF BrokenConns
  <2> QED
    BY <2>1, <2>2 DEF NoLegacyInv
<1> HIDE DEF Fine
<1> QED
  BY <1>4, <1>5, <1>6, <1>7, <1>8, <1>9 DEF Next

\* Vendor calls are serialized wherever workers print, and in the service itself if
\* no one-frame job is sent (the run ServerArmLegacy shows what happens otherwise).
THEOREM VendorCallsAreSerialized ==
    ASSUME InProcess => ~Legacy
    PROVE  Spec => VendorCallsSerialized
<1>1. Init => NoLegacyInv
  BY DEF Init, NoLegacyInv, Free
<1>2. TypeOK /\ NoLegacyInv /\ [Next]_vars => NoLegacyInv'
  BY NoLegacyStep
<1>3. IndInv /\ NoLegacyInv => (StartsVendorWork => stack = <<>>)
  <2> SUFFICES ASSUME IndInv, NoLegacyInv, StartsVendorWork PROVE stack = <<>>
    OBVIOUS
  <2>1. EventPoint /\ ~printInProgress
    BY DEF StartsVendorWork, Controller, Commit, SubmitJob, Serves, Admits
  <2>2. stack /= <<>> => Top \in Frame /\ Top = stack[1] /\ 1 \in DOMAIN stack
    BY StackTop DEF IndInv, TypeOK
  <2>3. stack /= <<>> => Top.kind /= "spooled" /\ InProcess
    BY <2>1, <2>2 DEF EventPoint, IndInv, GateGuardsThePrint, BuildInv
  <2> QED
    BY <2>2, <2>3 DEF NoLegacyInv
<1>4. IndInv => TypeOK
  BY DEF IndInv
<1> QED
  BY <1>1, <1>2, <1>3, <1>4, Invariance, PTL DEF Spec, VendorCallsSerialized

=============================================================================
