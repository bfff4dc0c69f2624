-------------------- MODULE PrinterServiceDeliveryProofs --------------------
(* The printer service implements RasterDelivery, for any number of         *)
(* connections, uploads, chunks and lines, and either build.                *)
EXTENDS PrinterServiceDelivery, PrinterServiceSafety

-----------------------------------------------------------------------------
(* From what a step does to the phases and contents to a step of            *)
(* RasterDelivery.                                                          *)

Keeps(S) == \A v \in S : PhaseOf(v)' = PhaseOf(v) /\ ContentOf(v)' = ContentOf(v)

\* A step that moves no upload is a stutter.
LEMMA StutterStep ==
    ASSUME Keeps(Uploads)
    PROVE  UNCHANGED Delivery!deliveryVars
BY DEF Keeps, Delivery!deliveryVars

\* The abstract beginning of an upload.
LEMMA BeginsStep ==
    ASSUME NEW u \in Uploads, Keeps(Uploads \ {u}),
           PhaseOf(u) = "unborn", PhaseOf(u)' = "receiving",
           ContentOf(u)' = ContentOf(u)
    PROVE  Delivery!Next
<1>1. Delivery!Begin(u)
  BY DEF Keeps, Delivery!Begin
<1> QED
  BY <1>1 DEF Delivery!Next

\* The abstract arrival of a chunk.
LEMMA TakesStep ==
    ASSUME NEW u \in Uploads, NEW c \in 0 .. Chunks, Keeps(Uploads \ {u}),
           PhaseOf(u) = "receiving", PhaseOf(u)' = "receiving",
           Len(ContentOf(u)) < Chunks, ContentOf(u)' = Append(ContentOf(u), c)
    PROVE  Delivery!Next
<1>1. Delivery!Take(u, c)
  BY DEF Keeps, Delivery!Take
<1> QED
  BY <1>1 DEF Delivery!Next

\* The abstract start of a print.
LEMMA StartsStep ==
    ASSUME NEW u \in Uploads, Keeps(Uploads \ {u}),
           PhaseOf(u) = "receiving", PhaseOf(u)' = "printing",
           \A v \in Uploads : PhaseOf(v) /= "printing",
           ContentOf(u) = Complete, ContentOf(u)' = ContentOf(u)
    PROVE  Delivery!Next
<1>1. Delivery!Start(u)
  BY DEF Keeps, Complete, Delivery!Start, Delivery!Whole
<1> QED
  BY <1>1 DEF Delivery!Next

\* The abstract end of a print.
LEMMA EndsStep ==
    ASSUME NEW u \in Uploads, NEW why \in {"printed", "canceled", "failed", "dropped"},
           Keeps(Uploads \ {u}),
           PhaseOf(u) = "printing", PhaseOf(u)' = why, ContentOf(u)' = <<>>
    PROVE  Delivery!Next
<1>1. Delivery!End(u)
  BY DEF Keeps, Delivery!End, Delivery!Ended
<1> QED
  BY <1>1 DEF Delivery!Next

\* The abstract loss of uploads.
LEMMA DropsStep ==
    ASSUME NEW S \in SUBSET Uploads, Keeps(Uploads \ S),
           \A u \in S : /\ PhaseOf(u) \in {"receiving", "printing"}
                        /\ PhaseOf(u)' = "dropped" /\ ContentOf(u)' = <<>>
    PROVE  Delivery!Next
<1>1. Delivery!Drop(S)
  BY DEF Keeps, Delivery!Drop
<1> QED
  BY <1>1 DEF Delivery!Next

-----------------------------------------------------------------------------
(* What the steps of the service do to the phases.                          *)

USE DEF loopVars, uploadVars, diskVars, jobVars, histVars

\* A step of RasterDelivery, or none, after which EndedInv still holds.
Delivers == EndedInv' /\ [Delivery!Next]_(Delivery!deliveryVars)

\* Steps that leave table, outcomes and printing jobs as they are.
LEMMA QuietDelivers ==
    ASSUME EndedInv, UNCHANGED <<table, minted, outcome>>,
           \A u \in Uploads : Printing(u)' <=> Printing(u),
           \A u \in Uploads : u \in table \/ Printing(u) => body'[u] = body[u]
    PROVE  Delivers
<1>1. Keeps(Uploads)
  BY DEF Keeps, PhaseOf, ContentOf
<1>2. EndedInv'
  BY DEF EndedInv
<1> QED
  BY <1>1, <1>2, StutterStep DEF Delivers

\* The same for steps that do not touch the stack at all.
LEMMA StackKept ==
    ASSUME UNCHANGED stack
    PROVE  \A u \in Uploads : Printing(u)' <=> Printing(u)
BY DEF Printing

\* A new id becomes an upload that is received.
LEMMA BeginDelivers ==
    ASSUME IndInv, EndedInv, NEW k \in Conns, BeginRasterUpload(k)
    PROVE  Delivers
<1>1. PICK u \in Fresh :
          /\ minted' = minted \cup {u}
          /\ table' = table \cup {u}
          /\ body' = [body EXCEPT ![u] = <<>>]
  BY DEF BeginRasterUpload
<1>2. u \in Uploads /\ u \notin minted /\ u \notin table /\ ~Printing(u)
      /\ outcome[u] = "none" /\ UNCHANGED <<outcome, stack>>
  BY <1>1 DEF Fresh, IndInv, ProcessInv, EndedInv, BeginRasterUpload
<1>3. \A v \in Uploads : Printing(v)' <=> Printing(v)
  BY <1>2, StackKept
<1>4. Keeps(Uploads \ {u})
  BY <1>1, <1>2, <1>3 DEF Keeps, PhaseOf, ContentOf, IndInv, TypeOK
<1>5. PhaseOf(u) = "unborn" /\ PhaseOf(u)' = "receiving"
  BY <1>1, <1>2, <1>3 DEF PhaseOf
<1>6. ContentOf(u) = <<>> /\ ContentOf(u)' = <<>>
  BY <1>1, <1>2, <1>3 DEF ContentOf, IndInv, TypeOK
<1>7. EndedInv'
  BY <1>1, <1>2, <1>3 DEF EndedInv
<1> QED
  BY <1>2, <1>4, <1>5, <1>6, <1>7, BeginsStep DEF Delivers

\* A chunk that fits is received.
LEMMA AppendDelivers ==
    ASSUME IndInv, EndedInv, NEW k \in Conns, AppendRasterChunk(k)
    PROVE  Delivers
<1>0. PICK u \in Uploads, c \in 0 .. Chunks :
          u = conn[k].req.upload /\ c = conn[k].req.chunk /\ u \in table
  BY RequestKinds DEF AppendRasterChunk, ChunkFits, Serves, IndInv, ChunkNames
<1>2. /\ body' = [body EXCEPT ![u] = Append(@, c)]
      /\ UNCHANGED <<table, minted, outcome, stack>>
  BY <1>0 DEF AppendRasterChunk
<1>3. \A v \in Uploads : Printing(v)' <=> Printing(v)
  BY <1>2, StackKept
<1>4. Keeps(Uploads \ {u})
  BY <1>0, <1>2, <1>3 DEF Keeps, PhaseOf, ContentOf, IndInv, TypeOK
<1>5. PhaseOf(u) = "receiving" /\ PhaseOf(u)' = "receiving"
  BY <1>0, <1>2 DEF PhaseOf
<1>6. Len(ContentOf(u)) < Chunks
  <2>1. received[u] = Len(body[u]) /\ received[u] + 1 <= Chunks
    BY <1>0 DEF AppendRasterChunk, ChunkFits, IndInv, UploadFilesMatchTable
  <2>2. received[u] \in Nat /\ Chunks \in Nat
    BY <1>0, ServerAssumption DEF IndInv, TypeOK
  <2> QED
    BY <1>0, <2>1, <2>2 DEF ContentOf
<1>7. ContentOf(u)' = Append(ContentOf(u), c)
  BY <1>0, <1>2 DEF ContentOf, IndInv, TypeOK
<1>8. EndedInv'
  BY <1>2, <1>3 DEF EndedInv
<1> QED
  BY <1>0, <1>4, <1>5, <1>6, <1>7, <1>8, TakesStep DEF Delivers

\* Uploads that leave the table with their files are dropped.
LEMMA DropDelivers ==
    ASSUME IndInv, EndedInv, NEW S, S \subseteq table, Forget(S), RemovePartials(S),
           UNCHANGED <<stack, outcome>>
    PROVE  Delivers
<1>1. S \in SUBSET Uploads /\ \A u \in S : u \in table /\ u \in minted /\ u \in Uploads
  BY DEF IndInv, TypeOK, ProcessInv
<1>2. \A v \in Uploads : Printing(v)' <=> Printing(v)
  BY StackKept
<1>3. /\ table' = table \ S /\ minted' = minted
      /\ body' = [u \in Uploads |-> IF u \in S THEN <<>> ELSE body[u]]
  BY DEF Forget, RemovePartials
<1>4. \A u \in S : outcome[u] = "none" /\ ~Printing(u)
  BY <1>1 DEF EndedInv, IndInv, PrintsOnlyComplete
<1>5. Keeps(Uploads \ S)
  BY <1>2, <1>3 DEF Keeps, PhaseOf, ContentOf
<1>6. \A u \in S : PhaseOf(u) = "receiving" /\ PhaseOf(u)' = "dropped"
  BY <1>1, <1>2, <1>3, <1>4 DEF PhaseOf
<1>7. \A u \in S : ContentOf(u)' = <<>>
  BY <1>1, <1>2, <1>3, <1>4 DEF ContentOf
<1>8. EndedInv'
  BY <1>2, <1>3 DEF EndedInv
<1> QED
  BY <1>1, <1>5, <1>6, <1>7, <1>8, DropsStep DEF Delivers

\* A commit that verifies starts the one print there is.
LEMMA CommitDelivers ==
    ASSUME IndInv, IndInv', EndedInv, NEW k \in Conns, Commit(k)
    PROVE  Delivers
<1>1. PICK u \in Uploads, f \in Frame :
          /\ u \in table /\ Verified(u)
          /\ f.kind = "spooled" /\ f.upload = u
          /\ stack' = <<f>> \o stack
          /\ table' = table \ {u} /\ UNCHANGED <<minted, body, outcome>>
  <2> DEFINE u == conn[k].req.upload
             f == OpenFrame("spooled", k, u)
  <2>1. u \in Uploads
    BY RequestKinds DEF Commit, Serves, IndInv
  <2>2. f \in Frame /\ f.kind = "spooled" /\ f.upload = u
    BY <2>1 DEF OpenFrame, Frame, FrameOf
  <2> QED
    BY <2>1, <2>2 DEF Commit, Push, Forget
<1>2. \A v \in Uploads : ~Printing(v)
  BY AdmittedAtRest DEF Commit
<1>3. stack \in Seq(Frame) /\ stack' /= <<>> /\ stack'[1] = f /\ 1 \in DOMAIN stack'
  BY <1>1, StackPush DEF IndInv, TypeOK
<1>4. \A i \in DOMAIN stack' : stack'[i].kind = "spooled" => i = 1
  BY DEF IndInv, GateGuardsThePrint
<1>6. \A v \in Uploads : Printing(v)' <=> v = u
  BY <1>1, <1>3, <1>4 DEF Printing
<1>7. Keeps(Uploads \ {u})
  BY <1>1, <1>2, <1>6 DEF Keeps, PhaseOf, ContentOf
<1>8. PhaseOf(u) = "receiving" /\ PhaseOf(u)' = "printing"
  BY <1>1, <1>6 DEF PhaseOf
<1>9. \A v \in Uploads : PhaseOf(v) /= "printing"
  BY <1>2 DEF PhaseOf, IndInv, TypeOK
<1>10. ContentOf(u) = Complete /\ ContentOf(u)' = ContentOf(u)
  BY <1>1, <1>6 DEF ContentOf, Verified
<1>11. EndedInv'
  BY <1>1, <1>6 DEF EndedInv
<1> QED
  BY <1>1, <1>7, <1>8, <1>9, <1>10, <1>11, StartsStep DEF Delivers

\* A one-frame job has no upload.
LEMMA SubmitDelivers ==
    ASSUME IndInv, IndInv', EndedInv, NEW k \in Conns, SubmitJob(k)
    PROVE  Delivers
<1>1. PICK f \in Frame : f.kind = "legacy" /\ stack' = <<f>> \o stack
  <2>1. OpenFrame("legacy", k, NoUpload) \in Frame
        /\ OpenFrame("legacy", k, NoUpload).kind = "legacy"
    BY DEF OpenFrame, Frame, FrameOf
  <2> QED
    BY <2>1 DEF SubmitJob, Push
<1>2. stack \in Seq(Frame) /\ stack'[1] = f
  BY <1>1, StackPush DEF IndInv, TypeOK
<1>3. \A v \in Uploads : ~Printing(v) /\ ~Printing(v)'
  BY <1>1, <1>2, AdmittedAtRest DEF SubmitJob, Printing, IndInv, GateGuardsThePrint
<1> QED
  BY <1>3, QuietDelivers DEF SubmitJob

\* The innermost handler returns: its upload, if it has one, has ended.
LEMMA ReturnDelivers ==
    ASSUME IndInv, EndedInv, stack /= <<>>, NEW ok,
           NEW why \in {"printed", "canceled", "failed"}, Return(ok, why)
    PROVE  Delivers
<1>1. stack \in Seq(Frame) /\ stack' = Tail(stack)
  BY DEF Return, IndInv, TypeOK
<1>2. \A i \in DOMAIN stack' : i + 1 \in DOMAIN stack /\ i + 1 /= 1 /\ stack'[i] = stack[i + 1]
  BY <1>1, StackTop
<1>3. \A v \in Uploads : ~Printing(v)'
  BY <1>2 DEF Printing, IndInv, GateGuardsThePrint
<1>4. \A v \in Uploads : Printing(v) <=> Top.kind = "spooled" /\ Top.upload = v
  BY PrintingIsInnermost DEF IndInv, PrintsNow
<1>5. CASE Top.kind /= "spooled"
  BY <1>3, <1>4, <1>5, QuietDelivers DEF Return
<1>6. CASE Top.kind = "spooled"
  <2>1. PICK u \in Uploads : u = Top.upload
    BY <1>1, <1>6, SpooledTop
  <2>2. Printing(u) /\ u \notin table /\ u \in minted /\ outcome[u] = "none"
        /\ \A v \in Uploads \ {u} : ~Printing(v)
    BY <1>4, <1>6, <2>1 DEF EndedInv, IndInv, PrintsOnlyComplete, ProcessInv
  <2>3. /\ body' = [body EXCEPT ![u] = <<>>] /\ outcome' = [outcome EXCEPT ![u] = why]
        /\ UNCHANGED <<table, minted>>
    BY <1>6, <2>1 DEF Return, RemoveFinal
  <2>4. /\ outcome'[u] = why /\ why /= "none"
        /\ \A v \in Uploads \ {u} : outcome'[v] = outcome[v] /\ body'[v] = body[v]
    BY <2>3 DEF IndInv, TypeOK
  <2>5. Keeps(Uploads \ {u})
    BY <1>3, <2>2, <2>3, <2>4 DEF Keeps, PhaseOf, ContentOf
  <2>6. PhaseOf(u) = "printing" /\ PhaseOf(u)' = why /\ ContentOf(u)' = <<>>
    BY <1>3, <2>2, <2>3, <2>4 DEF PhaseOf, ContentOf
  <2>7. EndedInv'
    BY <1>3, <2>2, <2>3, <2>4 DEF EndedInv
  <2> QED
    BY <2>5, <2>6, <2>7, EndsStep DEF Delivers
<1> QED
  BY <1>5, <1>6

\* The innermost handler goes on: the same jobs print.
LEMMA FrameDelivers ==
    ASSUME IndInv, EndedInv, stack /= <<>>, NEW f \in Frame,
           f.kind = Top.kind, f.upload = Top.upload, stack' = <<f>> \o Tail(stack),
           UNCHANGED <<uploadVars, diskVars, outcome>>
    PROVE  Delivers
<1>1. stack \in Seq(Frame)
  BY DEF IndInv, TypeOK
<1>2. /\ stack'[1] = f /\ DOMAIN stack' = DOMAIN stack
      /\ \A i \in DOMAIN stack : i /= 1 => stack'[i] = stack[i]
  BY <1>1, StackStep
<1>3. Top = stack[1]
  BY <1>1, StackTop
<1>4. \A i \in DOMAIN stack : stack'[i].kind = stack[i].kind
                              /\ stack'[i].upload = stack[i].upload
  BY <1>2, <1>3
<1>5. \A v \in Uploads : Printing(v)' <=> Printing(v)
  BY <1>2, <1>4 DEF Printing
<1> QED
  BY <1>5, QuietDelivers

\* Every step of a printing handler ends a print or none.
LEMMA JobDelivers ==
    ASSUME IndInv, EndedInv, JobStep
    PROVE  Delivers
<1>0. stack /= <<>>
  BY DEF JobStep, Launch, LaunchFails, WorkerDone, SetUpJob, CheckLine, CancelJob,
         LeaveEvents, SendLine, FinishJob, JobFails, InJob
<1>1. Top \in Frame /\ Top.line + 1 \in Nat
  BY <1>0, StackTop DEF IndInv, TypeOK, Frame, FrameOf
<1>2. ASSUME NEW pc \in {"wait", "check", "finish", "events", "send"}, Step(pc),
             UNCHANGED <<uploadVars, diskVars, outcome>>
      PROVE  Delivers
  <2> DEFINE f == [Top EXCEPT !.pc = pc]
  <2>1. f \in Frame /\ f.kind = Top.kind /\ f.upload = Top.upload
    BY <1>1 DEF Frame, FrameOf
  <2>2. stack' = <<f>> \o Tail(stack)
    BY <1>2 DEF Step
  <2> HIDE DEF f
  <2> QED
    BY <1>0, <1>2, <2>1, <2>2, FrameDelivers
<1>3. CASE Launch \/ SetUpJob
  BY <1>2, <1>3 DEF Launch, SetUpJob
<1>4. CASE CheckLine \/ LeaveEvents
  BY <1>2, <1>4 DEF CheckLine, LeaveEvents, Resume
<1>5. CASE SendLine
  <2> DEFINE f == [Top EXCEPT !.pc = "check", !.line = @ + 1]
  <2>1. f \in Frame /\ f.kind = Top.kind /\ f.upload = Top.upload
    BY <1>1 DEF Frame, FrameOf
  <2>2. stack' = <<f>> \o Tail(stack) /\ UNCHANGED <<uploadVars, diskVars, outcome>>
    BY <1>5 DEF SendLine
  <2> HIDE DEF f
  <2> QED
    BY <1>0, <2>1, <2>2, FrameDelivers
<1>6. CASE LaunchFails \/ CancelJob \/ FinishJob \/ JobFails
  BY <1>0, <1>6, ReturnDelivers DEF LaunchFails, CancelJob, FinishJob, JobFails
<1>7. CASE WorkerDone
  BY <1>0, <1>7, ReturnDelivers DEF WorkerDone, WhyNot
<1> QED
  BY <1>3, <1>4, <1>5, <1>6, <1>7 DEF JobStep

\* An abrupt end drops what was received and what was printing.
LEMMA CrashDelivers ==
    ASSUME IndInv, EndedInv, Crash
    PROVE  Delivers
<1> DEFINE S == {u \in Uploads : u \in table \/ Printing(u)}
<1>1. /\ table' = {} /\ stack' = <<>> /\ UNCHANGED <<minted, outcome, body>>
  BY DEF Crash, Forget
<1>2. \A v \in Uploads : ~Printing(v)'
  BY <1>1 DEF Printing
<1>3. \A u \in S : u \in minted /\ outcome[u] = "none"
  BY DEF IndInv, ProcessInv, EndedInv
<1>4. \A u \in S : PhaseOf(u) \in {"receiving", "printing"}
  BY DEF PhaseOf
<1>5. \A u \in S : PhaseOf(u)' = "dropped" /\ ContentOf(u)' = <<>>
  BY <1>1, <1>2, <1>3 DEF PhaseOf, ContentOf
<1>6. Keeps(Uploads \ S)
  BY <1>1, <1>2 DEF Keeps, PhaseOf, ContentOf
<1>7. EndedInv'
  BY <1>1, <1>2 DEF EndedInv
<1> HIDE DEF S
<1>8. S \in SUBSET Uploads
  BY DEF S
<1> QED
  BY <1>4, <1>5, <1>6, <1>7, <1>8, DropsStep DEF Delivers

\* The sweep of a new process touches no upload that is received or printed.
LEMMA RestartDelivers ==
    ASSUME IndInv, EndedInv, Restart
    PROVE  Delivers
<1>1. table = {} /\ stack = <<>> /\ UNCHANGED <<table, minted, outcome, stack>>
  BY DEF Restart, IndInv, ProcessInv
<1>2. \A v \in Uploads : ~Printing(v)
  BY <1>1 DEF Printing
<1> QED
  BY <1>1, <1>2, StackKept, QuietDelivers

\* Every handler is a step of RasterDelivery.
LEMMA ServeDelivers ==
    ASSUME IndInv, IndInv', EndedInv, NEW k \in Conns, Serve(k)
    PROVE  Delivers
<1>1. CASE \/ Ping(k) \/ Refuse(k) \/ Controller(k) \/ AbortPrint(k) \/ BeginRefused(k)
           \/ AppendRefused(k) \/ CommitUnknown(k) \/ SubmitJobUndecoded(k) \/ Shutdown(k)
  <2>1. UNCHANGED <<table, minted, outcome, stack, body>>
    BY <1>1 DEF Ping, Refuse, Controller, AbortPrint, BeginRefused, AppendRefused,
           CommitUnknown, SubmitJobUndecoded, Shutdown
  <2> QED
    BY <2>1, StackKept, QuietDelivers
<1>2. CASE BeginRasterUpload(k)
  BY <1>2, BeginDelivers
<1>3. CASE AppendRasterChunk(k)
  BY <1>3, AppendDelivers
<1>4. CASE AppendFails(k)
  <2>1. {conn[k].req.upload} \subseteq table
    BY <1>4 DEF AppendFails, ChunkFits
  <2> QED
    BY <1>4, <2>1, DropDelivers DEF AppendFails
<1>5. CASE CancelRasterUpload(k)
  BY <1>5, DropDelivers DEF CancelRasterUpload
<1>6. CASE CommitRejected(k)
  <2>1. {conn[k].req.upload} \subseteq table
    BY <1>6 DEF CommitRejected
  <2> QED
    BY <1>6, <2>1, DropDelivers DEF CommitRejected
<1>7. CASE Commit(k)
  BY <1>7, CommitDelivers
<1>8. CASE SubmitJob(k)
  BY <1>8, SubmitDelivers
<1> QED
  BY <1>1, <1>2, <1>3, <1>4, <1>5, <1>6, <1>7, <1>8 DEF Serve

\* Every step of the service is a step of RasterDelivery.
LEMMA NextDelivers ==
    ASSUME IndInv, EndedInv, [Next]_vars
    PROVE  Delivers
<1>0. IndInv'
  BY NextInd
<1>1. ASSUME NEW k \in Conns, NEW r \in Request, Send(k, r) PROVE Delivers
  BY <1>1, StackKept, QuietDelivers DEF Send
<1>2. ASSUME NEW k \in Conns, Receive(k) PROVE Delivers
  BY <1>2, StackKept, QuietDelivers DEF Receive
<1>3. ASSUME NEW k \in Conns, Serve(k) PROVE Delivers
  BY <1>0, <1>3, ServeDelivers
<1>4. CASE JobStep
  BY <1>4, JobDelivers
<1>5. CASE WorkerStep
  BY <1>5, StackKept, QuietDelivers
  DEF WorkerStep, WorkerSetup, WorkerCheck, WorkerSend, WorkerFinish, WorkerFails, WorkerTo
<1>6. ASSUME NEW u \in Uploads, Age(u) PROVE Delivers
  BY <1>6, StackKept, QuietDelivers DEF Age
<1>7. CASE RemoveExpiredUploads
  BY <1>7, DropDelivers DEF RemoveExpiredUploads, IndInv, TypeOK
<1>8. CASE Terminate \/ OrphanExits
  BY <1>8, StackKept, QuietDelivers DEF Terminate, OrphanExits
<1>9. CASE Exit
  BY <1>9, DropDelivers DEF Exit
<1>10. CASE Crash
  BY <1>10, CrashDelivers
<1>11. CASE Restart
  BY <1>11, RestartDelivers
<1>12. CASE UNCHANGED vars
  BY <1>12, StackKept, QuietDelivers DEF vars
<1> QED
  BY <1>1, <1>2, <1>3, <1>4, <1>5, <1>6, <1>7, <1>8, <1>9, <1>10, <1>11, <1>12 DEF Next

\* The started service has no upload yet.
LEMMA InitDelivers == Init => EndedInv /\ Delivery!Init
<1> SUFFICES ASSUME Init PROVE EndedInv /\ Delivery!Init
  OBVIOUS
<1>1. \A u \in Uploads : PhaseOf(u) = "unborn" /\ ContentOf(u) = <<>>
  BY DEF Init, PhaseOf, ContentOf, Printing
<1> QED
  BY <1>1 DEF Init, EndedInv, Delivery!Init

\* Refinement: whatever clients ask for, whatever fails, expires, ends or is killed,
\* an upload goes through the phases of RasterDelivery and no other.
THEOREM Refinement == Spec => DeliversRasters
<1>1. Init => EndedInv /\ Delivery!Init
  BY InitDelivers
<1>2. IndInv /\ EndedInv /\ [Next]_vars => EndedInv' /\ [Delivery!Next]_(Delivery!deliveryVars)
  BY NextDelivers DEF Delivers
<1> QED
  BY <1>1, <1>2, Invariance, PTL DEF Spec, DeliversRasters, Delivery!Spec

-----------------------------------------------------------------------------
(* Outcomes.                                                                *)

\* No step takes a reported outcome back or revives its raster.
LEMMA NextKeepsOutcomes ==
    ASSUME IndInv, EndedInv, [Next]_vars
    PROVE  OutcomeStays
<1>1. ASSUME UNCHANGED outcome, final' \subseteq final PROVE OutcomeStays
  BY <1>1 DEF OutcomeStays
<1>2. ASSUME NEW ok, NEW why, Return(ok, why), stack /= <<>> PROVE OutcomeStays
  <2>1. Top.kind = "spooled" => Top.upload \in Uploads /\ outcome[Top.upload] = "none"
    BY <1>2, SpooledTop, PrintingIsInnermost DEF IndInv, TypeOK, PrintsNow, EndedInv
  <2> QED
    BY <1>2, <2>1 DEF Return, RemoveFinal, OutcomeStays, IndInv, TypeOK
<1>3. ASSUME NEW k \in Conns, Commit(k) PROVE OutcomeStays
  <2>1. conn[k].req.upload \in table /\ UNCHANGED outcome
        /\ final' = final \cup {conn[k].req.upload}
    BY <1>3 DEF Commit
  <2> QED
    BY <2>1 DEF OutcomeStays, EndedInv
<1>4. ASSUME NEW k \in Conns, Serve(k), ~Commit(k) PROVE OutcomeStays
  BY <1>1, <1>4
  DEF Serve, Ping, Refuse, Controller, AbortPrint, BeginRefused, BeginRasterUpload,
      AppendRefused, AppendRasterChunk, AppendFails, CancelRasterUpload, CommitUnknown,
      CommitRejected, SubmitJobUndecoded, SubmitJob, Shutdown, RemovePartials
<1>5. CASE JobStep
  <2>1. stack /= <<>>
    BY <1>5 DEF JobStep, Launch, LaunchFails, WorkerDone, SetUpJob, CheckLine, CancelJob,
           LeaveEvents, SendLine, FinishJob, JobFails, InJob
  <2>2. CASE LaunchFails \/ WorkerDone \/ CancelJob \/ FinishJob \/ JobFails
    BY <1>2, <2>1, <2>2 DEF LaunchFails, WorkerDone, CancelJob, FinishJob, JobFails
  <2>3. CASE Launch \/ SetUpJob \/ CheckLine \/ LeaveEvents \/ SendLine
    BY <1>1, <2>3 DEF Launch, SetUpJob, CheckLine, LeaveEvents, SendLine, Resume
  <2> QED
    BY <1>5, <2>2, <2>3 DEF JobStep
<1>6. CASE WorkerStep
  BY <1>1, <1>6 DEF WorkerStep, WorkerSetup, WorkerCheck, WorkerSend, WorkerFinish,
                    WorkerFails, WorkerTo
<1>7. ASSUME NEW k \in Conns, Receive(k) \/ \E r \in Request : Send(k, r)
      PROVE  OutcomeStays
  BY <1>1, <1>7 DEF Receive, Send
<1>8. CASE \/ \E u \in Uploads : Age(u)
           \/ RemoveExpiredUploads \/ Terminate \/ Exit \/ Crash \/ Restart \/ OrphanExits
           \/ UNCHANGED vars
  BY <1>1, <1>8 DEF Age, RemoveExpiredUploads, RemovePartials, Terminate, Exit, Crash,
                    Restart, OrphanExits, vars
<1> QED
  BY <1>3, <1>4, <1>5, <1>6, <1>7, <1>8 DEF Next

\* What a job ended with is decided once, also across restarts, repeated commits and
\* ids that clients make up.
THEOREM OutcomesAreFinal == Spec => OutcomeIsFinal
<1>1. Init => EndedInv
  BY InitDelivers
<1>2. IndInv /\ EndedInv /\ [Next]_vars => EndedInv' /\ OutcomeStays
  BY NextDelivers, NextKeepsOutcomes DEF Delivers
<1> QED
  BY <1>1, <1>2, Invariance, PTL DEF Spec, OutcomeIsFinal

=============================================================================
