-------------------------- MODULE RasterJobProofs --------------------------
(* The output path before the screen: the runs of a pipeline object, for    *)
(* any number of runs started on it, and the tones of a pixel, for tones of *)
(* any width, any pixel and any setting of a page.                          *)
EXTENDS RasterJob, ToneChannels, SequenceTheorems, TLAPS

JSpec == JInit /\ [][JNext]_jvars

Stages == Ended \union Watched \union {"memorySealed", "sealed", "output", "clean"}
FileKinds == {"partial", "canonical", "spool"}

\* The types of what the invariants below speak of.
JTypeOK ==
    /\ pipeline \in {"x33", "multi"}
    /\ stage \in [Runs -> Stages] /\ ok \in [Runs -> BOOLEAN]
    /\ from \in [Runs -> SUBSET Runs]
    /\ image \subseteq Runs /\ setup \subseteq Runs
    /\ files \subseteq Runs \X FileKinds
    /\ cancel \in BOOLEAN /\ asked \subseteq Runs /\ mingled \subseteq Runs

\* Only a run that has delivered its spool succeeds.
OkInv == \A r \in Runs : ok[r] => stage[r] \in {"clean", "told"}

\* While a request is remembered the flag is up, and the runs it reached are
\* on their way to the end or have ended, none of them with success.
AskedInv ==
    /\ asked # {} => cancel
    /\ \A r \in asked : stage[r] \in Watched \union {"clean", "told", "lost"} /\ ~ok[r]

\* What a run may have in the scratch directory, stage by stage.
Allowed ==
    [s \in Stages |->
        CASE s \in {"memoryFinal", "memorySealed"} -> {"partial"}
          [] s \in {"plate", "writer"} -> {"canonical"}
          [] s \in {"screen", "final", "sealed"} -> {"canonical", "partial"}
          [] s \in {"output", "clean"} -> {"spool"}
          [] OTHER -> {}]
ScratchInv == \A f \in files : f[2] \in Allowed[stage[f[1]]]

\* A run that was never under way together with another is alone; from then on
\* the picture, the settings and the spool are its own.
Started(r) == stage[r] \notin Ended
AloneInv ==
    \A r, q \in Runs : r # q /\ Started(r) /\ Started(q) => r \in mingled
OwnInv ==
    \A r \in Runs \ mingled :
        /\ stage[r] \in UsesImage => image = {r}
        /\ stage[r] \in UsesSettings => setup = {r}
        /\ stage[r] \in {"memoryWriter", "memoryFinal", "memorySealed", "plate", "writer",
                          "screen", "final", "sealed", "output"} \/ ok[r] => from[r] = {r}
\* Such a run has not passed the stage that loads the plate if it has none.
PlateInv ==
    \A r \in Runs \ mingled : PlateRefused(r) =>
        /\ stage[r] \notin {"memoryWriter", "memoryFinal", "memorySealed", "writer", "screen",
                             "final", "sealed", "output"}
        /\ ~ok[r]

JInv ==
    /\ JTypeOK /\ OkInv /\ AskedInv /\ ScratchInv
    /\ AloneInv /\ OwnInv /\ PlateInv

-----------------------------------------------------------------------------
LEMMA InitialRuns == JInit => JInv
  BY DEF JInit, JInv, JTypeOK, OkInv, AskedInv, ScratchInv, AloneInv, OwnInv, PlateInv,
      Started, Stages, Ended, Watched, UsesImage, UsesSettings, FileKinds

\* Types.
LEMMA TypesKept ==
    ASSUME JInv, JNext
    PROVE  JTypeOK'
<1> USE DEF JInv, JTypeOK, Stages, Ended, Watched, FileKinds, Scratch, Active
<1>1. CASE AskCancel
  BY <1>1 DEF AskCancel, jobOnly
<1>2. ASSUME NEW r \in Runs, RunPRNGeneration(r) PROVE JTypeOK'
  BY <1>2 DEF RunPRNGeneration, Begin, jobOnly
<1>3. ASSUME NEW r \in Runs, RunDirectPrint(r) PROVE JTypeOK'
  BY <1>3 DEF RunDirectPrint, Begin, jobOnly
<1>4. ASSUME NEW r \in Runs, PrepareX33(r) PROVE JTypeOK'
  BY <1>4 DEF PrepareX33, Overwrite, Keep, Go, jobOnly
<1>5. ASSUME NEW r \in Runs, PrepareMulti(r) PROVE JTypeOK'
  BY <1>5 DEF PrepareMulti, AssetsOrEnd, Overwrite, Keep, Go, jobOnly
<1>6. ASSUME NEW r \in Runs, Load(r) PROVE JTypeOK'
  BY <1>6 DEF Load, Keep, Go, jobOnly
<1>7. ASSUME NEW r \in Runs, ConvertX33(r) PROVE JTypeOK'
  BY <1>7 DEF ConvertX33, Keep, Go, jobOnly
<1>8. ASSUME NEW r \in Runs, ConvertMulti(r) PROVE JTypeOK'
  BY <1>8 DEF ConvertMulti, Keep, Go, jobOnly
<1>9. ASSUME NEW r \in Runs, Build(r) PROVE JTypeOK'
  BY <1>9 DEF Build, Keep, Go, jobOnly
<1>10. ASSUME NEW r \in Runs, MemoryScreenX33(r) PROVE JTypeOK'
  BY <1>10 DEF MemoryScreenX33, PlatePasses, FallBack, FrameScreened, Keep, Go, jobOnly
<1>11. ASSUME NEW r \in Runs, MemoryScreenMulti(r) PROVE JTypeOK'
  BY <1>11 DEF MemoryScreenMulti, FallBack, FrameScreened, Keep, Go, jobOnly
<1>12. ASSUME NEW r \in Runs, MemoryWrite(r) PROVE JTypeOK'
  BY <1>12 DEF MemoryWrite, FallBack, Keep, Go, jobOnly
<1>13. ASSUME NEW r \in Runs, MemoryFinalize(r) PROVE JTypeOK'
  BY <1>13 DEF MemoryFinalize, FallBack, PublishSpool, Keep, Go, jobOnly
<1>23. ASSUME NEW r \in Runs, MemoryChecksum(r) PROVE JTypeOK'
  BY <1>23 DEF MemoryChecksum, FallBack, Hashed, Keep, Go, jobOnly
<1>24. ASSUME NEW r \in Runs, ChecksumSpool(r) PROVE JTypeOK'
  BY <1>24 DEF ChecksumSpool, Fail, Hashed, Keep, Go, jobOnly
<1>14. ASSUME NEW r \in Runs, CreateCanonical(r) PROVE JTypeOK'
  BY <1>14 DEF CreateCanonical, Fail, Keep, Go, jobOnly
<1>15. ASSUME NEW r \in Runs, LoadPlate(r) PROVE JTypeOK'
  BY <1>15 DEF LoadPlate, PlatePasses, Fail, Keep, Go, jobOnly
<1>16. ASSUME NEW r \in Runs, OpenSpool(r) PROVE JTypeOK'
  BY <1>16 DEF OpenSpool, Fail, Keep, Go, jobOnly
<1>17. ASSUME NEW r \in Runs, ScreenX33(r) PROVE JTypeOK'
  BY <1>17 DEF ScreenX33, Fail, Screened, Keep, Go, jobOnly
<1>18. ASSUME NEW r \in Runs, ScreenMulti(r) PROVE JTypeOK'
  BY <1>18 DEF ScreenMulti, Fail, Screened, Keep, Go, jobOnly
<1>19. ASSUME NEW r \in Runs, FinalizeSpool(r) PROVE JTypeOK'
  BY <1>19 DEF FinalizeSpool, Fail, PublishSpool, Keep, Go, jobOnly
<1>20. ASSUME NEW r \in Runs, WritePRNFile(r) PROVE JTypeOK'
  BY <1>20 DEF WritePRNFile, Outcome, Keep, Go, jobOnly
<1>21. ASSUME NEW r \in Runs, SendDirectPrint(r) PROVE JTypeOK'
  BY <1>21 DEF SendDirectPrint, Outcome, Keep, Go, jobOnly
<1>22. ASSUME NEW r \in Runs, Report(r) PROVE JTypeOK'
  BY <1>22 DEF Report, Go, jobOnly
<1> QED
  BY <1>1, <1>2, <1>3, <1>4, <1>5, <1>6, <1>7, <1>8, <1>9, <1>10, <1>11, <1>12, <1>13, <1>14, <1>15, <1>16, <1>17, <1>18, <1>19, <1>20, <1>21, <1>22, <1>23, <1>24 DEF JNext

\* Success is decided after the spool was delivered.
LEMMA OkKept ==
    ASSUME JInv, JNext
    PROVE  OkInv'
<1> USE DEF JInv, JTypeOK, OkInv, Stages, Ended, Watched, Scratch
<1>1. CASE AskCancel
  BY <1>1 DEF AskCancel, jobOnly
<1>2. ASSUME NEW r \in Runs, RunPRNGeneration(r) PROVE OkInv'
  BY <1>2 DEF RunPRNGeneration, Begin, jobOnly
<1>3. ASSUME NEW r \in Runs, RunDirectPrint(r) PROVE OkInv'
  BY <1>3 DEF RunDirectPrint, Begin, jobOnly
<1>4. ASSUME NEW r \in Runs, PrepareX33(r) PROVE OkInv'
  BY <1>4 DEF PrepareX33, Overwrite, Keep, Go, jobOnly
<1>5. ASSUME NEW r \in Runs, PrepareMulti(r) PROVE OkInv'
  BY <1>5 DEF PrepareMulti, AssetsOrEnd, Overwrite, Keep, Go, jobOnly
<1>6. ASSUME NEW r \in Runs, Load(r) PROVE OkInv'
  BY <1>6 DEF Load, Keep, Go, jobOnly
<1>7. ASSUME NEW r \in Runs, ConvertX33(r) PROVE OkInv'
  BY <1>7 DEF ConvertX33, Keep, Go, jobOnly
<1>8. ASSUME NEW r \in Runs, ConvertMulti(r) PROVE OkInv'
  BY <1>8 DEF ConvertMulti, Keep, Go, jobOnly
<1>9. ASSUME NEW r \in Runs, Build(r) PROVE OkInv'
  BY <1>9 DEF Build, Keep, Go, jobOnly
<1>10. ASSUME NEW r \in Runs, MemoryScreenX33(r) PROVE OkInv'
  BY <1>10 DEF MemoryScreenX33, PlatePasses, FallBack, FrameScreened, Keep, Go, jobOnly
<1>11. ASSUME NEW r \in Runs, MemoryScreenMulti(r) PROVE OkInv'
  BY <1>11 DEF MemoryScreenMulti, FallBack, FrameScreened, Keep, Go, jobOnly
<1>12. ASSUME NEW r \in Runs, MemoryWrite(r) PROVE OkInv'
  BY <1>12 DEF MemoryWrite, FallBack, Keep, Go, jobOnly
<1>13. ASSUME NEW r \in Runs, MemoryFinalize(r) PROVE OkInv'
  BY <1>13 DEF MemoryFinalize, FallBack, PublishSpool, Keep, Go, jobOnly
<1>23. ASSUME NEW r \in Runs, MemoryChecksum(r) PROVE OkInv'
  BY <1>23 DEF MemoryChecksum, FallBack, Hashed, Keep, Go, jobOnly
<1>24. ASSUME NEW r \in Runs, ChecksumSpool(r) PROVE OkInv'
  BY <1>24 DEF ChecksumSpool, Fail, Hashed, Keep, Go, jobOnly
<1>14. ASSUME NEW r \in Runs, CreateCanonical(r) PROVE OkInv'
  BY <1>14 DEF CreateCanonical, Fail, Keep, Go, jobOnly
<1>15. ASSUME NEW r \in Runs, LoadPlate(r) PROVE OkInv'
  BY <1>15 DEF LoadPlate, PlatePasses, Fail, Keep, Go, jobOnly
<1>16. ASSUME NEW r \in Runs, OpenSpool(r) PROVE OkInv'
  BY <1>16 DEF OpenSpool, Fail, Keep, Go, jobOnly
<1>17. ASSUME NEW r \in Runs, ScreenX33(r) PROVE OkInv'
  BY <1>17 DEF ScreenX33, Fail, Screened, Keep, Go, jobOnly
<1>18. ASSUME NEW r \in Runs, ScreenMulti(r) PROVE OkInv'
  BY <1>18 DEF ScreenMulti, Fail, Screened, Keep, Go, jobOnly
<1>19. ASSUME NEW r \in Runs, FinalizeSpool(r) PROVE OkInv'
  BY <1>19 DEF FinalizeSpool, Fail, PublishSpool, Keep, Go, jobOnly
<1>20. ASSUME NEW r \in Runs, WritePRNFile(r) PROVE OkInv'
  BY <1>20 DEF WritePRNFile, Outcome, Keep, Go, jobOnly
<1>21. ASSUME NEW r \in Runs, SendDirectPrint(r) PROVE OkInv'
  BY <1>21 DEF SendDirectPrint, Outcome, Keep, Go, jobOnly
<1>22. ASSUME NEW r \in Runs, Report(r) PROVE OkInv'
  BY <1>22 DEF Report, Go, jobOnly
<1> QED
  BY <1>1, <1>2, <1>3, <1>4, <1>5, <1>6, <1>7, <1>8, <1>9, <1>10, <1>11, <1>12, <1>13, <1>14, <1>15, <1>16, <1>17, <1>18, <1>19, <1>20, <1>21, <1>22, <1>23, <1>24 DEF JNext

\* A request stands until a run is started; a run it reached cannot publish.
LEMMA AskedKept ==
    ASSUME JInv, JNext
    PROVE  AskedInv'
<1> USE DEF JInv, JTypeOK, OkInv, AskedInv, Stages, Ended, Watched, Scratch
<1>1. CASE AskCancel
  BY <1>1 DEF AskCancel, jobOnly
<1>2. ASSUME NEW r \in Runs, RunPRNGeneration(r) PROVE AskedInv'
  BY <1>2 DEF RunPRNGeneration, Begin, jobOnly
<1>3. ASSUME NEW r \in Runs, RunDirectPrint(r) PROVE AskedInv'
  BY <1>3 DEF RunDirectPrint, Begin, jobOnly
<1>4. ASSUME NEW r \in Runs, PrepareX33(r) PROVE AskedInv'
  BY <1>4 DEF PrepareX33, Overwrite, Keep, Go, jobOnly
<1>5. ASSUME NEW r \in Runs, PrepareMulti(r) PROVE AskedInv'
  BY <1>5 DEF PrepareMulti, AssetsOrEnd, Overwrite, Keep, Go, jobOnly
<1>6. ASSUME NEW r \in Runs, Load(r) PROVE AskedInv'
  BY <1>6 DEF Load, Keep, Go, jobOnly
<1>7. ASSUME NEW r \in Runs, ConvertX33(r) PROVE AskedInv'
  BY <1>7 DEF ConvertX33, Keep, Go, jobOnly
<1>8. ASSUME NEW r \in Runs, ConvertMulti(r) PROVE AskedInv'
  BY <1>8 DEF ConvertMulti, Keep, Go, jobOnly
<1>9. ASSUME NEW r \in Runs, Build(r) PROVE AskedInv'
  BY <1>9 DEF Build, Keep, Go, jobOnly
<1>10. ASSUME NEW r \in Runs, MemoryScreenX33(r) PROVE AskedInv'
  BY <1>10 DEF MemoryScreenX33, PlatePasses, FallBack, FrameScreened, Keep, Go, jobOnly
<1>11. ASSUME NEW r \in Runs, MemoryScreenMulti(r) PROVE AskedInv'
  BY <1>11 DEF MemoryScreenMulti, FallBack, FrameScreened, Keep, Go, jobOnly
<1>12. ASSUME NEW r \in Runs, MemoryWrite(r) PROVE AskedInv'
  BY <1>12 DEF MemoryWrite, FallBack, Keep, Go, jobOnly
<1>13. ASSUME NEW r \in Runs, MemoryFinalize(r) PROVE AskedInv'
  BY <1>13 DEF MemoryFinalize, FallBack, PublishSpool, Keep, Go, jobOnly
<1>23. ASSUME NEW r \in Runs, MemoryChecksum(r) PROVE AskedInv'
  BY <1>23 DEF MemoryChecksum, FallBack, Hashed, Keep, Go, jobOnly
<1>24. ASSUME NEW r \in Runs, ChecksumSpool(r) PROVE AskedInv'
  BY <1>24 DEF ChecksumSpool, Fail, Hashed, Keep, Go, jobOnly
<1>14. ASSUME NEW r \in Runs, CreateCanonical(r) PROVE AskedInv'
  BY <1>14 DEF CreateCanonical, Fail, Keep, Go, jobOnly
<1>15. ASSUME NEW r \in Runs, LoadPlate(r) PROVE AskedInv'
  BY <1>15 DEF LoadPlate, PlatePasses, Fail, Keep, Go, jobOnly
<1>16. ASSUME NEW r \in Runs, OpenSpool(r) PROVE AskedInv'
  BY <1>16 DEF OpenSpool, Fail, Keep, Go, jobOnly
<1>17. ASSUME NEW r \in Runs, ScreenX33(r) PROVE AskedInv'
  BY <1>17 DEF ScreenX33, Fail, Screened, Keep, Go, jobOnly
<1>18. ASSUME NEW r \in Runs, ScreenMulti(r) PROVE AskedInv'
  BY <1>18 DEF ScreenMulti, Fail, Screened, Keep, Go, jobOnly
<1>19. ASSUME NEW r \in Runs, FinalizeSpool(r) PROVE AskedInv'
  BY <1>19 DEF FinalizeSpool, Fail, PublishSpool, Keep, Go, jobOnly
<1>20. ASSUME NEW r \in Runs, WritePRNFile(r) PROVE AskedInv'
  BY <1>20 DEF WritePRNFile, Outcome, Keep, Go, jobOnly
<1>21. ASSUME NEW r \in Runs, SendDirectPrint(r) PROVE AskedInv'
  BY <1>21 DEF SendDirectPrint, Outcome, Keep, Go, jobOnly
<1>22. ASSUME NEW r \in Runs, Report(r) PROVE AskedInv'
  BY <1>22 DEF Report, Go, jobOnly
<1> QED
  BY <1>1, <1>2, <1>3, <1>4, <1>5, <1>6, <1>7, <1>8, <1>9, <1>10, <1>11, <1>12, <1>13, <1>14, <1>15, <1>16, <1>17, <1>18, <1>19, <1>20, <1>21, <1>22, <1>23, <1>24 DEF JNext

\* Every way out of a stage takes along the files the next one does not allow.
LEMMA ScratchKept ==
    ASSUME JInv, JNext
    PROVE  ScratchInv'
<1> USE DEF JInv, JTypeOK, ScratchInv, Stages, Ended, Watched, FileKinds, Scratch, Allowed
<1>1. CASE AskCancel
  BY <1>1 DEF AskCancel, jobOnly
<1>2. ASSUME NEW r \in Runs, RunPRNGeneration(r) PROVE ScratchInv'
  BY <1>2 DEF RunPRNGeneration, Begin, jobOnly
<1>3. ASSUME NEW r \in Runs, RunDirectPrint(r) PROVE ScratchInv'
  BY <1>3 DEF RunDirectPrint, Begin, jobOnly
<1>4. ASSUME NEW r \in Runs, PrepareX33(r) PROVE ScratchInv'
  BY <1>4 DEF PrepareX33, Overwrite, Keep, Go, jobOnly
<1>5. ASSUME NEW r \in Runs, PrepareMulti(r) PROVE ScratchInv'
  BY <1>5 DEF PrepareMulti, AssetsOrEnd, Overwrite, Keep, Go, jobOnly
<1>6. ASSUME NEW r \in Runs, Load(r) PROVE ScratchInv'
  BY <1>6 DEF Load, Keep, Go, jobOnly
<1>7. ASSUME NEW r \in Runs, ConvertX33(r) PROVE ScratchInv'
  BY <1>7 DEF ConvertX33, Keep, Go, jobOnly
<1>8. ASSUME NEW r \in Runs, ConvertMulti(r) PROVE ScratchInv'
  BY <1>8 DEF ConvertMulti, Keep, Go, jobOnly
<1>9. ASSUME NEW r \in Runs, Build(r) PROVE ScratchInv'
  BY <1>9 DEF Build, Keep, Go, jobOnly
<1>10. ASSUME NEW r \in Runs, MemoryScreenX33(r) PROVE ScratchInv'
  BY <1>10 DEF MemoryScreenX33, PlatePasses, FallBack, FrameScreened, Keep, Go, jobOnly
<1>11. ASSUME NEW r \in Runs, MemoryScreenMulti(r) PROVE ScratchInv'
  BY <1>11 DEF MemoryScreenMulti, FallBack, FrameScreened, Keep, Go, jobOnly
<1>12. ASSUME NEW r \in Runs, MemoryWrite(r) PROVE ScratchInv'
  BY <1>12 DEF MemoryWrite, FallBack, Keep, Go, jobOnly
<1>13. ASSUME NEW r \in Runs, MemoryFinalize(r) PROVE ScratchInv'
  BY <1>13 DEF MemoryFinalize, FallBack, PublishSpool, Keep, Go, jobOnly
<1>23. ASSUME NEW r \in Runs, MemoryChecksum(r) PROVE ScratchInv'
  BY <1>23 DEF MemoryChecksum, FallBack, Hashed, Keep, Go, jobOnly
<1>24. ASSUME NEW r \in Runs, ChecksumSpool(r) PROVE ScratchInv'
  BY <1>24 DEF ChecksumSpool, Fail, Hashed, Keep, Go, jobOnly
<1>14. ASSUME NEW r \in Runs, CreateCanonical(r) PROVE ScratchInv'
  BY <1>14 DEF CreateCanonical, Fail, Keep, Go, jobOnly
<1>15. ASSUME NEW r \in Runs, LoadPlate(r) PROVE ScratchInv'
  BY <1>15 DEF LoadPlate, PlatePasses, Fail, Keep, Go, jobOnly
<1>16. ASSUME NEW r \in Runs, OpenSpool(r) PROVE ScratchInv'
  BY <1>16 DEF OpenSpool, Fail, Keep, Go, jobOnly
<1>17. ASSUME NEW r \in Runs, ScreenX33(r) PROVE ScratchInv'
  BY <1>17 DEF ScreenX33, Fail, Screened, Keep, Go, jobOnly
<1>18. ASSUME NEW r \in Runs, ScreenMulti(r) PROVE ScratchInv'
  BY <1>18 DEF ScreenMulti, Fail, Screened, Keep, Go, jobOnly
<1>19. ASSUME NEW r \in Runs, FinalizeSpool(r) PROVE ScratchInv'
  BY <1>19 DEF FinalizeSpool, Fail, PublishSpool, Keep, Go, jobOnly
<1>20. ASSUME NEW r \in Runs, WritePRNFile(r) PROVE ScratchInv'
  BY <1>20 DEF WritePRNFile, Outcome, Keep, Go, jobOnly
<1>21. ASSUME NEW r \in Runs, SendDirectPrint(r) PROVE ScratchInv'
  BY <1>21 DEF SendDirectPrint, Outcome, Keep, Go, jobOnly
<1>22. ASSUME NEW r \in Runs, Report(r) PROVE ScratchInv'
  BY <1>22 DEF Report, Go, jobOnly
<1> QED
  BY <1>1, <1>2, <1>3, <1>4, <1>5, <1>6, <1>7, <1>8, <1>9, <1>10, <1>11, <1>12, <1>13, <1>14, <1>15, <1>16, <1>17, <1>18, <1>19, <1>20, <1>21, <1>22, <1>23, <1>24 DEF JNext

\* Starting a run marks it and every run under way.
LEMMA AloneKept ==
    ASSUME JInv, JNext
    PROVE  AloneInv'
<1> USE DEF JInv, JTypeOK, AloneInv, Started, Stages, Ended, Watched, Scratch, Active
<1>1. CASE AskCancel
  BY <1>1 DEF AskCancel, jobOnly
<1>2. ASSUME NEW r \in Runs, RunPRNGeneration(r) PROVE AloneInv'
  BY <1>2 DEF RunPRNGeneration, Begin, jobOnly
<1>3. ASSUME NEW r \in Runs, RunDirectPrint(r) PROVE AloneInv'
  BY <1>3 DEF RunDirectPrint, Begin, jobOnly
<1>4. ASSUME NEW r \in Runs, PrepareX33(r) PROVE AloneInv'
  BY <1>4 DEF PrepareX33, Overwrite, Keep, Go, jobOnly
<1>5. ASSUME NEW r \in Runs, PrepareMulti(r) PROVE AloneInv'
  BY <1>5 DEF PrepareMulti, AssetsOrEnd, Overwrite, Keep, Go, jobOnly
<1>6. ASSUME NEW r \in Runs, Load(r) PROVE AloneInv'
  BY <1>6 DEF Load, Keep, Go, jobOnly
<1>7. ASSUME NEW r \in Runs, ConvertX33(r) PROVE AloneInv'
  BY <1>7 DEF ConvertX33, Keep, Go, jobOnly
<1>8. ASSUME NEW r \in Runs, ConvertMulti(r) PROVE AloneInv'
  BY <1>8 DEF ConvertMulti, Keep, Go, jobOnly
<1>9. ASSUME NEW r \in Runs, Build(r) PROVE AloneInv'
  BY <1>9 DEF Build, Keep, Go, jobOnly
<1>10. ASSUME NEW r \in Runs, MemoryScreenX33(r) PROVE AloneInv'
  BY <1>10 DEF MemoryScreenX33, PlatePasses, FallBack, FrameScreened, Keep, Go, jobOnly
<1>11. ASSUME NEW r \in Runs, MemoryScreenMulti(r) PROVE AloneInv'
  BY <1>11 DEF MemoryScreenMulti, FallBack, FrameScreened, Keep, Go, jobOnly
<1>12. ASSUME NEW r \in Runs, MemoryWrite(r) PROVE AloneInv'
  BY <1>12 DEF MemoryWrite, FallBack, Keep, Go, jobOnly
<1>13. ASSUME NEW r \in Runs, MemoryFinalize(r) PROVE AloneInv'
  BY <1>13 DEF MemoryFinalize, FallBack, PublishSpool, Keep, Go, jobOnly
<1>23. ASSUME NEW r \in Runs, MemoryChecksum(r) PROVE AloneInv'
  BY <1>23 DEF MemoryChecksum, FallBack, Hashed, Keep, Go, jobOnly
<1>24. ASSUME NEW r \in Runs, ChecksumSpool(r) PROVE AloneInv'
  BY <1>24 DEF ChecksumSpool, Fail, Hashed, Keep, Go, jobOnly
<1>14. ASSUME NEW r \in Runs, CreateCanonical(r) PROVE AloneInv'
  BY <1>14 DEF CreateCanonical, Fail, Keep, Go, jobOnly
<1>15. ASSUME NEW r \in Runs, LoadPlate(r) PROVE AloneInv'
  BY <1>15 DEF LoadPlate, PlatePasses, Fail, Keep, Go, jobOnly
<1>16. ASSUME NEW r \in Runs, OpenSpool(r) PROVE AloneInv'
  BY <1>16 DEF OpenSpool, Fail, Keep, Go, jobOnly
<1>17. ASSUME NEW r \in Runs, ScreenX33(r) PROVE AloneInv'
  BY <1>17 DEF ScreenX33, Fail, Screened, Keep, Go, jobOnly
<1>18. ASSUME NEW r \in Runs, ScreenMulti(r) PROVE AloneInv'
  BY <1>18 DEF ScreenMulti, Fail, Screened, Keep, Go, jobOnly
<1>19. ASSUME NEW r \in Runs, FinalizeSpool(r) PROVE AloneInv'
  BY <1>19 DEF FinalizeSpool, Fail, PublishSpool, Keep, Go, jobOnly
<1>20. ASSUME NEW r \in Runs, WritePRNFile(r) PROVE AloneInv'
  BY <1>20 DEF WritePRNFile, Outcome, Keep, Go, jobOnly
<1>21. ASSUME NEW r \in Runs, SendDirectPrint(r) PROVE AloneInv'
  BY <1>21 DEF SendDirectPrint, Outcome, Keep, Go, jobOnly
<1>22. ASSUME NEW r \in Runs, Report(r) PROVE AloneInv'
  BY <1>22 DEF Report, Go, jobOnly
<1> QED
  BY <1>1, <1>2, <1>3, <1>4, <1>5, <1>6, <1>7, <1>8, <1>9, <1>10, <1>11, <1>12, <1>13, <1>14, <1>15, <1>16, <1>17, <1>18, <1>19, <1>20, <1>21, <1>22, <1>23, <1>24 DEF JNext

\* Another run that moves is started, so a run under way with it is marked.
LEMMA OwnKept ==
    ASSUME JInv, JNext
    PROVE  OwnInv'
<1> USE DEF JInv, JTypeOK, OkInv, AloneInv, OwnInv, Started, Stages, Ended, Watched, UsesImage, UsesSettings, Scratch, Active
<1>1. CASE AskCancel
  BY <1>1 DEF AskCancel, jobOnly
<1>2. ASSUME NEW r \in Runs, RunPRNGeneration(r) PROVE OwnInv'
  BY <1>2 DEF RunPRNGeneration, Begin, jobOnly
<1>3. ASSUME NEW r \in Runs, RunDirectPrint(r) PROVE OwnInv'
  BY <1>3 DEF RunDirectPrint, Begin, jobOnly
<1>4. ASSUME NEW r \in Runs, PrepareX33(r) PROVE OwnInv'
  BY <1>4 DEF PrepareX33, Overwrite, Keep, Go, jobOnly
<1>5. ASSUME NEW r \in Runs, PrepareMulti(r) PROVE OwnInv'
  BY <1>5 DEF PrepareMulti, AssetsOrEnd, Overwrite, Keep, Go, jobOnly
<1>6. ASSUME NEW r \in Runs, Load(r) PROVE OwnInv'
  BY <1>6 DEF Load, Keep, Go, jobOnly
<1>7. ASSUME NEW r \in Runs, ConvertX33(r) PROVE OwnInv'
  BY <1>7 DEF ConvertX33, Keep, Go, jobOnly
<1>8. ASSUME NEW r \in Runs, ConvertMulti(r) PROVE OwnInv'
  BY <1>8 DEF ConvertMulti, Keep, Go, jobOnly
<1>9. ASSUME NEW r \in Runs, Build(r) PROVE OwnInv'
  BY <1>9 DEF Build, Keep, Go, jobOnly
<1>10. ASSUME NEW r \in Runs, MemoryScreenX33(r) PROVE OwnInv'
  BY <1>10 DEF MemoryScreenX33, PlatePasses, FallBack, FrameScreened, Keep, Go, jobOnly
<1>11. ASSUME NEW r \in Runs, MemoryScreenMulti(r) PROVE OwnInv'
  BY <1>11 DEF MemoryScreenMulti, FallBack, FrameScreened, Keep, Go, jobOnly
<1>12. ASSUME NEW r \in Runs, MemoryWrite(r) PROVE OwnInv'
  BY <1>12 DEF MemoryWrite, FallBack, Keep, Go, jobOnly
<1>13. ASSUME NEW r \in Runs, MemoryFinalize(r) PROVE OwnInv'
  BY <1>13 DEF MemoryFinalize, FallBack, PublishSpool, Keep, Go, jobOnly
<1>23. ASSUME NEW r \in Runs, MemoryChecksum(r) PROVE OwnInv'
  BY <1>23 DEF MemoryChecksum, FallBack, Hashed, Keep, Go, jobOnly
<1>24. ASSUME NEW r \in Runs, ChecksumSpool(r) PROVE OwnInv'
  BY <1>24 DEF ChecksumSpool, Fail, Hashed, Keep, Go, jobOnly
<1>14. ASSUME NEW r \in Runs, CreateCanonical(r) PROVE OwnInv'
  BY <1>14 DEF CreateCanonical, Fail, Keep, Go, jobOnly
<1>15. ASSUME NEW r \in Runs, LoadPlate(r) PROVE OwnInv'
  BY <1>15 DEF LoadPlate, PlatePasses, Fail, Keep, Go, jobOnly
<1>16. ASSUME NEW r \in Runs, OpenSpool(r) PROVE OwnInv'
  BY <1>16 DEF OpenSpool, Fail, Keep, Go, jobOnly
<1>17. ASSUME NEW r \in Runs, ScreenX33(r) PROVE OwnInv'
  BY <1>17 DEF ScreenX33, Fail, Screened, Keep, Go, jobOnly
<1>18. ASSUME NEW r \in Runs, ScreenMulti(r) PROVE OwnInv'
  BY <1>18 DEF ScreenMulti, Fail, Screened, Keep, Go, jobOnly
<1>19. ASSUME NEW r \in Runs, FinalizeSpool(r) PROVE OwnInv'
  BY <1>19 DEF FinalizeSpool, Fail, PublishSpool, Keep, Go, jobOnly
<1>20. ASSUME NEW r \in Runs, WritePRNFile(r) PROVE OwnInv'
  BY <1>20 DEF WritePRNFile, Outcome, Keep, Go, jobOnly
<1>21. ASSUME NEW r \in Runs, SendDirectPrint(r) PROVE OwnInv'
  BY <1>21 DEF SendDirectPrint, Outcome, Keep, Go, jobOnly
<1>22. ASSUME NEW r \in Runs, Report(r) PROVE OwnInv'
  BY <1>22 DEF Report, Go, jobOnly
<1> QED
  BY <1>1, <1>2, <1>3, <1>4, <1>5, <1>6, <1>7, <1>8, <1>9, <1>10, <1>11, <1>12, <1>13, <1>14, <1>15, <1>16, <1>17, <1>18, <1>19, <1>20, <1>21, <1>22, <1>23, <1>24 DEF JNext

\* Alone, an X-33 run reads its own settings and cannot pass the stage that loads
\* the plate.
LEMMA PlateKept ==
    ASSUME JInv, JNext
    PROVE  PlateInv'
<1> USE DEF JInv, JTypeOK, OkInv, OwnInv, PlateInv, PlateRefused, UsesSettings, Stages, Ended, Watched, Scratch
<1>1. CASE AskCancel
  BY <1>1 DEF AskCancel, jobOnly
<1>2. ASSUME NEW r \in Runs, RunPRNGeneration(r) PROVE PlateInv'
  BY <1>2 DEF RunPRNGeneration, Begin, jobOnly
<1>3. ASSUME NEW r \in Runs, RunDirectPrint(r) PROVE PlateInv'
  BY <1>3 DEF RunDirectPrint, Begin, jobOnly
<1>4. ASSUME NEW r \in Runs, PrepareX33(r) PROVE PlateInv'
  BY <1>4 DEF PrepareX33, Overwrite, Keep, Go, jobOnly
<1>5. ASSUME NEW r \in Runs, PrepareMulti(r) PROVE PlateInv'
  BY <1>5 DEF PrepareMulti, AssetsOrEnd, Overwrite, Keep, Go, jobOnly
<1>6. ASSUME NEW r \in Runs, Load(r) PROVE PlateInv'
  BY <1>6 DEF Load, Keep, Go, jobOnly
<1>7. ASSUME NEW r \in Runs, ConvertX33(r) PROVE PlateInv'
  BY <1>7 DEF ConvertX33, Keep, Go, jobOnly
<1>8. ASSUME NEW r \in Runs, ConvertMulti(r) PROVE PlateInv'
  BY <1>8 DEF ConvertMulti, Keep, Go, jobOnly
<1>9. ASSUME NEW r \in Runs, Build(r) PROVE PlateInv'
  BY <1>9 DEF Build, Keep, Go, jobOnly
<1>10. ASSUME NEW r \in Runs, MemoryScreenX33(r) PROVE PlateInv'
  BY <1>10 DEF MemoryScreenX33, PlatePasses, FallBack, FrameScreened, Keep, Go, jobOnly
<1>11. ASSUME NEW r \in Runs, MemoryScreenMulti(r) PROVE PlateInv'
  BY <1>11 DEF MemoryScreenMulti, FallBack, FrameScreened, Keep, Go, jobOnly
<1>12. ASSUME NEW r \in Runs, MemoryWrite(r) PROVE PlateInv'
  BY <1>12 DEF MemoryWrite, FallBack, Keep, Go, jobOnly
<1>13. ASSUME NEW r \in Runs, MemoryFinalize(r) PROVE PlateInv'
  BY <1>13 DEF MemoryFinalize, FallBack, PublishSpool, Keep, Go, jobOnly
<1>23. ASSUME NEW r \in Runs, MemoryChecksum(r) PROVE PlateInv'
  BY <1>23 DEF MemoryChecksum, FallBack, Hashed, Keep, Go, jobOnly
<1>24. ASSUME NEW r \in Runs, ChecksumSpool(r) PROVE PlateInv'
  BY <1>24 DEF ChecksumSpool, Fail, Hashed, Keep, Go, jobOnly
<1>14. ASSUME NEW r \in Runs, CreateCanonical(r) PROVE PlateInv'
  BY <1>14 DEF CreateCanonical, Fail, Keep, Go, jobOnly
<1>15. ASSUME NEW r \in Runs, LoadPlate(r) PROVE PlateInv'
  BY <1>15 DEF LoadPlate, PlatePasses, Fail, Keep, Go, jobOnly
<1>16. ASSUME NEW r \in Runs, OpenSpool(r) PROVE PlateInv'
  BY <1>16 DEF OpenSpool, Fail, Keep, Go, jobOnly
<1>17. ASSUME NEW r \in Runs, ScreenX33(r) PROVE PlateInv'
  BY <1>17 DEF ScreenX33, Fail, Screened, Keep, Go, jobOnly
<1>18. ASSUME NEW r \in Runs, ScreenMulti(r) PROVE PlateInv'
  BY <1>18 DEF ScreenMulti, Fail, Screened, Keep, Go, jobOnly
<1>19. ASSUME NEW r \in Runs, FinalizeSpool(r) PROVE PlateInv'
  BY <1>19 DEF FinalizeSpool, Fail, PublishSpool, Keep, Go, jobOnly
<1>20. ASSUME NEW r \in Runs, WritePRNFile(r) PROVE PlateInv'
  BY <1>20 DEF WritePRNFile, Outcome, Keep, Go, jobOnly
<1>21. ASSUME NEW r \in Runs, SendDirectPrint(r) PROVE PlateInv'
  BY <1>21 DEF SendDirectPrint, Outcome, Keep, Go, jobOnly
<1>22. ASSUME NEW r \in Runs, Report(r) PROVE PlateInv'
  BY <1>22 DEF Report, Go, jobOnly
<1> QED
  BY <1>1, <1>2, <1>3, <1>4, <1>5, <1>6, <1>7, <1>8, <1>9, <1>10, <1>11, <1>12, <1>13, <1>14, <1>15, <1>16, <1>17, <1>18, <1>19, <1>20, <1>21, <1>22, <1>23, <1>24 DEF JNext

LEMMA RunsStutter == JInv /\ UNCHANGED jvars => JInv'
  BY DEF JInv, JTypeOK, OkInv, AskedInv, ScratchInv, AloneInv, OwnInv, PlateInv, jvars,
      jobOnly, Started, PlateRefused, UsesImage, UsesSettings, Allowed

\* Together: for any set of runs the invariant holds in every reachable state.
THEOREM RunsInvariant == JSpec => []JInv
<1>1. JInv /\ [JNext]_jvars => JInv'
  BY TypesKept, OkKept, AskedKept, ScratchKept, AloneKept, OwnKept, PlateKept,
     RunsStutter DEF JInv
<1> QED
  BY <1>1, InitialRuns, PTL DEF JSpec

\* However many runs are started, cancelled and restarted on one object, a run that
\* was cancelled before the last look of its checksum, and whose cancel no later run
\* took back, never reaches the output and never succeeds.
THEOREM CancelIsHonoured == JSpec => []CancelHonoured
<1>1. JInv => CancelHonoured
  BY DEF JInv, JTypeOK, AskedInv, CancelHonoured, Watched
<1> QED
  BY <1>1, RunsInvariant, PTL

\* No run that has ended left a file, and a published spool stands alone.
THEOREM ScratchIsClean == JSpec => []NothingLeftInScratch
<1>1. ASSUME JInv PROVE NothingLeftInScratch
  <2>1. ASSUME NEW r \in Runs, stage[r] \in Ended PROVE Scratch(r) = {}
    BY <1>1, <2>1 DEF JInv, JTypeOK, ScratchInv, Scratch, Allowed, Stages, Ended, Watched,
        FileKinds
  <2>2. ASSUME NEW r \in Runs, <<r, "spool">> \in files
        PROVE  Scratch(r) = {<<r, "spool">>}
    <3>1. "spool" \in Allowed[stage[r]] /\ stage[r] \in Stages
      BY <1>1, <2>2 DEF JInv, JTypeOK, ScratchInv
    <3>2. stage[r] \in {"output", "clean"}
      BY <3>1 DEF Allowed, Stages, Ended, Watched
    <3>3. Allowed[stage[r]] = {"spool"}
      BY <3>1, <3>2 DEF Allowed
    <3>4. ASSUME NEW f \in Scratch(r) PROVE f = <<r, "spool">>
      BY <1>1, <3>3, <3>4 DEF JInv, JTypeOK, ScratchInv, Scratch
    <3> QED
      BY <2>2, <3>4 DEF Scratch
  <2> QED
    BY <2>1, <2>2 DEF NothingLeftInScratch
<1> QED
  BY <1>1, RunsInvariant, PTL

\* A run that no other run overlapped and that succeeded printed its own picture with
\* its own settings, and on the X-33 with the white plate it asks for.
THEOREM PictureIsOwn == JSpec => []OwnPicture
<1>1. JInv => OwnPicture
  BY DEF JInv, OwnInv, PlateInv, OwnPicture
<1> QED
  BY <1>1, RunsInvariant, PTL

-----------------------------------------------------------------------------
(* -------- the tones of a pixel ------------------------------------------ *)
\* Products of bounded numbers.
LEMMA ProductGrows ==
    ASSUME NEW a \in Nat, NEW b \in Nat, NEW c \in Nat, a <= b
    PROVE  a * c <= b * c /\ a * c \in Nat /\ b * c \in Nat /\ a * c = c * a /\ b * c = c * b
<1>1. PICK k \in Nat : b = a + k
  <2>1. b - a \in Nat /\ b = a + (b - a)
    OBVIOUS
  <2> QED
    BY <2>1
<1>2. b * c = a * c + k * c
  BY <1>1
<1>3. k * c >= 0 /\ a * c \in Nat /\ b * c \in Nat
  OBVIOUS
<1> QED
  BY <1>2, <1>3

\* A quotient is below what its divisor times one more exceeds.
LEMMA QuotientBelow ==
    ASSUME NEW a \in Nat, NEW m \in Nat \ {0}, NEW q \in Nat, a < m * (q + 1)
    PROVE  a \div m \in Nat /\ a \div m <= q
<1>1. PICK d \in Int : d = a \div m
  OBVIOUS
<1>2. a = m * d + (a % m) /\ a % m >= 0 /\ a % m < m
  BY <1>1
<1>3. d >= 0
  <2>1. SUFFICES ASSUME d <= -1 PROVE FALSE
    BY <1>1
  <2>2. PICK e \in Nat : d = -1 - e
    <3>1. -1 - d \in Nat /\ d = -1 - (-1 - d)
      BY <2>1
    <3> QED
      BY <3>1
  <2>3. m * d = -m - m * e /\ m * e >= 0
    BY <2>2
  <2> QED
    BY <1>2, <2>3
<1>4. d <= q
  <2>1. SUFFICES ASSUME d >= q + 1 PROVE FALSE
    BY <1>1
  <2>2. (q + 1) * m <= d * m
    BY <1>1, <1>3, <2>1, ProductGrows
  <2>3. m * d = d * m /\ m * (q + 1) = (q + 1) * m
    OBVIOUS
  <2> QED
    BY <1>2, <2>2, <2>3
<1> QED
  BY <1>1, <1>3, <1>4

\* The alpha of a source makes no tone darker than the darkest.
LEMMA AlphaInRange ==
    ASSUME NEW tone \in Tones, NEW alpha \in Tones PROVE ApplyAlpha(tone, alpha) \in Tones
<1>1. PICK m \in Nat \ {0} : m = MaxTone
  BY ToneAssumption
<1>2. PICK h \in Nat : h = m \div 2 /\ h < m
  OBVIOUS
<1>3. tone \in Nat /\ alpha \in Nat /\ tone <= m /\ alpha <= m
  BY <1>1 DEF Tones
<1>4. tone * alpha <= m * alpha /\ alpha * m <= m * m /\ m * alpha = alpha * m
      /\ tone * alpha \in Nat
  <2>1. tone * alpha <= m * alpha /\ tone * alpha \in Nat
    BY <1>3, ProductGrows
  <2>2. alpha * m <= m * m /\ alpha * m = m * alpha
    BY <1>3, ProductGrows
  <2> QED
    BY <2>1, <2>2
<1>5. PICK p \in Nat : p = tone * alpha
  BY <1>4
<1>6. m * (m + 1) = m * m + m /\ m * m \in Nat /\ m * alpha \in Nat
  BY <1>3
<1>7. p + h \in Nat /\ p + h < m * (m + 1)
  BY <1>2, <1>4, <1>5, <1>6
<1>8. (p + h) \div m \in Nat /\ (p + h) \div m <= m
  BY <1>1, <1>7, QuotientBelow
<1>9. ApplyAlpha(tone, alpha) = (p + h) \div m
  BY <1>1, <1>2, <1>5 DEF ApplyAlpha
<1> QED
  BY <1>1, <1>8, <1>9 DEF Tones

-----------------------------------------------------------------------------
(* -------- the splits --------------------------------------------------- *)
Fraction(f) == f[1] \in Nat /\ f[2] \in Nat /\ f[2] > 0 /\ f[1] <= f[2]

\* smoothstep() lies between 0 and 1.
LEMMA StepIsFraction ==
    ASSUME NEW lo \in Nat, NEW hi \in Nat, NEW v \in Nat
    PROVE  Fraction(Smoothstep(lo, hi, v))
<1> DEFINE n == IF hi < lo THEN lo - v ELSE v - lo
           d == IF hi < lo THEN lo - hi ELSE hi - lo
<1>1. n \in Int /\ d \in Nat
  OBVIOUS
<1>2. Smoothstep(lo, hi, v) =
        IF d = 0 THEN <<IF v >= hi THEN 1 ELSE 0, 1>>
        ELSE IF n <= 0 THEN <<0, 1>> ELSE IF n >= d THEN <<1, 1>>
        ELSE <<n * n * (3 * d - 2 * n), d * d * d>>
  BY DEF Smoothstep
<1> HIDE DEF n, d
<1>3. CASE d = 0 \/ n <= 0 \/ n >= d
  BY <1>1, <1>2, <1>3 DEF Fraction
<1>4. CASE d # 0 /\ n > 0 /\ n < d
  <2>1. n \in Nat /\ d \in Nat
    BY <1>1, <1>4
  <2>2. PICK a \in Nat : n = a /\ a > 0
    BY <1>4, <2>1
  <2>3. PICK b \in Nat : d = a + b
    <3>1. d - a \in Nat /\ d = a + (d - a)
      BY <1>4, <2>1, <2>2
    <3> QED
      BY <3>1
  <2>4. PICK t \in Nat : t = n * n * (3 * d - 2 * n) /\ t = a * a * (a + 3 * b)
    <3>1. 3 * d - 2 * n = a + 3 * b
      BY <2>2, <2>3
    <3>2. a * a * (a + 3 * b) \in Nat
      OBVIOUS
    <3> QED
      BY <2>2, <3>1, <3>2
  <2>5. PICK u \in Nat : u = d * d * d
    <3>1. d * d * d \in Nat
      BY <2>1
    <3> QED
      BY <3>1
  <2>6. u = t + (3 * (a * b * b) + b * b * b)
    BY <2>3, <2>4, <2>5
  <2>7. a * b * b \in Nat /\ b * b * b \in Nat
    OBVIOUS
  <2>8. t <= u
    BY <2>6, <2>7
  <2>9. u > 0
    <3>1. d > 0 /\ d * d > 0
      BY <1>4, <2>1
    <3>2. PICK c \in Nat : c = d * d /\ c > 0
      BY <2>1, <3>1
    <3>3. c * d > 0
      BY <2>1, <3>1, <3>2
    <3> QED
      BY <2>5, <3>2, <3>3
  <2>10. Smoothstep(lo, hi, v) = <<t, u>>
    <3>1. d # 0 /\ ~(n <= 0) /\ ~(n >= d)
      BY <1>4, <2>1
    <3>2. Smoothstep(lo, hi, v) = <<n * n * (3 * d - 2 * n), d * d * d>>
      BY <1>2, <3>1, Zenon
    <3> QED
      BY <2>4, <2>5, <3>2, Zenon
  <2> QED
    BY <2>8, <2>9, <2>10 DEF Fraction
<1> QED
  BY <1>1, <1>3, <1>4

\* A part of a tone, rounded, is at most the tone; a part of nothing is nothing.
LEMMA RoundedBelow ==
    ASSUME NEW v \in Nat, NEW f, Fraction(f)
    PROVE  /\ Rounded(v, f) \in Nat /\ Rounded(v, f) <= v
           /\ f[1] = 0 => Rounded(v, f) = 0
<1>1. PICK a \in Nat : a = f[1]
  BY DEF Fraction
<1>2. PICK b \in Nat \ {0} : b = f[2] /\ a <= b
  BY <1>1 DEF Fraction
<1>3. PICK p \in Nat : p = v * a
  BY <1>1
<1>4. v * a <= v * b /\ v * b \in Nat
  <2>1. a * v <= b * v /\ a * v = v * a /\ b * v = v * b /\ b * v \in Nat
    BY <1>2, ProductGrows
  <2> QED
    BY <2>1
<1>5. PICK q \in Nat : q = v * b /\ p <= q
  BY <1>3, <1>4
<1>6. Rounded(v, f) = (2 * p + b) \div (2 * b)
  <2>1. 2 * v * f[1] = 2 * p
    BY <1>1, <1>3
  <2> QED
    BY <1>2, <2>1 DEF Rounded
<1>7. (2 * b) * (v + 1) = 2 * q + 2 * b
  BY <1>2, <1>5
<1>8. 2 * b \in Nat \ {0} /\ 2 * p + b \in Nat /\ 2 * p + b < (2 * b) * (v + 1)
  BY <1>2, <1>3, <1>5, <1>7
<1>9. Rounded(v, f) \in Nat /\ Rounded(v, f) <= v
  BY <1>6, <1>8, QuotientBelow
<1>10. ASSUME f[1] = 0 PROVE Rounded(v, f) = 0
  <2>1. p = 0
    BY <1>1, <1>3, <1>10
  <2>2. b \in Nat /\ b < (2 * b) * (0 + 1) /\ 2 * p + b = b
    BY <1>2, <2>1
  <2>3. b \div (2 * b) \in Nat /\ b \div (2 * b) <= 0
    BY <1>8, <2>2, QuotientBelow
  <2> QED
    BY <1>6, <2>2, <2>3
<1> QED
  BY <1>9, <1>10

\* The rest of a fraction.
LEMMA RestIsFraction == ASSUME NEW f, Fraction(f) PROVE Fraction(Rest(f))
  BY DEF Fraction, Rest

WindowType ==
    [start : Tones, end : Tones, t1Start : Tones, t1End : Tones,
     t2Start : Tones, t2End : Tones]

\* What the types say in numbers.
LEMMA TonesAreNumbers ==
    ASSUME NEW x \in Tones PROVE x \in Nat /\ x <= MaxTone /\ MaxTone \in Nat /\ MaxTone > 0
  BY ToneAssumption DEF Tones

\* Clamping leaves a tone as it is and turns what is below none into none.
LEMMA Clamped ==
    ASSUME NEW v \in Int
    PROVE  /\ v \in Tones => Clamp(v) = v
           /\ v < 0 => Clamp(v) = 0
  BY ToneAssumption DEF Clamp, Lesser, Tones

\* The split of one ink into two keeps its tone.
LEMMA SplitInTwo ==
    ASSUME NEW v \in Tones, NEW w \in WindowType
    PROVE  LET s == Split2(v, w)
           IN  /\ s.dark \in Nat /\ s.light \in Nat /\ s.dark + s.light = v
<1> DEFINE f == Smoothstep(w.start, w.end, v)
<1>1. v \in Nat /\ v <= MaxTone /\ MaxTone \in Nat
  BY TonesAreNumbers
<1>2. w.start \in Nat /\ w.end \in Nat
  BY TonesAreNumbers DEF WindowType
<1>3. Fraction(f)
  BY <1>1, <1>2, StepIsFraction
<1> HIDE DEF f
<1>4. PICK d \in Nat : d = Rounded(v, f) /\ d <= v
  BY <1>1, <1>3, RoundedBelow
<1>5. d \in Tones /\ v - d \in Tones
  BY <1>1, <1>4 DEF Tones
<1>6. Clamp(d) = d /\ Clamp(v - d) = v - d
  BY <1>1, <1>4, <1>5, Clamped
<1>7. Split2(v, w) = [dark |-> d, light |-> v - d]
  BY <1>4, <1>6 DEF Split2, f
<1> QED
  BY <1>1, <1>4, <1>7

\* The split of black in three loses nothing, and makes nothing if the windows
\* follow each other.
LEMMA SplitInThree ==
    ASSUME NEW v \in Tones, NEW w \in WindowType
    PROVE  LET s == Split3(v, w)
           IN  /\ s.k \in Nat /\ s.lk \in Nat /\ s.llk \in Nat
               /\ s.k + s.lk + s.llk >= v
               /\ Apart(w) \/ v = 0 => s.k + s.lk + s.llk = v
<1> DEFINE f == Smoothstep(w.t1Start, w.t1End, v)
           g == Smoothstep(w.t2Start, w.t2End, v)
<1>1. v \in Nat /\ v <= MaxTone /\ MaxTone \in Nat
  BY TonesAreNumbers
<1>2. /\ w.t1Start \in Nat /\ w.t1End \in Nat /\ w.t2Start \in Nat /\ w.t2End \in Nat
  BY TonesAreNumbers DEF WindowType
<1>3. Fraction(f) /\ Fraction(g) /\ Fraction(Rest(f))
  BY <1>1, <1>2, StepIsFraction, RestIsFraction
<1>4. Apart(w) => Rest(f)[1] = 0 \/ g[1] = 0
  <2> SUFFICES ASSUME Apart(w) PROVE Rest(f)[1] = 0 \/ g[1] = 0
    OBVIOUS
  <2>1. CASE v < w.t2Start
    <3>1. g[1] = 0
      BY <1>1, <1>2, <2>1 DEF Smoothstep, Apart
    <3> QED
      BY <3>1
  <2>2. CASE v >= w.t2Start
    <3>1. PICK lo \in Nat : lo = w.t1Start
      BY <1>2
    <3>2. PICK hi \in Nat : hi = w.t1End /\ ~(hi < lo) /\ v >= hi
      BY <1>1, <1>2, <2>2, <3>1 DEF Apart
    <3>3. hi - lo # 0 => ~(v - lo <= 0) /\ v - lo >= hi - lo
      BY <1>1, <3>1, <3>2
    <3>4. f = Smoothstep(lo, hi, v)
      BY <3>1, <3>2
    <3>5. Smoothstep(lo, hi, v) = <<1, 1>>
      BY <3>2, <3>3, Zenon DEF Smoothstep
    <3>6. f = <<1, 1>>
      BY <3>4, <3>5
    <3> QED
      BY <3>6 DEF Rest
  <2> QED
    BY <1>1, <1>2, <2>1, <2>2
<1> HIDE DEF f, g
<1>5. PICK l \in Nat : l = Rounded(v, Rest(f)) /\ l <= v /\ (Rest(f)[1] = 0 => l = 0)
  BY <1>1, <1>3, RoundedBelow
<1>6. PICK k \in Nat : k = Rounded(v, g) /\ k <= v /\ (g[1] = 0 => k = 0)
  BY <1>1, <1>3, RoundedBelow
<1>7. l \in Tones /\ k \in Tones /\ (v - l - k < 0 \/ v - l - k \in Tones)
  BY <1>1, <1>5, <1>6 DEF Tones
<1>8. Clamp(l) = l /\ Clamp(k) = k
  BY <1>5, <1>6, <1>7, Clamped
<1>9. PICK m \in Nat : /\ m = Clamp(v - l - k)
                       /\ v - l - k >= 0 => m = v - l - k
                       /\ v - l - k < 0 => m = 0
  BY <1>1, <1>5, <1>6, <1>7, Clamped
<1>10. Split3(v, w) = [k |-> k, lk |-> m, llk |-> l]
  BY <1>5, <1>6, <1>8, <1>9 DEF Split3, f, g
<1>11. k + m + l >= v /\ (Apart(w) \/ v = 0 => k + m + l = v)
  BY <1>1, <1>4, <1>5, <1>6, <1>9
<1> QED
  BY <1>10, <1>11

-----------------------------------------------------------------------------
(* -------- the channels of a mode ---------------------------------------- *)
\* A list is what it holds at each place.
IsList(s, n) == s = [i \in 1..n |-> s[i]]

\* Two lists joined, place by place.
LEMMA Joined ==
  ASSUME NEW n \in Nat, NEW m \in Nat, NEW s, NEW t, IsList(s, n), IsList(t, m)
  PROVE  s \o t = [i \in 1..(n + m) |-> IF i <= n THEN s[i] ELSE t[i - n]]
<1> DEFINE S == {s[i] : i \in 1..n} \union {t[i] : i \in 1..m}
<1>1. s \in [1..n -> S] /\ t \in [1..m -> S]
  BY DEF IsList
<1> HIDE DEF S
<1>2. s \in Seq(S) /\ t \in Seq(S) /\ Len(s) = n /\ Len(t) = m
  BY <1>1
<1>3. PICK q : q = s \o t
  OBVIOUS
<1>4. q \in Seq(S) /\ Len(q) = n + m
      /\ \A i \in 1..(n + m) : q[i] = IF i <= n THEN s[i] ELSE t[i - n]
  <2>1. /\ s \o t \in Seq(S) /\ Len(s \o t) = Len(s) + Len(t)
        /\ \A i \in 1..(Len(s) + Len(t)) :
             (s \o t)[i] = IF i <= Len(s) THEN s[i] ELSE t[i - Len(s)]
    BY <1>2, ConcatProperties
  <2> QED
    BY <1>2, <1>3, <2>1
<1>5. q = [i \in 1..(n + m) |-> q[i]]
  BY <1>4
<1>6. q = [i \in 1..(n + m) |-> IF i <= n THEN s[i] ELSE t[i - n]]
  BY <1>4, <1>5
<1> QED
  BY <1>3, <1>6

\* A list with one more element, place by place.
LEMMA Appended ==
  ASSUME NEW n \in Nat, NEW s, NEW x, IsList(s, n)
  PROVE  Append(s, x) = [i \in 1..(n + 1) |-> IF i <= n THEN s[i] ELSE x]
<1> DEFINE S == {s[i] : i \in 1..n} \union {x}
<1>1. s \in [1..n -> S] /\ x \in S
  BY DEF IsList
<1> HIDE DEF S
<1>2. s \in Seq(S) /\ Len(s) = n
  BY <1>1
<1>3. PICK q : q = Append(s, x)
  OBVIOUS
<1>4. q \in Seq(S) /\ Len(q) = n + 1 /\ q[n + 1] = x /\ \A i \in 1..n : q[i] = s[i]
  BY <1>1, <1>2, <1>3, AppendProperties
<1>5. q = [i \in 1..(n + 1) |-> q[i]]
  BY <1>4
<1>6. q = [i \in 1..(n + 1) |-> IF i <= n THEN s[i] ELSE x]
  BY <1>4, <1>5
<1> QED
  BY <1>3, <1>6

\* The lists of the modes, written out.
LEMMA Five == ASSUME NEW a, NEW b, NEW c, NEW d, NEW e
              PROVE  Append(<<a, b, c, d>>, e) = <<a, b, c, d, e>>
<1>1. IsList(<<a, b, c, d>>, 4)
  BY DEF IsList
<1>2. Append(<<a, b, c, d>>, e) = [i \in 1..(4 + 1) |-> IF i <= 4 THEN <<a, b, c, d>>[i] ELSE e]
  BY <1>1, Appended
<1>3. [i \in 1..(4 + 1) |-> IF i <= 4 THEN <<a, b, c, d>>[i] ELSE e] = <<a, b, c, d, e>>
  OBVIOUS
<1> QED
  BY <1>2, <1>3

\* Six and one.
LEMMA Seven == ASSUME NEW a, NEW b, NEW c, NEW d, NEW e, NEW f, NEW g
               PROVE  Append(<<a, b, c, d, e, f>>, g) = <<a, b, c, d, e, f, g>>
<1>1. IsList(<<a, b, c, d, e, f>>, 6)
  BY DEF IsList
<1>2. Append(<<a, b, c, d, e, f>>, g) = [i \in 1..(6 + 1) |-> IF i <= 6 THEN <<a, b, c, d, e, f>>[i] ELSE g]
  BY <1>1, Appended
<1>3. [i \in 1..(6 + 1) |-> IF i <= 6 THEN <<a, b, c, d, e, f>>[i] ELSE g] = <<a, b, c, d, e, f, g>>
  OBVIOUS
<1> QED
  BY <1>2, <1>3

\* Eight and two.
LEMMA Ten == ASSUME NEW a, NEW b, NEW c, NEW d, NEW e, NEW f, NEW g, NEW h, NEW x, NEW z
             PROVE  <<a, b, c, d, e, f, g, h>> \o <<x, z>> = <<a, b, c, d, e, f, g, h, x, z>>
<1>1. IsList(<<a, b, c, d, e, f, g, h>>, 8) /\ IsList(<<x, z>>, 2)
  BY DEF IsList
<1>2. <<a, b, c, d, e, f, g, h>> \o <<x, z>>
        = [i \in 1..(8 + 2) |-> IF i <= 8 THEN <<a, b, c, d, e, f, g, h>>[i] ELSE <<x, z>>[i - 8]]
  BY <1>1, Joined
<1>3. [i \in 1..(8 + 2) |-> IF i <= 8 THEN <<a, b, c, d, e, f, g, h>>[i] ELSE <<x, z>>[i - 8]]
        = <<a, b, c, d, e, f, g, h, x, z>>
  OBVIOUS
<1> QED
  BY <1>2, <1>3

\* The four colours and what follows them.
LEMMA FourAndMore ==
    ASSUME NEW a, NEW b, NEW c, NEW d
    PROVE  /\ \A e, f : <<a, b, c, d>> \o <<e, f>> = <<a, b, c, d, e, f>>
           /\ \A e, f, g : <<a, b, c, d>> \o <<e, f, g>> = <<a, b, c, d, e, f, g>>
           /\ \A e, f, g, h : <<a, b, c, d>> \o <<e, f, g, h>> = <<a, b, c, d, e, f, g, h>>
           /\ \A e, f, g, h, i, j :
                <<a, b, c, d>> \o <<e, f, g, h, i, j>> = <<a, b, c, d, e, f, g, h, i, j>>
<1>1. IsList(<<a, b, c, d>>, 4)
  BY DEF IsList
<1>2. ASSUME NEW e, NEW f PROVE <<a, b, c, d>> \o <<e, f>> = <<a, b, c, d, e, f>>
  <2>1. IsList(<<e, f>>, 2)
    BY DEF IsList
  <2>2. <<a, b, c, d>> \o <<e, f>>
          = [n \in 1..(4 + 2) |-> IF n <= 4 THEN <<a, b, c, d>>[n] ELSE <<e, f>>[n - 4]]
    BY <1>1, <2>1, Joined
  <2>3. [n \in 1..(4 + 2) |-> IF n <= 4 THEN <<a, b, c, d>>[n] ELSE <<e, f>>[n - 4]]
          = <<a, b, c, d, e, f>>
    OBVIOUS
  <2> QED
    BY <2>2, <2>3
<1>3. ASSUME NEW e, NEW f, NEW g PROVE <<a, b, c, d>> \o <<e, f, g>> = <<a, b, c, d, e, f, g>>
  <2>1. IsList(<<e, f, g>>, 3)
    BY DEF IsList
  <2>2. <<a, b, c, d>> \o <<e, f, g>>
          = [n \in 1..(4 + 3) |-> IF n <= 4 THEN <<a, b, c, d>>[n] ELSE <<e, f, g>>[n - 4]]
    BY <1>1, <2>1, Joined
  <2>3. [n \in 1..(4 + 3) |-> IF n <= 4 THEN <<a, b, c, d>>[n] ELSE <<e, f, g>>[n - 4]]
          = <<a, b, c, d, e, f, g>>
    OBVIOUS
  <2> QED
    BY <2>2, <2>3
<1>4. ASSUME NEW e, NEW f, NEW g, NEW h
      PROVE  <<a, b, c, d>> \o <<e, f, g, h>> = <<a, b, c, d, e, f, g, h>>
  <2>1. IsList(<<e, f, g, h>>, 4)
    BY DEF IsList
  <2>2. <<a, b, c, d>> \o <<e, f, g, h>>
          = [n \in 1..(4 + 4) |-> IF n <= 4 THEN <<a, b, c, d>>[n] ELSE <<e, f, g, h>>[n - 4]]
    BY <1>1, <2>1, Joined
  <2>3. [n \in 1..(4 + 4) |-> IF n <= 4 THEN <<a, b, c, d>>[n] ELSE <<e, f, g, h>>[n - 4]]
          = <<a, b, c, d, e, f, g, h>>
    OBVIOUS
  <2> QED
    BY <2>2, <2>3
<1>5. ASSUME NEW e, NEW f, NEW g, NEW h, NEW i, NEW j
      PROVE  <<a, b, c, d>> \o <<e, f, g, h, i, j>> = <<a, b, c, d, e, f, g, h, i, j>>
  <2>1. IsList(<<e, f, g, h, i, j>>, 6)
    BY DEF IsList
  <2>2. <<a, b, c, d>> \o <<e, f, g, h, i, j>>
          = [n \in 1..(4 + 6) |-> IF n <= 4 THEN <<a, b, c, d>>[n]
                                  ELSE <<e, f, g, h, i, j>>[n - 4]]
    BY <1>1, <2>1, Joined
  <2>3. [n \in 1..(4 + 6) |-> IF n <= 4 THEN <<a, b, c, d>>[n]
                              ELSE <<e, f, g, h, i, j>>[n - 4]]
          = <<a, b, c, d, e, f, g, h, i, j>>
    OBVIOUS
  <2> QED
    BY <2>2, <2>3
<1> QED
  BY <1>2, <1>3, <1>4, <1>5

\* The masks of the modes.
LEMMA KeyLists ==
    /\ MaskKeys(4) = <<"c", "m", "y", "k">>
    /\ MaskKeys(5) = <<"c", "m", "y", "k", "w">>
    /\ MaskKeys(6) = <<"c", "m", "y", "k", "lm", "lc">>
    /\ MaskKeys(7) = <<"c", "m", "y", "k", "lm", "lc", "w">>
    /\ MaskKeys(8) = <<"c", "m", "y", "k", "lc", "lm", "lk", "llk">>
    /\ MaskKeys(10) = <<"c", "m", "y", "k", "lc", "lm", "lk", "llk", "w", "v">>
<1>1. MaskKeys(4) = <<"c", "m", "y", "k">>
  BY DEF MaskKeys
<1>2. MaskKeys(5) = Append(<<"c", "m", "y", "k">>, "w")
  BY DEF MaskKeys
<1>3. MaskKeys(6) = <<"c", "m", "y", "k">> \o <<"lm", "lc">>
  BY DEF MaskKeys
<1>4. MaskKeys(7) = <<"c", "m", "y", "k">> \o <<"lm", "lc", "w">>
  BY DEF MaskKeys
<1>5. MaskKeys(8) = <<"c", "m", "y", "k">> \o <<"lc", "lm", "lk", "llk">>
  BY DEF MaskKeys
<1>6. MaskKeys(10) = <<"c", "m", "y", "k">> \o <<"lc", "lm", "lk", "llk", "w", "v">>
  BY DEF MaskKeys
<1> QED
  BY <1>1, <1>2, <1>3, <1>4, <1>5, <1>6, Five, FourAndMore

\* The planes of the modes.
LEMMA PlaneLists ==
    /\ InkPlanes(4) = <<"y", "m", "c", "k">>
    /\ InkPlanes(5) = <<"y", "m", "c", "k", "w">>
    /\ InkPlanes(6) = <<"y", "m", "c", "k", "lm", "lc">>
    /\ InkPlanes(7) = <<"y", "m", "c", "k", "lm", "lc", "w">>
    /\ InkPlanes(8) = <<"y", "m", "c", "k", "lm", "lc", "lk", "llk">>
    /\ InkPlanes(10) = <<"y", "m", "c", "k", "lm", "lc", "lk", "llk", "w", "v">>
    /\ Append(InkPlanes(5), "w") = <<"y", "m", "c", "k", "w", "w">>
<1> DEFINE base == <<"y", "m", "c", "k">>
           light == <<"lm", "lc">>
           colours == <<"y", "m", "c", "k", "lm", "lc">>
           all == <<"y", "m", "c", "k", "lm", "lc", "lk", "llk">>
<1>1. /\ IsList(base, 4) /\ IsList(light, 2) /\ IsList(colours, 6) /\ IsList(<<"w">>, 1)
      /\ IsList(<<"lk", "llk">>, 2) /\ IsList(<<"y", "m", "c", "k", "w">>, 5)
  BY DEF IsList
<1>2. base \o <<"w">> = <<"y", "m", "c", "k", "w">>
  <2>1. base \o <<"w">> = [i \in 1..(4 + 1) |-> IF i <= 4 THEN base[i] ELSE <<"w">>[i - 4]]
    BY <1>1, Joined
  <2>2. [i \in 1..(4 + 1) |-> IF i <= 4 THEN base[i] ELSE <<"w">>[i - 4]]
          = <<"y", "m", "c", "k", "w">>
    OBVIOUS
  <2> QED
    BY <2>1, <2>2
<1>3. base \o light = colours
  BY FourAndMore
<1>4. colours \o <<"w">> = <<"y", "m", "c", "k", "lm", "lc", "w">>
  <2>1. colours \o <<"w">>
          = [i \in 1..(6 + 1) |-> IF i <= 6 THEN colours[i] ELSE <<"w">>[i - 6]]
    BY <1>1, Joined
  <2>2. [i \in 1..(6 + 1) |-> IF i <= 6 THEN colours[i] ELSE <<"w">>[i - 6]]
          = <<"y", "m", "c", "k", "lm", "lc", "w">>
    OBVIOUS
  <2> QED
    BY <2>1, <2>2
<1>5. colours \o <<"lk", "llk">> = all
  <2>1. colours \o <<"lk", "llk">>
          = [i \in 1..(6 + 2) |-> IF i <= 6 THEN colours[i] ELSE <<"lk", "llk">>[i - 6]]
    BY <1>1, Joined
  <2>2. [i \in 1..(6 + 2) |-> IF i <= 6 THEN colours[i] ELSE <<"lk", "llk">>[i - 6]] = all
    OBVIOUS
  <2> QED
    BY <2>1, <2>2
<1>6. all \o <<"w", "v">> = <<"y", "m", "c", "k", "lm", "lc", "lk", "llk", "w", "v">>
  BY Ten
<1>7. Append(<<"y", "m", "c", "k", "w">>, "w") = <<"y", "m", "c", "k", "w", "w">>
  <2>1. Append(<<"y", "m", "c", "k", "w">>, "w")
          = [i \in 1..(5 + 1) |-> IF i <= 5 THEN <<"y", "m", "c", "k", "w">>[i] ELSE "w"]
    BY <1>1, Appended
  <2>2. [i \in 1..(5 + 1) |-> IF i <= 5 THEN <<"y", "m", "c", "k", "w">>[i] ELSE "w"]
          = <<"y", "m", "c", "k", "w", "w">>
    OBVIOUS
  <2> QED
    BY <2>1, <2>2
<1>8. InkPlanes(4) = base
  BY DEF InkPlanes
<1>9. InkPlanes(5) = base \o <<"w">>
  BY DEF InkPlanes
<1>10. InkPlanes(6) = base \o light
  BY DEF InkPlanes
<1>11. InkPlanes(7) = (base \o light) \o <<"w">>
  BY DEF InkPlanes
<1>12. InkPlanes(8) = (base \o light) \o <<"lk", "llk">>
  BY DEF InkPlanes
<1>13. InkPlanes(10) = ((base \o light) \o <<"lk", "llk">>) \o <<"w", "v">>
  BY DEF InkPlanes
<1> HIDE DEF base, light, colours, all
<1> QED
  BY <1>2, <1>3, <1>4, <1>5, <1>6, <1>7, <1>8, <1>9, <1>10, <1>11, <1>12, <1>13
     DEF base, colours, all

-----------------------------------------------------------------------------
(* -------- grey component replacement ------------------------------------ *)
GcrType ==
    [on : BOOLEAN, gate : Tones, maxTone : Tones, strength : Tones, gain : Tones,
     kMin : Tones, lcFade : 0..100, lmFade : 0..100]

\* The common part of three colours.
LEMMA LeastOfThree ==
    ASSUME NEW a \in Nat, NEW b \in Nat, NEW c \in Nat
    PROVE  \E l \in Nat : /\ Least({a, b, c}) = l /\ l <= a /\ l <= b /\ l <= c
                          /\ l = a \/ l = b \/ l = c
<1>1. \E x \in {a, b, c} : \A z \in {a, b, c} : x <= z
  <2>1. CASE a <= b /\ a <= c
    BY <2>1
  <2>2. CASE b <= a /\ b <= c
    BY <2>2
  <2>3. CASE c <= a /\ c <= b
    BY <2>3
  <2> QED
    BY <2>1, <2>2, <2>3
<1>2. Least({a, b, c}) \in {a, b, c} /\ \A z \in {a, b, c} : Least({a, b, c}) <= z
  BY <1>1 DEF Least, Min
<1> QED
  BY <1>2

\* A pixel that covers nothing is blank.
LEMMA GreatestOfFour ==
    ASSUME NEW a \in Nat, NEW b \in Nat, NEW c \in Nat, NEW d \in Nat
    PROVE  Greatest({a, b, c, d}) = 0 => a = 0 /\ b = 0 /\ c = 0 /\ d = 0
<1>1. \E x \in {a, b, c, d} : \A z \in {a, b, c, d} : x >= z
  <2>1. CASE a >= b /\ a >= c /\ a >= d
    BY <2>1
  <2>2. CASE b >= a /\ b >= c /\ b >= d
    BY <2>2
  <2>3. CASE c >= a /\ c >= b /\ c >= d
    BY <2>3
  <2>4. CASE d >= a /\ d >= b /\ d >= c
    BY <2>4
  <2> QED
    BY <2>1, <2>2, <2>3, <2>4
<1>2. \A z \in {a, b, c, d} : Greatest({a, b, c, d}) >= z
  BY <1>1 DEF Greatest, Max
<1> QED
  BY <1>2

\* A share of a tone.
LEMMA ShareOfTone ==
    ASSUME NEW a \in Tones, NEW b \in Nat
    PROVE  (a * b) \div MaxTone \in Nat /\ (a = 0 => (a * b) \div MaxTone = 0)
<1>1. PICK m \in Nat \ {0} : m = MaxTone /\ a \in Nat /\ a <= m
  BY ToneAssumption, TonesAreNumbers
<1>2. a * b <= m * b /\ a * b \in Nat /\ m * b \in Nat
  BY <1>1, ProductGrows
<1>3. m * (b + 1) = m * b + m
  BY <1>1
<1>4. a * b < m * (b + 1)
  BY <1>1, <1>2, <1>3
<1>5. (a * b) \div m \in Nat
  BY <1>1, <1>2, <1>4, QuotientBelow
<1>6. ASSUME a = 0 PROVE (a * b) \div m = 0
  <2>1. a * b = 0
    BY <1>6
  <2>2. 0 \div m = 0
    BY <1>1
  <2> QED
    BY <2>1, <2>2
<1> QED
  BY <1>1, <1>5, <1>6

\* A fade takes from a tone.
LEMMA FadeTakes ==
    ASSUME NEW v \in Nat, NEW percent \in 0..100
    PROVE  Fade(v, percent) \in Nat /\ Fade(v, percent) <= v
<1>1. PICK r \in Nat : r = 100 - percent /\ r <= 100
  BY Z3
<1>2. r * v <= 100 * v /\ r * v = v * r /\ v * r \in Nat
  BY <1>1, ProductGrows
<1>3. v * r < 100 * (v + 1)
  BY <1>2
<1>4. (v * r) \div 100 \in Nat /\ (v * r) \div 100 <= v
  BY <1>2, <1>3, QuotientBelow
<1> QED
  BY <1>1, <1>4 DEF Fade

\* Replacing grey keeps the tones, the differences of the colours and black.
LEMMA GreyKept ==
    ASSUME NEW g \in GcrType, NEW p \in PixelType, NEW q, q = GcrNeutralTransfer(g, p)
    PROVE  /\ q \in PixelType
           /\ q.c - q.m = p.c - p.m /\ q.m - q.y = p.m - p.y /\ q.k >= p.k
           /\ p.c = 0 /\ p.m = 0 /\ p.y = 0 /\ p.k = 0
                => q.c = 0 /\ q.m = 0 /\ q.y = 0 /\ q.k = 0
<1>1. /\ p.c \in Tones /\ p.m \in Tones /\ p.y \in Tones /\ p.k \in Tones
      /\ p = [c |-> p.c, m |-> p.m, y |-> p.y, k |-> p.k]
  BY DEF PixelType
<1>2. PICK m \in Nat \ {0} : m = MaxTone /\ Tones = 0..m
  BY ToneAssumption DEF Tones
<1>3. CASE ~g.on \/ ~IsNeutral(g, p)
  BY <1>1, <1>2, <1>3 DEF GcrNeutralTransfer
<1>4. CASE ~(~g.on \/ ~IsNeutral(g, p))
  <2>1. PICK n \in Nat : /\ Least({p.c, p.m, p.y}) = n /\ n <= p.c /\ n <= p.m /\ n <= p.y
                         /\ n = p.c \/ n = p.m \/ n = p.y
    <3>1. p.c \in Nat /\ p.m \in Nat /\ p.y \in Nat
      BY <1>1, <1>2
    <3> QED
      BY <3>1, LeastOfThree
  <2>2. n \in Tones
    BY <1>1, <2>1
  <2>3. g.strength \in Nat /\ g.gain \in Nat /\ g.kMin \in Nat /\ g.kMin <= m
    BY <1>2 DEF GcrType
  <2>4. PICK s \in Nat : s = (n * g.strength) \div MaxTone
    BY <2>2, <2>3, ShareOfTone
  <2>5. PICK l \in Nat : l = Lesser(s, n) /\ l <= n /\ (n = 0 => l = 0)
    BY <2>4 DEF Lesser
  <2>6. l \in Tones
    BY <1>2, <2>2, <2>5
  <2>7. PICK t \in Nat : t = (l * g.gain) \div MaxTone /\ (l = 0 => t = 0)
    BY <2>3, <2>6, ShareOfTone
  <2>8. PICK a \in Nat : /\ a = Lesser(MaxTone, p.k + t) /\ a <= m /\ p.k <= a
                         /\ p.k = 0 /\ t = 0 => a = 0
    BY <1>1, <1>2, <2>7 DEF Lesser
  <2>9. PICK b \in Nat : /\ b = IF a < g.kMin /\ n > 0 THEN g.kMin ELSE a
                         /\ b <= m /\ p.k <= b /\ (n = 0 => b = a)
    BY <1>1, <1>2, <2>3, <2>8
  <2>10. q = [c |-> p.c - l, m |-> p.m - l, y |-> p.y - l, k |-> b]
    BY <1>4, <2>1, <2>4, <2>5, <2>7, <2>8, <2>9, Zenon DEF GcrNeutralTransfer
  <2>11. q.c = p.c - l /\ q.m = p.m - l /\ q.y = p.y - l /\ q.k = b
    BY <2>10
  <2>12. p.c - l \in Tones /\ p.m - l \in Tones /\ p.y - l \in Tones /\ b \in Tones
    <3>1. \A v \in Tones : n <= v => v - l \in Tones
      BY <1>2, <2>5
    <3>2. b \in Tones
      BY <1>2, <2>9
    <3> QED
      BY <1>1, <2>1, <3>1, <3>2
  <2>13. q \in PixelType
    BY <2>10, <2>12 DEF PixelType
  <2>14. q.c - q.m = p.c - p.m /\ q.m - q.y = p.m - p.y /\ q.k >= p.k
    BY <1>1, <1>2, <2>1, <2>5, <2>9, <2>11
  <2>15. ASSUME p.c = 0, p.m = 0, p.y = 0, p.k = 0
         PROVE  q.c = 0 /\ q.m = 0 /\ q.y = 0 /\ q.k = 0
    BY <2>1, <2>5, <2>7, <2>8, <2>9, <2>11, <2>15
  <2> QED
    BY <2>13, <2>14, <2>15
<1> QED
  BY <1>3, <1>4

\* A setting of a page: of its type, and what the code calls the ink mode of an
\* X-33 is the number of its channels.
SettingOK(s) ==
    /\ s.x33 \in BOOLEAN /\ s.mode \in InkModes /\ s.gcr \in GcrType /\ s.window \in WindowType
    /\ s.x33 => s.mode \in {4, 5} /\ (s.mode = 5) = (s.whiteMode # 0)

\* The channels of a mode, written out.
Channels(s, p, w, x) ==
    LET d == SplitTones(s, p)
        c == Tone(s, "c", d.c)   m == Tone(s, "m", d.m)  k == Tone(s, "k", d.k)
        lc == Tone(s, "lc", d.lc)  lm == Tone(s, "lm", d.lm)
        lk == Tone(s, "lk", d.lk)  llk == Tone(s, "llk", d.llk)
        C == Tone(s, "c", p.c)  M == Tone(s, "m", p.m)
        Y == Tone(s, "y", p.y)  K == Tone(s, "k", p.k)
    IN  [n \in InkModes |->
           CASE n = 4 -> <<C, M, Y, K>>
             [] n = 5 -> <<C, M, Y, K, w>>
             [] n = 6 -> <<c, m, Y, K, lm, lc>>
             [] n = 7 -> <<c, m, Y, K, lm, lc, w>>
             [] n = 8 -> <<c, m, Y, k, lc, lm, lk, llk>>
             [] n = 10 -> <<c, m, Y, k, lc, lm, lk, llk, w, x>>]

\* What buildToneChannels() returns, mode by mode.
LEMMA Built ==
    ASSUME NEW s, SettingOK(s), NEW px, NEW plates, NEW p, p = GreyReplaced(s, px),
           NEW w, w = White(s, p, plates), NEW x, x = Varnish(s, p, plates)
    PROVE  BuildToneChannels(s, px, plates) = Channels(s, p, w, x)[s.mode]
<1> DEFINE C == Tone(s, "c", p.c)
           M == Tone(s, "m", p.m)
           Y == Tone(s, "y", p.y)
           K == Tone(s, "k", p.k)
           d == SplitTones(s, p)
           six == <<Tone(s, "c", d.c), Tone(s, "m", d.m), Y, K, Tone(s, "lm", d.lm),
                    Tone(s, "lc", d.lc)>>
           eight == <<Tone(s, "c", d.c), Tone(s, "m", d.m), Y, Tone(s, "k", d.k),
                      Tone(s, "lc", d.lc), Tone(s, "lm", d.lm), Tone(s, "lk", d.lk),
                      Tone(s, "llk", d.llk)>>
           B == BuildToneChannels(s, px, plates)
<1>1. FourTones(s, p) = <<C, M, Y, K>> /\ Append(<<C, M, Y, K>>, w) = <<C, M, Y, K, w>>
  <2>1. FourTones(s, p) = [i \in 1..4 |-> Whole(s, p, <<"c", "m", "y", "k">>[i])]
    BY DEF FourTones
  <2>2. [i \in 1..4 |-> Whole(s, p, <<"c", "m", "y", "k">>[i])]
          = <<Whole(s, p, "c"), Whole(s, p, "m"), Whole(s, p, "y"), Whole(s, p, "k")>>
    OBVIOUS
  <2>3. /\ Whole(s, p, "c") = C /\ Whole(s, p, "m") = M
        /\ Whole(s, p, "y") = Y /\ Whole(s, p, "k") = K
    BY DEF Whole
  <2> QED
    BY <2>1, <2>2, <2>3, Five
<1>2. SixTones(s, p) = six /\ EightTones(s, p) = eight
  BY DEF SixTones, EightTones, Whole
<1>3. Append(six, w) = <<Tone(s, "c", d.c), Tone(s, "m", d.m), Y, K, Tone(s, "lm", d.lm),
                         Tone(s, "lc", d.lc), w>>
  BY Seven
<1>4. eight \o <<w, x>> = <<Tone(s, "c", d.c), Tone(s, "m", d.m), Y, Tone(s, "k", d.k),
                      Tone(s, "lc", d.lc), Tone(s, "lm", d.lm), Tone(s, "lk", d.lk),
                      Tone(s, "llk", d.llk), w, x>>
  BY Ten
<1>5. CASE s.x33
  <2>1. p = px
    BY <1>5 DEF GreyReplaced
  <2>2. B = X33Tones(s, px, plates)
    <3>1. ~(s.mode = 6) /\ ~(s.mode = 7) /\ ~(s.mode = 8) /\ ~(s.mode = 10)
      BY <1>5 DEF SettingOK
    <3> QED
      BY <1>5, <3>1 DEF BuildToneChannels
  <2>3. CASE s.whiteMode = 0
    <3>1. B = FourTones(s, p) /\ s.mode = 4
      BY <1>5, <2>1, <2>2, <2>3 DEF SettingOK, X33Tones
    <3> QED
      BY <1>1, <3>1 DEF Channels, InkModes
  <2>4. CASE s.whiteMode # 0
    <3>1. B = Append(FourTones(s, p), w) /\ s.mode = 5
      BY <1>5, <2>1, <2>2, <2>4 DEF SettingOK, X33Tones
    <3> QED
      BY <1>1, <3>1 DEF Channels, InkModes
  <2> QED
    BY <2>3, <2>4
<1>6. CASE ~s.x33
  <2>1. CASE s.mode = 4
    <3>1. B = FourTones(s, p)
      BY <1>6, <2>1 DEF BuildToneChannels
    <3> QED
      BY <1>1, <2>1, <3>1 DEF Channels, InkModes
  <2>2. CASE s.mode = 5
    <3>1. B = Append(FourTones(s, p), w)
      BY <1>6, <2>2 DEF BuildToneChannels
    <3> QED
      BY <1>1, <2>2, <3>1 DEF Channels, InkModes
  <2>3. CASE s.mode = 6
    <3>1. B = SixTones(s, p)
      BY <1>6, <2>3 DEF BuildToneChannels
    <3> QED
      BY <1>2, <2>3, <3>1 DEF Channels, InkModes
  <2>4. CASE s.mode = 7
    <3>1. B = Append(SixTones(s, p), w)
      BY <1>6, <2>4 DEF BuildToneChannels
    <3> QED
      BY <1>2, <1>3, <2>4, <3>1 DEF Channels, InkModes
  <2>5. CASE s.mode = 8
    <3>1. B = EightTones(s, p)
      BY <1>6, <2>5 DEF BuildToneChannels
    <3> QED
      BY <1>2, <2>5, <3>1 DEF Channels, InkModes
  <2>6. CASE s.mode = 10
    <3>1. B = EightTones(s, p) \o <<w, x>>
      BY <1>6, <2>6 DEF BuildToneChannels
    <3> QED
      BY <1>2, <1>4, <2>6, <3>1 DEF Channels, InkModes
  <2> QED
    BY <2>1, <2>2, <2>3, <2>4, <2>5, <2>6 DEF SettingOK, InkModes
<1> QED
  BY <1>5, <1>6 DEF SettingOK

\* The ink a tone carries is the one it was built for.
LEMMA InkOfTone ==
    ASSUME NEW s, NEW ink, NEW v PROVE Tone(s, ink, v).ink = ink /\ Tone(s, ink, v).v = v
  BY DEF Tone

\* The inks and the planes of a list of channels.
Lined(s, B) ==
    /\ Len(B) = s.mode
    /\ \A i \in DOMAIN B :
         /\ B[i].ink = MaskKeys(s.mode)[i]
         /\ (B[i].ink \in DOMAIN Parent) = IsLightChannel(s.mode, i - 1)
    /\ LET order == PlaneOrder(s)
       IN  [p \in DOMAIN order |-> B[order[p] + 1].ink] =
              IF s.x33 /\ s.mode = 5 THEN Append(InkPlanes(5), "w") ELSE InkPlanes(s.mode)

\* A mask key names a light ink exactly where the code takes a channel for one.
LEMMA LightKeys ==
    ASSUME NEW n \in InkModes
    PROVE  /\ DOMAIN MaskKeys(n) = 1..n
           /\ \A i \in 1..n : MaskKeys(n)[i] \in DOMAIN Parent <=> IsLightChannel(n, i - 1)
<1>1. DOMAIN Parent = {"lc", "lm", "lk", "llk"}
  BY DEF Parent
<1>2. CASE n = 4
  <2>1. \A i \in 1..4 : (<<"c", "m", "y", "k">>[i] \in {"lc", "lm", "lk", "llk"}) <=> (FALSE)
    OBVIOUS
  <2>2. \A i \in 1..4 : IsLightChannel(4, i - 1) <=> (FALSE)
    BY DEF IsLightChannel
  <2> QED
    BY <1>1, <1>2, <2>1, <2>2, KeyLists
<1>3. CASE n = 5
  <2>1. \A i \in 1..5 : (<<"c", "m", "y", "k", "w">>[i] \in {"lc", "lm", "lk", "llk"}) <=> (FALSE)
    OBVIOUS
  <2>2. \A i \in 1..5 : IsLightChannel(5, i - 1) <=> (FALSE)
    BY DEF IsLightChannel
  <2> QED
    BY <1>1, <1>3, <2>1, <2>2, KeyLists
<1>4. CASE n = 6
  <2>1. \A i \in 1..6 : (<<"c", "m", "y", "k", "lm", "lc">>[i] \in {"lc", "lm", "lk", "llk"}) <=> (i = 5 \/ i = 6)
    OBVIOUS
  <2>2. \A i \in 1..6 : IsLightChannel(6, i - 1) <=> (i = 5 \/ i = 6)
    BY DEF IsLightChannel
  <2> QED
    BY <1>1, <1>4, <2>1, <2>2, KeyLists
<1>5. CASE n = 7
  <2>1. \A i \in 1..7 : (<<"c", "m", "y", "k", "lm", "lc", "w">>[i] \in {"lc", "lm", "lk", "llk"}) <=> (i = 5 \/ i = 6)
    OBVIOUS
  <2>2. \A i \in 1..7 : IsLightChannel(7, i - 1) <=> (i = 5 \/ i = 6)
    BY DEF IsLightChannel
  <2> QED
    BY <1>1, <1>5, <2>1, <2>2, KeyLists
<1>6. CASE n = 8
  <2>1. \A i \in 1..8 : (<<"c", "m", "y", "k", "lc", "lm", "lk", "llk">>[i] \in {"lc", "lm", "lk", "llk"}) <=> (i = 5 \/ i = 6 \/ i = 7 \/ i = 8)
    OBVIOUS
  <2>2. \A i \in 1..8 : IsLightChannel(8, i - 1) <=> (i = 5 \/ i = 6 \/ i = 7 \/ i = 8)
    BY DEF IsLightChannel
  <2> QED
    BY <1>1, <1>6, <2>1, <2>2, KeyLists
<1>7. CASE n = 10
  <2>1. \A i \in 1..10 : (<<"c", "m", "y", "k", "lc", "lm", "lk", "llk", "w", "v">>[i] \in {"lc", "lm", "lk", "llk"}) <=> (i = 5 \/ i = 6 \/ i = 7 \/ i = 8)
    OBVIOUS
  <2>2. \A i \in 1..10 : IsLightChannel(10, i - 1) <=> (i = 5 \/ i = 6 \/ i = 7 \/ i = 8)
    BY DEF IsLightChannel
  <2> QED
    BY <1>1, <1>7, <2>1, <2>2, KeyLists
<1> QED
  BY <1>2, <1>3, <1>4, <1>5, <1>6, <1>7 DEF InkModes

\* The four tables agree in every mode.
LEMMA TablesAgree ==
    ASSUME NEW s, SettingOK(s), NEW px, NEW plates
    PROVE  Lined(s, BuildToneChannels(s, px, plates))
<1>1. PICK p : p = GreyReplaced(s, px)
  OBVIOUS
<1>2. PICK w : w = White(s, p, plates)
  OBVIOUS
<1>3. PICK x : x = Varnish(s, p, plates)
  OBVIOUS
<1>4. PICK d : d = SplitTones(s, p)
  OBVIOUS
<1>5. PICK B : B = BuildToneChannels(s, px, plates)
  OBVIOUS
<1>6. B = Channels(s, p, w, x)[s.mode] /\ s.mode \in InkModes
  BY <1>1, <1>2, <1>3, <1>5, Built DEF SettingOK
<1>7. w.ink = "w" /\ x.ink = "v"
  BY <1>2, <1>3, InkOfTone DEF White, Varnish
<1>8. ASSUME DOMAIN B = 1..s.mode,
             \A i \in 1..s.mode : B[i].ink = MaskKeys(s.mode)[i]
      PROVE  \A i \in DOMAIN B :
               /\ B[i].ink = MaskKeys(s.mode)[i]
               /\ (B[i].ink \in DOMAIN Parent) = IsLightChannel(s.mode, i - 1)
  <2> TAKE i \in DOMAIN B
  <2>1. B[i].ink = MaskKeys(s.mode)[i]
        /\ (B[i].ink \in DOMAIN Parent <=> IsLightChannel(s.mode, i - 1))
    BY <1>6, <1>8, LightKeys
  <2>2. IsLightChannel(s.mode, i - 1) \in BOOLEAN
    BY Zenon DEF IsLightChannel
  <2> QED
    BY <2>1, <2>2
<1>9. CASE s.mode = 4
  <2>1. B = <<Tone(s, "c", p.c), Tone(s, "m", p.m), Tone(s, "y", p.y), Tone(s, "k", p.k)>>
    BY <1>4, <1>6, <1>9 DEF Channels, InkModes
  <2>2. /\ Len(B) = 4 /\ DOMAIN B = 1..4
        /\ B[1].ink = "c" /\ B[2].ink = "m" /\ B[3].ink = "y" /\ B[4].ink = "k"
    BY <1>7, <2>1, InkOfTone
  <2>3. \A i \in 1..4 : B[i].ink = MaskKeys(4)[i]
    BY <2>2, KeyLists
  <2>4. PlaneOrder(s) = <<2, 1, 0, 3>>
    BY <1>9 DEF PlaneOrder, X33ChannelOrder, ChannelOrder
  <2>5. [n \in DOMAIN <<2, 1, 0, 3>> |-> B[<<2, 1, 0, 3>>[n] + 1].ink]
          = <<"y", "m", "c", "k">>
    BY <2>2
  <2> QED
    BY <1>5, <1>8, <1>9, <2>2, <2>3, <2>4, <2>5, PlaneLists DEF Lined
<1>10. CASE s.mode = 5
  <2>1. B = <<Tone(s, "c", p.c), Tone(s, "m", p.m), Tone(s, "y", p.y), Tone(s, "k", p.k), w>>
    BY <1>4, <1>6, <1>10 DEF Channels, InkModes
  <2>2. /\ Len(B) = 5 /\ DOMAIN B = 1..5
        /\ B[1].ink = "c" /\ B[2].ink = "m" /\ B[3].ink = "y" /\ B[4].ink = "k"
        /\ B[5].ink = "w"
    BY <1>7, <2>1, InkOfTone
  <2>3. \A i \in 1..5 : B[i].ink = MaskKeys(5)[i]
    BY <2>2, KeyLists
  <2>4. CASE s.x33
    <3>1. PlaneOrder(s) = <<2, 1, 0, 3, 4, 4>>
      BY <1>10, <2>4 DEF PlaneOrder, X33ChannelOrder
    <3>2. [n \in DOMAIN <<2, 1, 0, 3, 4, 4>> |-> B[<<2, 1, 0, 3, 4, 4>>[n] + 1].ink]
            = <<"y", "m", "c", "k", "w", "w">>
      BY <2>2
    <3> QED
      BY <1>5, <1>8, <1>10, <2>2, <2>3, <2>4, <3>1, <3>2, PlaneLists DEF Lined
  <2>5. CASE ~s.x33
    <3>1. PlaneOrder(s) = <<2, 1, 0, 3, 4>>
      BY <1>10, <2>5 DEF PlaneOrder, ChannelOrder
    <3>2. [n \in DOMAIN <<2, 1, 0, 3, 4>> |-> B[<<2, 1, 0, 3, 4>>[n] + 1].ink]
            = <<"y", "m", "c", "k", "w">>
      BY <2>2
    <3> QED
      BY <1>5, <1>8, <1>10, <2>2, <2>3, <2>5, <3>1, <3>2, PlaneLists DEF Lined
  <2> QED
    BY <2>4, <2>5
<1>11. CASE s.mode = 6
  <2>1. B = <<Tone(s, "c", d.c), Tone(s, "m", d.m), Tone(s, "y", p.y), Tone(s, "k", p.k), Tone(s, "lm", d.lm), Tone(s, "lc", d.lc)>>
    BY <1>4, <1>6, <1>11 DEF Channels, InkModes
  <2>2. /\ Len(B) = 6 /\ DOMAIN B = 1..6
        /\ B[1].ink = "c" /\ B[2].ink = "m" /\ B[3].ink = "y" /\ B[4].ink = "k"
        /\ B[5].ink = "lm" /\ B[6].ink = "lc"
    BY <1>7, <2>1, InkOfTone
  <2>3. \A i \in 1..6 : B[i].ink = MaskKeys(6)[i]
    BY <2>2, KeyLists
  <2>4. PlaneOrder(s) = <<2, 1, 0, 3, 4, 5>>
    BY <1>11 DEF PlaneOrder, ChannelOrder, SettingOK
  <2>5. [n \in DOMAIN <<2, 1, 0, 3, 4, 5>> |-> B[<<2, 1, 0, 3, 4, 5>>[n] + 1].ink]
          = <<"y", "m", "c", "k", "lm", "lc">>
    BY <2>2
  <2> QED
    BY <1>5, <1>8, <1>11, <2>2, <2>3, <2>4, <2>5, PlaneLists DEF Lined
<1>12. CASE s.mode = 7
  <2>1. B = <<Tone(s, "c", d.c), Tone(s, "m", d.m), Tone(s, "y", p.y), Tone(s, "k", p.k), Tone(s, "lm", d.lm), Tone(s, "lc", d.lc), w>>
    BY <1>4, <1>6, <1>12 DEF Channels, InkModes
  <2>2. /\ Len(B) = 7 /\ DOMAIN B = 1..7
        /\ B[1].ink = "c" /\ B[2].ink = "m" /\ B[3].ink = "y" /\ B[4].ink = "k"
        /\ B[5].ink = "lm" /\ B[6].ink = "lc" /\ B[7].ink = "w"
    BY <1>7, <2>1, InkOfTone
  <2>3. \A i \in 1..7 : B[i].ink = MaskKeys(7)[i]
    BY <2>2, KeyLists
  <2>4. PlaneOrder(s) = <<2, 1, 0, 3, 4, 5, 6>>
    BY <1>12 DEF PlaneOrder, ChannelOrder, SettingOK
  <2>5. [n \in DOMAIN <<2, 1, 0, 3, 4, 5, 6>> |-> B[<<2, 1, 0, 3, 4, 5, 6>>[n] + 1].ink]
          = <<"y", "m", "c", "k", "lm", "lc", "w">>
    BY <2>2
  <2> QED
    BY <1>5, <1>8, <1>12, <2>2, <2>3, <2>4, <2>5, PlaneLists DEF Lined
<1>13. CASE s.mode = 8
  <2>1. B = <<Tone(s, "c", d.c), Tone(s, "m", d.m), Tone(s, "y", p.y), Tone(s, "k", d.k), Tone(s, "lc", d.lc), Tone(s, "lm", d.lm), Tone(s, "lk", d.lk), Tone(s, "llk", d.llk)>>
    BY <1>4, <1>6, <1>13 DEF Channels, InkModes
  <2>2. /\ Len(B) = 8 /\ DOMAIN B = 1..8
        /\ B[1].ink = "c" /\ B[2].ink = "m" /\ B[3].ink = "y" /\ B[4].ink = "k"
        /\ B[5].ink = "lc" /\ B[6].ink = "lm" /\ B[7].ink = "lk" /\ B[8].ink = "llk"
    BY <1>7, <2>1, InkOfTone
  <2>3. \A i \in 1..8 : B[i].ink = MaskKeys(8)[i]
    BY <2>2, KeyLists
  <2>4. PlaneOrder(s) = <<2, 1, 0, 3, 5, 4, 6, 7>>
    BY <1>13 DEF PlaneOrder, ChannelOrder, SettingOK
  <2>5. [n \in DOMAIN <<2, 1, 0, 3, 5, 4, 6, 7>> |-> B[<<2, 1, 0, 3, 5, 4, 6, 7>>[n] + 1].ink]
          = <<"y", "m", "c", "k", "lm", "lc", "lk", "llk">>
    BY <2>2
  <2> QED
    BY <1>5, <1>8, <1>13, <2>2, <2>3, <2>4, <2>5, PlaneLists DEF Lined
<1>14. CASE s.mode = 10
  <2>1. B = <<Tone(s, "c", d.c), Tone(s, "m", d.m), Tone(s, "y", p.y), Tone(s, "k", d.k), Tone(s, "lc", d.lc), Tone(s, "lm", d.lm), Tone(s, "lk", d.lk), Tone(s, "llk", d.llk), w, x>>
    BY <1>4, <1>6, <1>14 DEF Channels, InkModes
  <2>2. /\ Len(B) = 10 /\ DOMAIN B = 1..10
        /\ B[1].ink = "c" /\ B[2].ink = "m" /\ B[3].ink = "y" /\ B[4].ink = "k"
        /\ B[5].ink = "lc" /\ B[6].ink = "lm" /\ B[7].ink = "lk" /\ B[8].ink = "llk"
        /\ B[9].ink = "w" /\ B[10].ink = "v"
    BY <1>7, <2>1, InkOfTone
  <2>3. \A i \in 1..10 : B[i].ink = MaskKeys(10)[i]
    BY <2>2, KeyLists
  <2>4. PlaneOrder(s) = <<2, 1, 0, 3, 5, 4, 6, 7, 8, 9>>
    BY <1>14 DEF PlaneOrder, ChannelOrder, SettingOK
  <2>5. [n \in DOMAIN <<2, 1, 0, 3, 5, 4, 6, 7, 8, 9>> |-> B[<<2, 1, 0, 3, 5, 4, 6, 7, 8, 9>>[n] + 1].ink]
          = <<"y", "m", "c", "k", "lm", "lc", "lk", "llk", "w", "v">>
    BY <2>2
  <2> QED
    BY <1>5, <1>8, <1>14, <2>2, <2>3, <2>4, <2>5, PlaneLists DEF Lined
<1> QED
  BY <1>6, <1>9, <1>10, <1>11, <1>12, <1>13, <1>14 DEF InkModes

-----------------------------------------------------------------------------
(* -------- what the channels print of an ink ------------------------------ *)
\* An ink no channel carries prints nothing.
LEMMA TotalOfNone ==
    ASSUME NEW ts, NEW ink, \A i \in DOMAIN ts : ts[i].ink # ink
    PROVE  Total(ts, ink) = 0
<1>1. {i \in DOMAIN ts : ts[i].ink = ink} = {}
  OBVIOUS
<1> QED
  BY <1>1 DEF Total, MapThenSumSet, MapThenFoldSet

\* An ink one channel carries prints that channel's tone.
LEMMA TotalOfOne ==
    ASSUME NEW ts, NEW ink, NEW j \in DOMAIN ts, ts[j].v \in Nat,
           \A i \in DOMAIN ts : ts[i].ink = ink <=> i = j
    PROVE  Total(ts, ink) = ts[j].v
<1>1. {i \in DOMAIN ts : ts[i].ink = ink} = {j}
  OBVIOUS
<1> DEFINE Picked(S) == CHOOSE x \in S : TRUE
           sum[S \in SUBSET {j}] ==
             IF S = {} THEN 0
             ELSE LET x == Picked(S) IN ts[x].v + sum[S \ {x}]
<1>2. Total(ts, ink) = sum[{j}]
  BY <1>1 DEF Total, MapThenSumSet, MapThenFoldSet
<1>3. sum = [S \in SUBSET {j} |->
               IF S = {} THEN 0 ELSE ts[Picked(S)].v + sum[S \ {Picked(S)}]]
  <2> DEFINE f == [S \in SUBSET {j} |-> IF S = {} THEN 0 ELSE ts[j].v]
  <2>1. Picked({j}) = j /\ {j} \ {j} = {}
    OBVIOUS
  <2>2. \A S \in SUBSET {j} : S = {} \/ S = {j}
    OBVIOUS
  <2> HIDE DEF Picked
  <2>3. f = [S \in SUBSET {j} |->
               IF S = {} THEN 0 ELSE ts[Picked(S)].v + f[S \ {Picked(S)}]]
    <3>1. ASSUME NEW S \in SUBSET {j}
          PROVE  f[S] = IF S = {} THEN 0 ELSE ts[Picked(S)].v + f[S \ {Picked(S)}]
      <4>1. f[{}] = 0 /\ f[{j}] = ts[j].v
        OBVIOUS
      <4>2. CASE S = {}
        BY <4>1, <4>2
      <4>3. CASE S = {j}
        <5>1. Picked(S) = j /\ S \ {Picked(S)} = {} /\ S # {}
          BY <2>1, <4>3
        <5>2. ts[j].v + f[{}] = ts[j].v
          BY <4>1
        <5> QED
          BY <4>1, <4>3, <5>1, <5>2
      <4> QED
        BY <2>2, <4>2, <4>3
    <3>2. f = [S \in SUBSET {j} |-> f[S]]
      OBVIOUS
    <3> HIDE DEF f
    <3> QED
      BY <3>1, <3>2
  <2>4. \E g : g = [S \in SUBSET {j} |->
                     IF S = {} THEN 0 ELSE ts[Picked(S)].v + g[S \ {Picked(S)}]]
    BY <2>3
  <2> QED
    BY <2>4
<1> HIDE DEF sum
<1>4. sum[{}] = 0
  BY <1>3
<1>5. Picked({j}) = j /\ {j} \ {j} = {} /\ {j} # {}
  OBVIOUS
<1> HIDE DEF Picked
<1>6. sum[{j}] = ts[j].v + sum[{}]
  BY <1>3, <1>5
<1> QED
  BY <1>2, <1>4, <1>6

-----------------------------------------------------------------------------
(* -------- the splits of a pixel ----------------------------------------- *)
\* What the splits of a pixel keep, and what they make of a blank one.
Kept(s, p, d) ==
    /\ s.curves = {} =>
         /\ d.c \in Nat /\ d.lc \in Nat /\ d.c + d.lc <= p.c
         /\ d.m \in Nat /\ d.lm \in Nat /\ d.m + d.lm <= p.m
         /\ d.k \in Nat /\ d.lk \in Nat /\ d.llk \in Nat /\ d.k + d.lk + d.llk >= p.k
         /\ Apart(s.window) => d.k + d.lk + d.llk = p.k
         /\ ~(s.gcr.on /\ IsNeutral(s.gcr, p)) => d.c + d.lc = p.c /\ d.m + d.lm = p.m
    /\ p.c = 0 /\ p.m = 0 /\ p.y = 0 /\ p.k = 0 =>
         /\ d.c = 0 /\ d.m = 0 /\ d.k = 0 /\ d.lc = 0 /\ d.lm = 0 /\ d.lk = 0 /\ d.llk = 0

\* The splits and the fades lose no more ink than they may, whatever the windows.
LEMMA SplitsKeep ==
    ASSUME NEW s, SettingOK(s), NEW p \in PixelType
    PROVE  Kept(s, p, SplitTones(s, p))
<1> DEFINE fades == s.mode \in {8, 10} /\ s.gcr.on /\ IsNeutral(s.gcr, p)
           light(v, pct) == IF fades THEN Fade(v, pct) ELSE v
<1>1. p.c \in Tones /\ p.m \in Tones /\ p.y \in Tones /\ p.k \in Tones
  BY DEF PixelType
<1>2. p.c \in Nat /\ p.m \in Nat /\ p.y \in Nat /\ p.k \in Nat
  BY <1>1, TonesAreNumbers
<1>3. s.gcr.lcFade \in 0..100 /\ s.gcr.lmFade \in 0..100 /\ s.window \in WindowType
  BY DEF SettingOK, GcrType
<1>4. ASSUME NEW v \in Nat, NEW pct \in 0..100
      PROVE  light(v, pct) \in Nat /\ light(v, pct) <= v /\ (~fades => light(v, pct) = v)
  <2>1. Fade(v, pct) \in Nat /\ Fade(v, pct) <= v
    BY FadeTakes
  <2>2. light(v, pct) = Fade(v, pct) \/ light(v, pct) = v
    OBVIOUS
  <2>3. ~fades => light(v, pct) = v
    OBVIOUS
  <2> HIDE DEF light, fades
  <2> QED
    BY <2>1, <2>2, <2>3
<1>5. PICK c : c = Split2(p.c, s.window)
  OBVIOUS
<1>6. PICK m : m = Split2(p.m, s.window)
  OBVIOUS
<1>7. PICK k : k = Split3(p.k, s.window)
  OBVIOUS
<1>8. c.dark \in Nat /\ c.light \in Nat /\ c.dark + c.light = p.c
  BY <1>1, <1>3, <1>5, SplitInTwo
<1>9. m.dark \in Nat /\ m.light \in Nat /\ m.dark + m.light = p.m
  BY <1>1, <1>3, <1>6, SplitInTwo
<1>10. /\ k.k \in Nat /\ k.lk \in Nat /\ k.llk \in Nat /\ k.k + k.lk + k.llk >= p.k
       /\ Apart(s.window) \/ p.k = 0 => k.k + k.lk + k.llk = p.k
  BY <1>1, <1>3, <1>7, SplitInThree
<1>11. PICK d : d = SplitTones(s, p)
  OBVIOUS
<1>12. CASE s.curves = {}
  <2>1. d = [c |-> c.dark, m |-> m.dark, k |-> k.k,
             lc |-> light(c.light, s.gcr.lcFade), lm |-> light(m.light, s.gcr.lmFade),
             lk |-> k.lk, llk |-> k.llk]
    BY <1>5, <1>6, <1>7, <1>11, <1>12 DEF SplitTones
  <2> HIDE DEF fades, light
  <2>2. /\ d.c = c.dark /\ d.m = m.dark /\ d.k = k.k /\ d.lk = k.lk /\ d.llk = k.llk
        /\ d.lc = light(c.light, s.gcr.lcFade) /\ d.lm = light(m.light, s.gcr.lmFade)
    BY <2>1
  <2>3. /\ d.lc \in Nat /\ d.lc <= c.light /\ (~fades => d.lc = c.light)
        /\ d.lm \in Nat /\ d.lm <= m.light /\ (~fades => d.lm = m.light)
    BY <1>3, <1>4, <1>8, <1>9, <2>2
  <2>4. ~(s.gcr.on /\ IsNeutral(s.gcr, p)) => ~fades
    BY DEF fades
  <2>5. /\ d.c + d.lc <= p.c /\ d.m + d.lm <= p.m
        /\ ~fades => d.c + d.lc = p.c /\ d.m + d.lm = p.m
    BY <1>2, <1>8, <1>9, <2>2, <2>3
  <2>6. ASSUME p.c = 0, p.m = 0, p.k = 0
        PROVE  d.c = 0 /\ d.m = 0 /\ d.k = 0 /\ d.lc = 0 /\ d.lm = 0 /\ d.lk = 0 /\ d.llk = 0
    <3>1. c.dark = 0 /\ c.light = 0
      BY <1>8, <2>6
    <3>2. m.dark = 0 /\ m.light = 0
      BY <1>9, <2>6
    <3>3. k.k = 0 /\ k.lk = 0 /\ k.llk = 0
      BY <1>10, <2>6
    <3>4. d.lc = 0 /\ d.lm = 0
      BY <2>3, <3>1, <3>2
    <3> QED
      BY <2>2, <3>1, <3>2, <3>3, <3>4
  <2> QED
    BY <1>8, <1>9, <1>10, <1>11, <2>2, <2>3, <2>4, <2>5, <2>6 DEF Kept
<1>13. CASE s.curves # {}
  <2>1. d = [c |-> p.c, m |-> p.m, k |-> p.k,
             lc |-> light(p.c, s.gcr.lcFade), lm |-> light(p.m, s.gcr.lmFade),
             lk |-> p.k, llk |-> p.k]
    BY <1>11, <1>13 DEF SplitTones
  <2> HIDE DEF fades, light
  <2>2. /\ d.c = p.c /\ d.m = p.m /\ d.k = p.k /\ d.lk = p.k /\ d.llk = p.k
        /\ d.lc = light(p.c, s.gcr.lcFade) /\ d.lm = light(p.m, s.gcr.lmFade)
    BY <2>1
  <2>3. d.lc \in Nat /\ d.lc <= p.c /\ d.lm \in Nat /\ d.lm <= p.m
    BY <1>2, <1>3, <1>4, <2>2
  <2> QED
    BY <1>2, <1>11, <1>13, <2>2, <2>3 DEF Kept
<1> QED
  BY <1>12, <1>13

\* No mode has two channels of one ink.
LEMMA KeysDiffer ==
    ASSUME NEW n \in InkModes, NEW i \in 1..n, NEW j \in 1..n,
           MaskKeys(n)[i] = MaskKeys(n)[j]
    PROVE  i = j
<1>1. CASE n = 4
  BY <1>1, KeyLists
<1>2. CASE n = 5
  BY <1>2, KeyLists
<1>3. CASE n = 6
  BY <1>3, KeyLists
<1>4. CASE n = 7
  BY <1>4, KeyLists
<1>5. CASE n = 8
  BY <1>5, KeyLists
<1>6. CASE n = 10
  BY <1>6, KeyLists
<1> QED
  BY <1>1, <1>2, <1>3, <1>4, <1>5, <1>6 DEF InkModes

\* Channels that carry the inks of their masks.
Keyed(n, ts) == DOMAIN ts = 1..n /\ \A i \in 1..n : ts[i].ink = MaskKeys(n)[i]

\* What they print of an ink.
PrintsOf(n, ts, ink) ==
    /\ \A j \in 1..n : MaskKeys(n)[j] = ink /\ ts[j].v \in Nat => Total(ts, ink) = ts[j].v
    /\ (\A j \in 1..n : MaskKeys(n)[j] # ink) => Total(ts, ink) = 0

\* An ink of the mode is printed by the channel of its mask, another by none.
LEMMA TotalAt ==
    ASSUME NEW n \in InkModes, NEW ts, Keyed(n, ts), NEW ink
    PROVE  PrintsOf(n, ts, ink)
<1>1. ASSUME NEW j \in 1..n, MaskKeys(n)[j] = ink, ts[j].v \in Nat
      PROVE  Total(ts, ink) = ts[j].v
  <2>1. \A i \in DOMAIN ts : ts[i].ink = ink <=> i = j
    BY <1>1, KeysDiffer DEF Keyed
  <2> QED
    BY <1>1, <2>1, TotalOfOne DEF Keyed
<1>2. ASSUME \A j \in 1..n : MaskKeys(n)[j] # ink PROVE Total(ts, ink) = 0
  <2>1. \A i \in DOMAIN ts : ts[i].ink # ink
    BY <1>2 DEF Keyed
  <2> QED
    BY <2>1, TotalOfNone
<1> QED
  BY <1>1, <1>2 DEF PrintsOf

\* The tones of the seven inks a CMYK pixel is printed with, and the total of each.
Printed(B, c, m, k, lc, lm, lk, llk) ==
    /\ Total(B, "c") = c /\ Total(B, "m") = m /\ Total(B, "k") = k
    /\ Total(B, "lc") = lc /\ Total(B, "lm") = lm
    /\ Total(B, "lk") = lk /\ Total(B, "llk") = llk

\* The channels as the mode builds them, of the tones p and their splits d.
Filled(s, B, p, d) ==
    /\ Keyed(s.mode, B)
    /\ s.mode \in {4, 5} => /\ B[1].v = p.c /\ B[2].v = p.m /\ B[3].v = p.y /\ B[4].v = p.k
    /\ s.mode \in {6, 7} => /\ B[1].v = d.c /\ B[2].v = d.m /\ B[3].v = p.y /\ B[4].v = p.k
                            /\ B[5].v = d.lm /\ B[6].v = d.lc
    /\ s.mode \in {8, 10} => /\ B[1].v = d.c /\ B[2].v = d.m /\ B[3].v = p.y /\ B[4].v = d.k
                             /\ B[5].v = d.lc /\ B[6].v = d.lm
                             /\ B[7].v = d.lk /\ B[8].v = d.llk

\* The builder fills the channels in that way.
LEMMA ChannelsFilled ==
    ASSUME NEW s, SettingOK(s), NEW px, NEW plates
    PROVE  LET p == GreyReplaced(s, px)
           IN  Filled(s, BuildToneChannels(s, px, plates), p, SplitTones(s, p))
<1>1. PICK p : p = GreyReplaced(s, px)
  OBVIOUS
<1>2. PICK w : w = White(s, p, plates)
  OBVIOUS
<1>3. PICK x : x = Varnish(s, p, plates)
  OBVIOUS
<1>4. PICK d : d = SplitTones(s, p)
  OBVIOUS
<1>5. PICK B : B = BuildToneChannels(s, px, plates)
  OBVIOUS
<1>6. B = Channels(s, p, w, x)[s.mode] /\ s.mode \in InkModes
  BY <1>1, <1>2, <1>3, <1>5, Built DEF SettingOK
<1>7. ASSUME DOMAIN B = 1..s.mode
      PROVE  \A i \in 1..s.mode : B[i].ink = MaskKeys(s.mode)[i]
  <2>1. Lined(s, B)
    BY <1>5, TablesAgree
  <2>2. \A i \in DOMAIN B : B[i].ink = MaskKeys(s.mode)[i]
    BY <2>1, Zenon DEF Lined
  <2> QED
    BY <1>7, <2>2
<1>8. CASE s.mode = 4
  <2>1. B = <<Tone(s, "c", p.c), Tone(s, "m", p.m), Tone(s, "y", p.y), Tone(s, "k", p.k)>>
    BY <1>4, <1>6, <1>8 DEF Channels, InkModes
  <2>2. /\ DOMAIN B = 1..4
        /\ B[1].v = p.c /\ B[2].v = p.m /\ B[3].v = p.y /\ B[4].v = p.k
    BY <2>1, InkOfTone
  <2> QED
    BY <1>1, <1>4, <1>5, <1>7, <1>8, <2>2 DEF Filled, Keyed
<1>9. CASE s.mode = 5
  <2>1. B = <<Tone(s, "c", p.c), Tone(s, "m", p.m), Tone(s, "y", p.y), Tone(s, "k", p.k), w>>
    BY <1>4, <1>6, <1>9 DEF Channels, InkModes
  <2>2. /\ DOMAIN B = 1..5
        /\ B[1].v = p.c /\ B[2].v = p.m /\ B[3].v = p.y /\ B[4].v = p.k
    BY <2>1, InkOfTone
  <2> QED
    BY <1>1, <1>4, <1>5, <1>7, <1>9, <2>2 DEF Filled, Keyed
<1>10. CASE s.mode = 6
  <2>1. B = <<Tone(s, "c", d.c), Tone(s, "m", d.m), Tone(s, "y", p.y), Tone(s, "k", p.k), Tone(s, "lm", d.lm), Tone(s, "lc", d.lc)>>
    BY <1>4, <1>6, <1>10 DEF Channels, InkModes
  <2>2. /\ DOMAIN B = 1..6
        /\ B[1].v = d.c /\ B[2].v = d.m /\ B[3].v = p.y /\ B[4].v = p.k
        /\ B[5].v = d.lm /\ B[6].v = d.lc
    BY <2>1, InkOfTone
  <2> QED
    BY <1>1, <1>4, <1>5, <1>7, <1>10, <2>2 DEF Filled, Keyed
<1>11. CASE s.mode = 7
  <2>1. B = <<Tone(s, "c", d.c), Tone(s, "m", d.m), Tone(s, "y", p.y), Tone(s, "k", p.k), Tone(s, "lm", d.lm), Tone(s, "lc", d.lc), w>>
    BY <1>4, <1>6, <1>11 DEF Channels, InkModes
  <2>2. /\ DOMAIN B = 1..7
        /\ B[1].v = d.c /\ B[2].v = d.m /\ B[3].v = p.y /\ B[4].v = p.k
        /\ B[5].v = d.lm /\ B[6].v = d.lc
    BY <2>1, InkOfTone
  <2> QED
    BY <1>1, <1>4, <1>5, <1>7, <1>11, <2>2 DEF Filled, Keyed
<1>12. CASE s.mode = 8
  <2>1. B = <<Tone(s, "c", d.c), Tone(s, "m", d.m), Tone(s, "y", p.y), Tone(s, "k", d.k), Tone(s, "lc", d.lc), Tone(s, "lm", d.lm), Tone(s, "lk", d.lk), Tone(s, "llk", d.llk)>>
    BY <1>4, <1>6, <1>12 DEF Channels, InkModes
  <2>2. /\ DOMAIN B = 1..8
        /\ B[1].v = d.c /\ B[2].v = d.m /\ B[3].v = p.y /\ B[4].v = d.k
        /\ B[5].v = d.lc /\ B[6].v = d.lm /\ B[7].v = d.lk /\ B[8].v = d.llk
    BY <2>1, InkOfTone
  <2> QED
    BY <1>1, <1>4, <1>5, <1>7, <1>12, <2>2 DEF Filled, Keyed
<1>13. CASE s.mode = 10
  <2>1. B = <<Tone(s, "c", d.c), Tone(s, "m", d.m), Tone(s, "y", p.y), Tone(s, "k", d.k), Tone(s, "lc", d.lc), Tone(s, "lm", d.lm), Tone(s, "lk", d.lk), Tone(s, "llk", d.llk), w, x>>
    BY <1>4, <1>6, <1>13 DEF Channels, InkModes
  <2>2. /\ DOMAIN B = 1..10
        /\ B[1].v = d.c /\ B[2].v = d.m /\ B[3].v = p.y /\ B[4].v = d.k
        /\ B[5].v = d.lc /\ B[6].v = d.lm /\ B[7].v = d.lk /\ B[8].v = d.llk
    BY <2>1, InkOfTone
  <2> QED
    BY <1>1, <1>4, <1>5, <1>7, <1>13, <2>2 DEF Filled, Keyed
<1> QED
  BY <1>6, <1>8, <1>9, <1>10, <1>11, <1>12, <1>13 DEF InkModes

-----------------------------------------------------------------------------
(* -------- the two properties, for a pixel and a setting ------------------ *)
\* What TonesConserveInk says of a setting s, a pixel px and its channels B.
Conserves(s, px, B) ==
    LET p == GreyReplaced(s, px)
        v(ink) == Total(B, ink)
        black == v("k") + v("lk") + v("llk")
        faded == s.gcr.on /\ IsNeutral(s.gcr, p)
    IN  /\ p.c - p.m = px.c - px.m /\ p.m - p.y = px.m - px.y
        /\ p.k >= px.k
        /\ s.curves = {} =>
             /\ black >= p.k /\ (Apart(s.window) => black = p.k)
             /\ v("c") + v("lc") <= p.c /\ v("m") + v("lm") <= p.m
             /\ ~faded => v("c") + v("lc") = p.c /\ v("m") + v("lm") = p.m
        /\ Coverage(px) = 0 =>
             \A i \in DOMAIN B : B[i].ink \notin {"w", "v"} => B[i].v = 0

\* The tones the builder makes of a pixel conserve its ink.
LEMMA BuilderConserves ==
    ASSUME NEW s, SettingOK(s), NEW px \in PixelType, NEW plates
    PROVE  Conserves(s, px, BuildToneChannels(s, px, plates))
<1>1. PICK p : p = GreyReplaced(s, px)
  OBVIOUS
<1>2. PICK d : d = SplitTones(s, p)
  OBVIOUS
<1>3. PICK B : B = BuildToneChannels(s, px, plates)
  OBVIOUS
<1>4. /\ px.c \in Nat /\ px.m \in Nat /\ px.y \in Nat /\ px.k \in Nat
  BY TonesAreNumbers DEF PixelType
<1>5. /\ p \in PixelType
      /\ p.c - p.m = px.c - px.m /\ p.m - p.y = px.m - px.y /\ p.k >= px.k
      /\ px.c = 0 /\ px.m = 0 /\ px.y = 0 /\ px.k = 0
           => p.c = 0 /\ p.m = 0 /\ p.y = 0 /\ p.k = 0
  <2>1. CASE s.x33
    BY <1>1, <1>4, <2>1 DEF GreyReplaced
  <2>2. CASE ~s.x33
    <3>1. p = GcrNeutralTransfer(s.gcr, px) /\ s.gcr \in GcrType
      BY <1>1, <2>2 DEF GreyReplaced, SettingOK
    <3> QED
      BY <3>1, GreyKept
  <2> QED
    BY <2>1, <2>2
<1>6. /\ p.c \in Nat /\ p.m \in Nat /\ p.y \in Nat /\ p.k \in Nat
  BY <1>5, TonesAreNumbers DEF PixelType
<1>7. Kept(s, p, d)
  BY <1>2, <1>5, SplitsKeep
<1>8. Filled(s, B, p, d)
  BY <1>1, <1>2, <1>3, ChannelsFilled
<1>9. s.mode \in InkModes
  BY DEF SettingOK
<1>10. ASSUME NEW ink PROVE PrintsOf(s.mode, B, ink)
  BY <1>8, <1>9, TotalAt DEF Filled
<1>11. ASSUME s.curves = {}
       PROVE  \/ s.mode \in {4, 5} /\ Printed(B, p.c, p.m, p.k, 0, 0, 0, 0)
              \/ s.mode \in {6, 7} /\ Printed(B, d.c, d.m, p.k, d.lc, d.lm, 0, 0)
              \/ s.mode \in {8, 10} /\ Printed(B, d.c, d.m, d.k, d.lc, d.lm, d.lk, d.llk)
  <2>1. CASE s.mode \in {4, 5}
    <3>1. /\ MaskKeys(s.mode)[1] = "c" /\ MaskKeys(s.mode)[2] = "m" /\ MaskKeys(s.mode)[4] = "k"
          /\ \A j \in 1..s.mode : MaskKeys(s.mode)[j] \notin {"lc", "lm", "lk", "llk"}
      BY <2>1, KeyLists
    <3>2. 1 \in 1..s.mode /\ 2 \in 1..s.mode /\ 4 \in 1..s.mode
      BY <2>1
    <3>3. B[1].v = p.c /\ B[2].v = p.m /\ B[4].v = p.k
      BY <1>8, <2>1 DEF Filled
    <3>4. Total(B, "c") = p.c /\ Total(B, "m") = p.m /\ Total(B, "k") = p.k
      BY <1>6, <1>10, <3>1, <3>2, <3>3 DEF PrintsOf
    <3>5. /\ Total(B, "lc") = 0 /\ Total(B, "lm") = 0 /\ Total(B, "lk") = 0
          /\ Total(B, "llk") = 0
      BY <1>10, <3>1 DEF PrintsOf
    <3> QED
      BY <2>1, <3>4, <3>5 DEF Printed
  <2>2. CASE s.mode \in {6, 7}
    <3>1. /\ MaskKeys(s.mode)[1] = "c" /\ MaskKeys(s.mode)[2] = "m" /\ MaskKeys(s.mode)[4] = "k"
          /\ MaskKeys(s.mode)[5] = "lm" /\ MaskKeys(s.mode)[6] = "lc"
          /\ \A j \in 1..s.mode : MaskKeys(s.mode)[j] \notin {"lk", "llk"}
      BY <2>2, KeyLists
    <3>2. /\ 1 \in 1..s.mode /\ 2 \in 1..s.mode /\ 4 \in 1..s.mode
          /\ 5 \in 1..s.mode /\ 6 \in 1..s.mode
      BY <2>2
    <3>3. B[1].v = d.c /\ B[2].v = d.m /\ B[4].v = p.k /\ B[5].v = d.lm /\ B[6].v = d.lc
      BY <1>8, <2>2 DEF Filled, Keyed
    <3>4. d.c \in Nat /\ d.m \in Nat /\ d.lc \in Nat /\ d.lm \in Nat
      BY <1>7, <1>11 DEF Kept
    <3>5. /\ Total(B, "c") = d.c /\ Total(B, "m") = d.m /\ Total(B, "k") = p.k
          /\ Total(B, "lm") = d.lm /\ Total(B, "lc") = d.lc
      BY <1>6, <1>10, <3>1, <3>2, <3>3, <3>4 DEF PrintsOf
    <3>6. Total(B, "lk") = 0 /\ Total(B, "llk") = 0
      BY <1>10, <3>1 DEF PrintsOf
    <3> QED
      BY <2>2, <3>5, <3>6 DEF Printed
  <2>3. CASE s.mode \in {8, 10}
    <3>1. /\ MaskKeys(s.mode)[1] = "c" /\ MaskKeys(s.mode)[2] = "m" /\ MaskKeys(s.mode)[4] = "k"
          /\ MaskKeys(s.mode)[5] = "lc" /\ MaskKeys(s.mode)[6] = "lm"
          /\ MaskKeys(s.mode)[7] = "lk" /\ MaskKeys(s.mode)[8] = "llk"
      BY <2>3, KeyLists
    <3>2. /\ 1 \in 1..s.mode /\ 2 \in 1..s.mode /\ 4 \in 1..s.mode /\ 5 \in 1..s.mode
          /\ 6 \in 1..s.mode /\ 7 \in 1..s.mode /\ 8 \in 1..s.mode
      BY <2>3
    <3>3. /\ B[1].v = d.c /\ B[2].v = d.m /\ B[4].v = d.k /\ B[5].v = d.lc /\ B[6].v = d.lm
          /\ B[7].v = d.lk /\ B[8].v = d.llk
      BY <1>8, <2>3 DEF Filled
    <3>4. /\ d.c \in Nat /\ d.m \in Nat /\ d.k \in Nat /\ d.lc \in Nat /\ d.lm \in Nat
          /\ d.lk \in Nat /\ d.llk \in Nat
      BY <1>7, <1>11 DEF Kept
    <3>5. /\ Total(B, "c") = d.c /\ Total(B, "m") = d.m /\ Total(B, "k") = d.k
          /\ Total(B, "lc") = d.lc /\ Total(B, "lm") = d.lm
      BY <1>10, <3>1, <3>2, <3>3, <3>4 DEF PrintsOf
    <3>6. Total(B, "lk") = d.lk /\ Total(B, "llk") = d.llk
      BY <1>10, <3>1, <3>2, <3>3, <3>4 DEF PrintsOf
    <3> QED
      BY <2>3, <3>5, <3>6 DEF Printed
  <2> QED
    BY <1>9, <2>1, <2>2, <2>3 DEF InkModes
<1>12. ASSUME s.curves = {}
       PROVE  /\ Total(B, "k") + Total(B, "lk") + Total(B, "llk") >= p.k
              /\ Apart(s.window) => Total(B, "k") + Total(B, "lk") + Total(B, "llk") = p.k
              /\ Total(B, "c") + Total(B, "lc") <= p.c /\ Total(B, "m") + Total(B, "lm") <= p.m
              /\ ~(s.gcr.on /\ IsNeutral(s.gcr, p)) =>
                   Total(B, "c") + Total(B, "lc") = p.c /\ Total(B, "m") + Total(B, "lm") = p.m
  BY <1>6, <1>7, <1>11, <1>12 DEF Kept, Printed
<1>13. ASSUME Coverage(px) = 0
       PROVE  \A i \in DOMAIN B : B[i].ink \notin {"w", "v"} => B[i].v = 0
  <2>1. px.c = 0 /\ px.m = 0 /\ px.y = 0 /\ px.k = 0
    BY <1>4, <1>13, GreatestOfFour DEF Coverage
  <2>2. p.c = 0 /\ p.m = 0 /\ p.y = 0 /\ p.k = 0
    BY <1>5, <2>1
  <2>3. d.c = 0 /\ d.m = 0 /\ d.k = 0 /\ d.lc = 0 /\ d.lm = 0 /\ d.lk = 0 /\ d.llk = 0
    BY <1>7, <2>2 DEF Kept
  <2>4. SUFFICES ASSUME NEW i \in 1..s.mode, MaskKeys(s.mode)[i] \notin {"w", "v"}
                 PROVE  B[i].v = 0
    BY <1>8 DEF Filled, Keyed
  <2>5. CASE s.mode \in {4, 5}
    <3>1. i \in 1..4
      BY <2>4, <2>5, KeyLists
    <3> QED
      BY <1>8, <2>2, <2>5, <3>1 DEF Filled
  <2>6. CASE s.mode \in {6, 7}
    <3>1. i \in 1..6
      BY <2>4, <2>6, KeyLists
    <3> QED
      BY <1>8, <2>2, <2>3, <2>6, <3>1 DEF Filled
  <2>7. CASE s.mode \in {8, 10}
    <3>1. i \in 1..8
      BY <2>4, <2>7, KeyLists
    <3> QED
      BY <1>8, <2>2, <2>3, <2>7, <3>1 DEF Filled
  <2> QED
    BY <1>9, <2>5, <2>6, <2>7 DEF InkModes
<1> QED
  BY <1>1, <1>3, <1>5, <1>12, <1>13 DEF Conserves

\* Telling the plates apart by their paths finds the right one, unless white and
\* varnish name one file and white is not in plate mode.
LEMMA PlatesFound ==
    ASSUME NEW s, SettingOK(s), s.whitePlate # s.varnishPlate \/ s.whiteMode = 3, NEW px
    PROVE  BuildToneChannels(s, px, BoundedPlates(s)) = BuildToneChannels(s, px, MemoryPlates(s))
<1>1. PICK p : p = GreyReplaced(s, px)
  OBVIOUS
<1>2. PICK b : b = BoundedPlates(s)
  OBVIOUS
<1>3. PICK m : m = MemoryPlates(s)
  OBVIOUS
<1>4. m.w = s.whitePlate /\ m.v = s.varnishPlate
  BY <1>3 DEF MemoryPlates
<1>5. b.w = BoundedPlate(s, s.whitePlate) /\ b.v = BoundedPlate(s, s.varnishPlate)
  BY <1>2 DEF BoundedPlates
<1>6. (s.whiteMode = 3 => b.w = m.w) /\ (s.varnishMode = 3 => b.v = m.v)
  BY <1>4, <1>5 DEF BoundedPlate
<1>7. White(s, p, b) = White(s, p, m)
  BY <1>6 DEF White, Specialty
<1>8. Varnish(s, p, b) = Varnish(s, p, m)
  BY <1>6 DEF Varnish, Specialty
<1>9. PICK w : w = White(s, p, b)
  OBVIOUS
<1>10. PICK x : x = Varnish(s, p, b)
  OBVIOUS
<1>11. BuildToneChannels(s, px, b) = Channels(s, p, w, x)[s.mode]
  BY <1>1, <1>9, <1>10, Built
<1>12. BuildToneChannels(s, px, m) = Channels(s, p, w, x)[s.mode]
  BY <1>1, <1>7, <1>8, <1>9, <1>10, Built
<1> QED
  BY <1>2, <1>3, <1>11, <1>12

-----------------------------------------------------------------------------
(* -------- the way of a pixel -------------------------------------------- *)
TSpec == TInit /\ [][TNext]_tvars

\* A pixel is one of tones, its setting is one of a page, and its channels are
\* what the builder makes of the two.
TonesInv ==
    /\ SettingOK(setting) /\ pixel \in PixelType
    /\ tpc = "toned" => tones = BuildToneChannels(setting, pixel, BoundedPlates(setting))

\* It holds of a pixel as the source has it.
LEMMA InitialTones == TInit => TonesInv
<1> SUFFICES ASSUME TInit PROVE TonesInv
  OBVIOUS
<1>1. setting \in Settings /\ Sensible(setting) /\ pixel \in PixelType /\ tpc = "source"
  BY ToneAssumption DEF TInit
<1>2. /\ setting.x33 \in BOOLEAN /\ setting.mode \in InkModes /\ setting.gcr \in Gcrs
      /\ setting.window \in Windows
  BY <1>1 DEF Settings
<1>3. setting.gcr \in GcrType /\ setting.window \in WindowType
  BY <1>2, ToneAssumption DEF GcrType, WindowType
<1> QED
  BY <1>1, <1>2, <1>3 DEF TonesInv, SettingOK, Sensible

\* Every step keeps it: the alpha mask, the builder, and the X-33 that refuses.
LEMMA TonesStep == TonesInv /\ [TNext]_tvars => TonesInv'
<1> SUFFICES ASSUME TonesInv, [TNext]_tvars PROVE TonesInv'
  OBVIOUS
<1>1. CASE MaskAlpha
  <2>1. PICK a \in Alphas : pixel' = [i \in DOMAIN pixel |-> ApplyAlpha(pixel[i], a)]
    BY <1>1 DEF MaskAlpha
  <2>2. a \in Tones
    BY ToneAssumption
  <2>3. /\ DOMAIN pixel = {"c", "m", "y", "k"} /\ pixel.c \in Tones /\ pixel.m \in Tones
        /\ pixel.y \in Tones /\ pixel.k \in Tones
    BY DEF TonesInv, PixelType
  <2>4. pixel' = [c |-> ApplyAlpha(pixel.c, a), m |-> ApplyAlpha(pixel.m, a),
                  y |-> ApplyAlpha(pixel.y, a), k |-> ApplyAlpha(pixel.k, a)]
    BY <2>1, <2>3
  <2>5. pixel' \in PixelType
    BY <2>2, <2>3, <2>4, AlphaInRange DEF PixelType
  <2> QED
    BY <1>1, <2>5 DEF TonesInv, MaskAlpha
<1>2. CASE BuildTones
  <2>1. /\ pixel' = pixel /\ setting' = setting
        /\ tones' = BuildToneChannels(setting, pixel, BoundedPlates(setting))
    BY <1>2 DEF BuildTones
  <2> QED
    BY <2>1 DEF TonesInv
<1>3. CASE RefusePlate
  BY <1>3 DEF RefusePlate, TonesInv
<1>4. CASE UNCHANGED tvars
  BY <1>4 DEF tvars, TonesInv
<1> QED
  BY <1>1, <1>2, <1>3, <1>4 DEF TNext

\* The invariant of the tones, for every pixel, setting and tone width.
THEOREM TonesInvariant == TSpec => []TonesInv
<1>1. TInit => TonesInv
  BY InitialTones
<1>2. TonesInv /\ [TNext]_tvars => TonesInv'
  BY TonesStep
<1> QED
  BY <1>1, <1>2, PTL DEF TSpec

\* TonesConserveInk (MultiInkToneBuilder.cpp:111-252): replacing grey keeps the
\* hue and never takes black away, a split without curves neither loses nor makes
\* ink but for the fade and the overlapping windows, and a blank pixel prints no
\* colour.
THEOREM InkIsConserved == TSpec => []TonesConserveInk
<1>1. TonesInv => TonesConserveInk
  <2> SUFFICES ASSUME TonesInv, tpc = "toned" PROVE TonesConserveInk
    BY DEF TonesConserveInk
  <2>1. tones = BuildToneChannels(setting, pixel, BoundedPlates(setting))
    BY DEF TonesInv
  <2>2. Conserves(setting, pixel, tones)
    BY <2>1, BuilderConserves DEF TonesInv
  <2> QED
    BY <2>2, Zenon DEF Conserves, TonesConserveInk
<1> QED
  BY <1>1, TonesInvariant, PTL

\* EveryPlaneIsItsInk (MultiInkToneBuilder.cpp:428-708, PrintJobMultiInk.cpp:638-719
\* and 1005-1012): the tone builder, the masks and the plane order agree in every
\* mode, and the bounded path builds what the whole-frame path builds.
THEOREM PlanesAreInks == TSpec => []EveryPlaneIsItsInk
<1>1. TonesInv => EveryPlaneIsItsInk
  <2> SUFFICES ASSUME TonesInv, tpc = "toned" PROVE EveryPlaneIsItsInk
    BY DEF EveryPlaneIsItsInk
  <2>1. SettingOK(setting)
        /\ tones = BuildToneChannels(setting, pixel, BoundedPlates(setting))
    BY DEF TonesInv
  <2>2. Lined(setting, tones)
    BY <2>1, TablesAgree
  <2>3. setting.whitePlate # setting.varnishPlate \/ setting.whiteMode = 3 =>
          tones = BuildToneChannels(setting, pixel, MemoryPlates(setting))
    BY <2>1, PlatesFound
  <2> QED
    BY <2>2, <2>3, Zenon DEF Lined, EveryPlaneIsItsInk
<1> QED
  BY <1>1, TonesInvariant, PTL
=============================================================================
