---- MODULE RasterJob ----
(***************************************************************************)
(* The runs of one pipeline object (rip/PrintJobCMYK.cpp, the X-33, or     *)
(* rip/PrintJobMultiInk.cpp): prepare, load, convert, rasterise in memory  *)
(* or in bounded strips, print or write the PRN, clean up, report.  A run  *)
(* is a pool thread; the object's image, settings and cancel flag are      *)
(* shared by all its runs, and the window lets the user start another run  *)
(* while one works.                                                        *)
(***************************************************************************)
EXTENDS Integers, FiniteSets

CONSTANTS Runs

VARIABLES
    pipeline,  \* "x33" or "multi": the class of the object
    kind,      \* of a run: "prn" or "direct"
    plate,     \* of a run: is the plate file it asks for there?
    stage,     \* of a run: what it does next
    ok,        \* of a run: the result it reports
    image,     \* runs whose picture is in inputImage and the alpha mask
    setup,     \* runs whose settings a read of the object may return
    from,      \* of a run: the runs its spool was made from
    files,     \* <<run, kind of file>> in the scratch directory
    cancel,    \* m_cancelRequested
    busy,      \* appState.isGeneratingPRN
    told,      \* of a run: prnGenerationFinished signals
    asked,     \* runs the user has canceled, with no run started since
    mingled    \* runs that were under way together with another

jobOnly == <<pipeline, kind, plate>>
jvars == <<jobOnly, stage, ok, image, setup, from, files, cancel,
           busy, told, asked, mingled>>

Ended == {"idle", "told", "lost"}
Active == {r \in Runs : stage[r] \notin Ended}
(* The stages that still look at the cancel flag.  The last look is at the *)
(* last piece of the checksum; a sealed spool is renamed whatever it says, *)
(* but for a memory run that fails there and falls back.                   *)
Watched == {"prepare", "load", "convert", "build", "memory", "memoryWriter",
            "memoryFinal", "canonical", "plate", "writer", "screen", "final"}
UsesImage == {"convert", "build", "memory", "memoryWriter", "memoryFinal",
              "memorySealed", "canonical"}
UsesSettings == (Watched \ {"prepare"}) \union {"memorySealed"}
Scratch(r) == {f \in files : f[1] = r}
(* The X-33 refuses settings whose plate is missing; the multi-ink path    *)
(* prints without.  A run reads white mode and plate path in the object:   *)
(* while others overwrite them, any one's may be what it finds.            *)
PlateRefused(s) == pipeline = "x33" /\ plate[s] = "missing"
PlatePasses == \E s \in setup : ~PlateRefused(s)

JInit ==
    /\ pipeline \in {"x33", "multi"}
    /\ kind \in [Runs -> {"prn", "direct"}]
    /\ plate \in [Runs -> {"found", "missing"}]
    /\ stage = [r \in Runs |-> "idle"] /\ ok = [r \in Runs |-> FALSE]
    /\ image = {} /\ setup = {} /\ from = [r \in Runs |-> {}]
    /\ files = {} /\ cancel = FALSE /\ busy = FALSE
    /\ told = [r \in Runs |-> 0] /\ asked = {} /\ mingled = {}

(* The flag is cleared, whoever set it, and a pool thread starts.  *)
Begin(r) ==
    /\ stage[r] = "idle"
    /\ stage' = [stage EXCEPT ![r] = "prepare"]
    /\ cancel' = FALSE /\ asked' = {} /\ busy' = TRUE
    /\ mingled' = IF Active = {} THEN mingled ELSE mingled \union Active \union {r}
    /\ UNCHANGED <<jobOnly, ok, image, setup, from, files, told>>

RunPRNGeneration(r) == kind[r] = "prn" /\ Begin(r)
RunDirectPrint(r) == kind[r] = "direct" /\ Begin(r)

(* The Cancel button, shown while busy; it reaches every run.  *)
AskCancel ==
    /\ busy /\ ~cancel
    /\ cancel' = TRUE
    /\ asked' = {r \in Runs : stage[r] \in Watched}
    /\ UNCHANGED <<jobOnly, stage, ok, image, setup, from, files, busy, told,
                   mingled>>

-----------------------------------------------------------------------------
Keep == UNCHANGED <<jobOnly, cancel, busy, told, asked, mingled>>
Go(r, next) == stage' = [stage EXCEPT ![r] = next]

(* A failure unwinds the scope of the raster: its files are removed.  *)
Fail(r) ==
    /\ Go(r, "clean") /\ files' = files \ Scratch(r)
    /\ UNCHANGED <<ok, image, setup, from>>

(* The settings of the object are overwritten, under the eyes of any other *)
(* run that has read or will read them.                                    *)
Overwrite(r) ==
    setup' = IF \E o \in Runs \ {r} : stage[o] \in UsesSettings
             THEN setup \union {r} ELSE {r}

(* prepareJobForOutput() of the X-33: an invalid resolution is refused     *)
(* before anything is touched; missing assets are not looked at; then the  *)
(* settings; then source, masks and storage may refuse.                    *)
PrepareX33(r) ==
    /\ stage[r] = "prepare" /\ pipeline = "x33"
    /\ \/ Go(r, "clean") /\ UNCHANGED setup
       \/ (Go(r, "load") \/ Go(r, "clean")) /\ Overwrite(r)
    /\ UNCHANGED <<ok, image, from, files>> /\ Keep

(* Of the multi-ink object: missing assets are refused first; the          *)
(* resolution is clamped, not refused.                                     *)
AssetsOrEnd(r) == Go(r, "clean") /\ UNCHANGED setup
PrepareMulti(r) ==
    /\ stage[r] = "prepare" /\ pipeline = "multi"
    /\ AssetsOrEnd(r) \/ ((Go(r, "load") \/ Go(r, "clean")) /\ Overwrite(r))
    /\ UNCHANGED <<ok, image, from, files>> /\ Keep

(* A failed load keeps the last picture, and the run goes on with it.  *)
LoadOrKeep(r) ==
    /\ stage[r] = "load"
    /\ \E good \in BOOLEAN : image' = IF good THEN {r} ELSE image
    /\ Go(r, "convert")
    /\ UNCHANGED <<ok, setup, from, files>> /\ Keep

(* loadInputImageForOutput(): the picture and its alpha replace the last   *)
(* ones; a failed or canceled load ends the run.  An allocation failure is *)
(* caught by nobody: the thread ends without a signal.                     *)
Load(r) ==
    /\ stage[r] = "load"
    /\ image' = IF \E o \in Runs \ {r} : stage[o] \in UsesImage
                THEN image \union {r} ELSE {r}
    /\ Go(r, "convert") \/ Go(r, "clean") \/ Go(r, "lost")
    /\ UNCHANGED <<ok, setup, from, files>> /\ Keep

(* ICC for the X-33; a DeviceLink or ICC for multi-ink; in place.  *)
ConvertX33(r) ==
    /\ stage[r] = "convert" /\ pipeline = "x33"
    /\ Go(r, "build") \/ Go(r, "clean")
    /\ UNCHANGED <<ok, image, setup, from, files>> /\ Keep
ConvertMulti(r) ==
    /\ stage[r] = "convert" /\ pipeline = "multi"
    /\ Go(r, "build") \/ Go(r, "clean")
    /\ UNCHANGED <<ok, image, setup, from, files>> /\ Keep

(* buildRasterSpool(): colour space, size, masks, storage, resize; then    *)
(* the backend the estimate chooses.                                       *)
Build(r) ==
    /\ stage[r] = "build"
    /\ Go(r, "memory") \/ Go(r, "canonical") \/ Go(r, "clean")
    /\ UNCHANGED <<ok, image, setup, from, files>> /\ Keep

-----------------------------------------------------------------------------
(* buildInMemoryRasterSpool().  After a failure the flag decides: give up, *)
(* or fall back to strips.                                                 *)
FallBackLeaving(r) ==
    /\ Go(r, IF cancel THEN "clean" ELSE "canonical")
    /\ UNCHANGED <<ok, image, setup, from, files>>
FallBack(r) ==
    /\ Go(r, IF cancel THEN "clean" ELSE "canonical")
    /\ files' = files \ Scratch(r)
    /\ UNCHANGED <<ok, image, setup, from>>

(* Tones and screen of the whole frame.  *)
FrameScreened(r) ==
    /\ ~cancel /\ from' = [from EXCEPT ![r] = image \union setup]
    /\ Go(r, "memoryWriter") /\ UNCHANGED <<ok, image, setup, files>>
MemoryScreenX33(r) ==
    /\ stage[r] = "memory" /\ pipeline = "x33"
    /\ FallBack(r) \/ (PlatePasses /\ FrameScreened(r))
    /\ Keep
MemoryScreenMulti(r) ==
    /\ stage[r] = "memory" /\ pipeline = "multi"
    /\ FallBack(r) \/ FrameScreened(r)
    /\ Keep

(* The writer is created and filled; the flag is read before every line.  *)
MemoryWrite(r) ==
    /\ stage[r] = "memoryWriter"
    /\ \/ FallBack(r)
       \/ /\ ~cancel /\ files' = files \union {<<r, "partial">>}
          /\ Go(r, "memoryFinal") /\ UNCHANGED <<ok, image, setup, from>>
    /\ Keep

(* Writer::finalize() first hashes the file and reads the flag before every *)
(* piece, then writes the header, closes and renames without another look.  *)
HashedUnwatched(r, next) ==
    Go(r, next) /\ UNCHANGED <<ok, image, setup, from, files>>
Hashed(r, next) ==
    /\ ~cancel
    /\ Go(r, next) /\ UNCHANGED <<ok, image, setup, from, files>>
PublishSpool(r) ==
    /\ files' = (files \ {<<r, "partial">>, <<r, "canonical">>})
                  \union {<<r, "spool">>}
    /\ Go(r, "output") /\ UNCHANGED <<ok, image, setup, from>>

MemoryChecksum(r) ==
    /\ stage[r] = "memoryFinal"
    /\ FallBack(r) \/ Hashed(r, "memorySealed")
    /\ Keep
MemoryFinalize(r) ==
    stage[r] = "memorySealed" /\ (FallBack(r) \/ PublishSpool(r)) /\ Keep

-----------------------------------------------------------------------------
(* The bounded backend.  The canonical file is made from the picture.  *)
CreateCanonical(r) ==
    /\ stage[r] = "canonical"
    /\ \/ Fail(r)
       \/ /\ ~cancel /\ files' = files \union {<<r, "canonical">>}
          /\ from' = [from EXCEPT ![r] = image]
          /\ Go(r, "plate") /\ UNCHANGED <<ok, image, setup>>
    /\ Keep

LoadPlate(r) ==
    /\ stage[r] = "plate"
    /\ \/ Fail(r)
       \/ /\ PlatePasses
          /\ Go(r, "writer") /\ UNCHANGED <<ok, image, setup, from, files>>
    /\ Keep

OpenSpool(r) ==
    /\ stage[r] = "writer"
    /\ \/ Fail(r)
       \/ /\ files' = files \union {<<r, "partial">>}
          /\ Go(r, "screen") /\ UNCHANGED <<ok, image, setup, from>>
    /\ Keep

(* screenToSpool(): the strips read the canonical file and the settings.  *)
Screened(r) ==
    /\ ~cancel /\ from' = [from EXCEPT ![r] = @ \union setup]
    /\ Go(r, "final") /\ UNCHANGED <<ok, image, setup, files>>
ScreenX33(r) ==
    stage[r] = "screen" /\ pipeline = "x33" /\ (Fail(r) \/ Screened(r)) /\ Keep
ScreenMulti(r) ==
    stage[r] = "screen" /\ pipeline = "multi" /\ (Fail(r) \/ Screened(r)) /\ Keep

ChecksumSpool(r) ==
    stage[r] = "final" /\ (Fail(r) \/ Hashed(r, "sealed")) /\ Keep
FinalizeSpool(r) == stage[r] = "sealed" /\ (Fail(r) \/ PublishSpool(r)) /\ Keep

-----------------------------------------------------------------------------
(* The PRN file, or the spool to the printer; either may fail.  *)
Outcome(r) ==
    /\ Go(r, "clean") /\ \E good \in BOOLEAN : ok' = [ok EXCEPT ![r] = good]
    /\ UNCHANGED <<image, setup, from, files>> /\ Keep
WritePRNFile(r) == stage[r] = "output" /\ kind[r] = "prn" /\ Outcome(r)
SendDirectPrint(r) == stage[r] = "output" /\ kind[r] = "direct" /\ Outcome(r)

(* RasterSpool::remove() and the signal; the window forgets the job if it  *)
(* still shows one.                                                        *)
Report(r) ==
    /\ stage[r] = "clean" /\ Go(r, "told")
    /\ files' = files \ {<<r, "spool">>}
    /\ told' = [told EXCEPT ![r] = @ + 1] /\ busy' = FALSE
    /\ UNCHANGED <<jobOnly, ok, image, setup, from, cancel, asked, mingled>>

JNext ==
    \/ AskCancel
    \/ \E r \in Runs :
          \/ RunPRNGeneration(r) \/ RunDirectPrint(r)
          \/ PrepareX33(r) \/ PrepareMulti(r) \/ Load(r)
          \/ ConvertX33(r) \/ ConvertMulti(r) \/ Build(r)
          \/ MemoryScreenX33(r) \/ MemoryScreenMulti(r)
          \/ MemoryWrite(r) \/ MemoryChecksum(r) \/ MemoryFinalize(r)
          \/ CreateCanonical(r) \/ LoadPlate(r) \/ OpenSpool(r)
          \/ ScreenX33(r) \/ ScreenMulti(r)
          \/ ChecksumSpool(r) \/ FinalizeSpool(r)
          \/ WritePRNFile(r) \/ SendDirectPrint(r) \/ Report(r)

-----------------------------------------------------------------------------
(* A run that succeeded while no other run of the object was under way was *)
(* made from its own picture with its own settings, whatever an earlier,   *)
(* failed or canceled run left in the object (PrintJobCMYK.cpp:110-262),   *)
(* and on the X-33 not without the white plate it asks for.  Of runs that  *)
(* overlap neither is promised: each reads what the other may overwrite.   *)
OwnPicture ==
    \A r \in Runs \ mingled :
        ok[r] => from[r] = {r} /\ ~PlateRefused(r)

(* A run that has ended, even silently, has no file in the scratch         *)
(* directory, and a published spool stands alone: the canonical file and   *)
(* the partial file are gone when the printer starts to read.              *)
NothingLeftInScratch ==
    \A r \in Runs :
        /\ stage[r] \in Ended => Scratch(r) = {}
        /\ <<r, "spool">> \in files => Scratch(r) = {<<r, "spool">>}

(* A run canceled before the last look of its checksum does not print, on  *)
(* either backend and across the fallback between them, unless another run *)
(* of the object is started in the meantime: that one takes the request    *)
(* back (PrintJobCMYK.cpp:64, 86, 105-108).  A request that comes after    *)
(* that look, while the last piece is hashed, the file renamed or the      *)
(* output under way, is not in "asked": the pipeline does not see it.      *)
CancelHonoured == \A r \in asked : stage[r] # "output" /\ ~ok[r]
====
