---- MODULE ScreenPipeline ----
(***************************************************************************)
(* The bounded-memory rasteriser (rip/BoundedRasterPipeline.cpp): the      *)
(* image is exported strip by strip to a canonical file, read back strip   *)
(* by strip, screened row by row through a window of four rows per         *)
(* channel and written line by line to a spool, which is then hashed,      *)
(* published, read back and removed.  The whole-frame screen of            *)
(* rip/MultiInkScreenEngine.cpp is what it must reproduce.  The process    *)
(* may die between two steps; the next start sweeps the scratch directory. *)
(*                                                                         *)
(* A pixel is its tone and the blue-noise value under it, in every         *)
(* channel.  Draw(x, y) stands for the pixel hash, 0 .. 255.               *)
(***************************************************************************)
EXTENDS RasterSpool, Sequences, FiniteSetsExt

CONSTANTS
    Channels,      \* 0 .. n-1, the logical channels
    Config,        \* the screen of each channel
    Promo,         \* the promotion parameters
    Draw(_, _),    \* the pixel hash
    Patterns,      \* rows of pixels: [Channels -> Seq([tone, mask])]
    Width, Height,
    Requests,      \* what is asked for, with which buffers and which disk
    MaxCrashes

(* The mask images are much larger than a header: 512 by 12000 pixels each *)
(* (resources/assets/blue_noise_mask_512_12000) against 4096 bytes.        *)
ASSUME ScreenAssumption ==
    /\ \E n \in 1..MaxChannels : Channels = 0..(n - 1)
    /\ Width \in Nat \ {0} /\ Height \in Nat \ {0}
    /\ \A c \in Channels : Config[c].promote \in BOOLEAN
    /\ Requests \subseteq [budget : Nat, disk : Nat, prn : BOOLEAN, alpha : BOOLEAN,
                          plates : Nat, masks : Nat, sourceWidth : Nat,
                          sourceHeight : Nat]
    /\ \A r \in Requests : 5 * HeaderBytes <= MaskCacheStorage(r.masks)

MaximumStripRows == 128

VARIABLES source, job, pc, y, ch, canonical, window, spool, final,
          canceled, printed, crashes

svars == <<source, job, pc, y, ch, canonical, window, spool, final,
           canceled, printed, crashes>>

Rows == 0..(Height - 1)
Columns == 0..(Width - 1)
Smaller(a, b) == IF a <= b THEN a ELSE b
Larger(a, b) == IF a >= b THEN a ELSE b
Size == Cardinality(Channels)

Meta == [width |-> Width, height |-> Height, channels |-> Size,
         bytesPerLine |-> LineBytes(Width), order |-> [p \in 1..Size |-> p - 1]]

BoundedRowsForWidth(bytesPerPixel) ==
    Smaller(MaximumStripRows, Larger(1, job.budget \div (Width * bytesPerPixel)))
(* A fifth byte for the alpha.  *)
CanonicalStrip == BoundedRowsForWidth(IF job.alpha THEN 5 ELSE 4)
ScreenStrip == BoundedRowsForWidth(16 + 2 * Size)

-----------------------------------------------------------------------------
(* A tone above the channel's minimum is stretched over the whole range    *)
(* and, near white, lifted.                                                *)
EffectiveTone(k, tone) ==
    LET eff == ((tone - k.min) * 255) \div (255 - k.min)
        lift == (k.floorMax * (k.floorRange - eff)) \div k.floorRange
    IN  IF tone <= k.min THEN 0
        ELSE IF k.floorRange > 0 /\ k.floorMax > 0 /\ eff < k.floorRange
             THEN Smaller(255, eff + lift) ELSE eff

ClassTone(k, tone) ==
    IF tone <= k.min THEN 0
    ELSE IF k.effective THEN EffectiveTone(k, tone) ELSE tone

Lerp(a, b, weight) == ((255 - weight) * a + weight * b) \div 255

(* Small, medium or large by the mask relative to the tone; highlights may *)
(* have small and large swapped, with a band where the hash decides.       *)
DotClass(k, tone, mask, x, row) ==
    LET relative == (mask * tone) \div 255
        dot == IF relative <= Lerp(64, k.small, tone) THEN 1
               ELSE IF relative <= Lerp(130, k.medium, tone) THEN 2 ELSE 3
        swaps == \/ tone < 96
                 \/ tone < 160 /\ Draw(x, row) < ((160 - tone) * 255) \div 64
    IN  IF k.swap /\ swaps THEN 4 - dot ELSE dot

(* One row of one channel, screened on its own.  *)
ScreenedRow(c, pixels, row) ==
    LET k == Config[c]
    IN  [y |-> row,
         tone |-> [x \in Columns |-> ClassTone(k, pixels[x + 1].tone)],
         dots |-> [x \in Columns |->
            IF EffectiveTone(k, pixels[x + 1].tone) <= pixels[x + 1].mask THEN 0
            ELSE DotClass(k, ClassTone(k, pixels[x + 1].tone),
                          pixels[x + 1].mask, x, row)]]

(* -------- promotion: the row above, the row, the two rows below ------- *)
Abs(n) == IF n < 0 THEN -n ELSE n
(* Does a draw fall below the weight's place between low and high, times   *)
(* the tone?                                                               *)
Wins(draw, weight, low, high, tone) ==
    IF weight <= low THEN FALSE
    ELSE IF weight >= high THEN draw < tone
    ELSE draw * (high - low) < (weight - low) * tone

(* The dot of column x; near holds the four rows, as they are by now.  *)
PromotedDot(near, x, row) ==
    LET dot == near[2].dots[x]
        tone == near[2].tone[x]
        cells == ((1..4) \X ((x - 1)..(x + 2))) \ {<<2, x>>}
        at(p) == near[p[1]].dots[p[2]]
        inked == Cardinality({p \in cells : at(p) > 0})
        weight == Promo.kick + MapThenSumSet(at, cells)
        deviation == MapThenSumSet(
            LAMBDA p : Abs(near[p[1]].tone[p[2]] - tone), cells) \div 15
    IN  IF /\ dot \in {1, 2} /\ tone >= Promo.gate
           /\ inked >= Promo.inked /\ deviation <= Promo.flat
           /\ \/ dot = 1 /\ Wins(Draw(x, row), weight, Promo.medLo, Promo.medHi, tone)
              \/ dot = 2 /\ Wins(Draw(x, row), weight, Promo.lrgLo, Promo.lrgHi, tone)
        THEN dot + 1 ELSE dot

(* Columns 1 .. Width-3, left to right, in place.  *)
PromoteRow(above, center, below, below2) ==
    LET Visit[x \in 0..Larger(0, Width - 3)] ==
          IF x = 0 THEN center
          ELSE [Visit[x - 1] EXCEPT !.dots[x] =
                  PromotedDot(<<above, Visit[x - 1], below, below2>>, x, center.y)]
    IN  Visit[Larger(0, Width - 3)]

(* The reference: the frame is classified, then promoted in place from row *)
(* 1 to row Height-3.                                                      *)
WholeFrame(c) ==
    LET raw[r \in Rows] == ScreenedRow(c, source[r][c], r)
        row[r \in Rows] ==
          IF ~Config[c].promote \/ r = 0 \/ r >= Height - 2 THEN raw[r]
          ELSE PromoteRow(row[r - 1], raw[r], raw[r + 1], raw[r + 2])
    IN  row

(* promoteCenterRow(): the second row of a full window of four.  *)
PromoteCenter(w) ==
    IF Len(w) # 4 \/ w[2].y <= 0 \/ w[2].y >= Height - 2 THEN w
    ELSE [w EXCEPT ![2] = PromoteRow(w[1], w[2], w[3], w[4])]

(* The row below the next one is not waited for.  *)
DueEarly(c, w) == ~Config[c].promote \/ Len(w) = 3
(* A row leaves the window at once, or when four rows have gathered.  *)
Due(c, w) == ~Config[c].promote \/ Len(w) = 4
EmitFront(c, w, file) == WithLine(Meta, file, c, Head(w).y, Head(w).dots)

-----------------------------------------------------------------------------
SInit ==
    /\ source \in [Rows -> Patterns] /\ job \in Requests
    /\ pc = "preflight" /\ y = 0 /\ ch = 0
    /\ canonical = [there |-> FALSE, rows |-> <<>>]
    /\ window = [c \in Channels |-> <<>>]
    /\ spool = Absent /\ final = Absent
    /\ canceled = FALSE /\ printed = FALSE /\ crashes = 0

(* Every failure unwinds: ~Writer() and ~CanonicalCmykFile() remove.  *)
Unwind ==
    /\ pc' = "failed"
    /\ canonical' = [there |-> FALSE, rows |-> <<>>] /\ spool' = Absent
    /\ window' = [c \in Channels |-> <<>>]
    /\ UNCHANGED <<source, job, y, ch, final, canceled, printed, crashes>>

(* preflightStorage(): the job is refused if it might not fit.  *)
Preflight ==
    /\ pc = "preflight"
    /\ IF ~PreflightStorage(Meta, job) THEN Unwind
       ELSE /\ pc' = "create"
            /\ UNCHANGED <<source, job, y, ch, canonical, window, spool, final,
                           canceled, printed, crashes>>

(* CanonicalCmykFile::create(): strip by strip; canceled before a strip.  *)
ExportStrip ==
    /\ pc = "create"
    /\ IF canceled THEN Unwind
       ELSE LET done == Len(canonical.rows)
                next == Smaller(done + CanonicalStrip, Height)
            IN  /\ canonical' = [there |-> TRUE,
                     rows |-> canonical.rows \o
                              [i \in 1..(next - done) |-> source[done + i - 1]]]
                /\ pc' = IF next = Height THEN "open" ELSE "create"
                /\ UNCHANGED <<source, job, y, ch, window, spool, final,
                               canceled, printed, crashes>>

(* Writer::create(): metadata checked, the partial file laid out.  *)
OpenWriter ==
    /\ pc = "open"
    /\ IF ~MetadataIsValid(Meta) THEN Unwind
       ELSE /\ spool' = NewFile /\ pc' = "strip"
            /\ UNCHANGED <<source, job, y, ch, canonical, window, final,
                           canceled, printed, crashes>>

(* A strip: the flag is read, then the tone provider reads its rows.  *)
StartStrip ==
    /\ pc = "strip"
    /\ IF canceled THEN Unwind
       ELSE /\ pc' = "row"
            /\ UNCHANGED <<source, job, y, ch, canonical, window, spool,
                           final, canceled, printed, crashes>>

(* One channel of one row: classify, push, promote the centre, emit.  *)
ScreenRow ==
    /\ pc = "row"
    /\ IF canceled THEN Unwind
       ELSE LET pushed == Append(window[ch],
                            ScreenedRow(ch, canonical.rows[y + 1][ch], y))
                w == IF Config[ch].promote THEN PromoteCenter(pushed) ELSE pushed
                last == ch + 1 = Size
                atEnd == (y + 1) % ScreenStrip = 0 \/ y + 1 = Height
            IN  /\ IF Due(ch, w)
                   THEN /\ spool' = EmitFront(ch, w, spool)
                        /\ window' = [window EXCEPT ![ch] = Tail(w)]
                   ELSE /\ window' = [window EXCEPT ![ch] = w]
                        /\ UNCHANGED spool
                /\ ch' = IF last THEN 0 ELSE ch + 1
                /\ y' = IF last THEN y + 1 ELSE y
                /\ pc' = IF last /\ atEnd
                         THEN IF y + 1 = Height THEN "drain" ELSE "strip"
                         ELSE "row"
                /\ UNCHANGED <<source, job, canonical, final, canceled,
                               printed, crashes>>

(* After the last strip the windows are emptied, channel after channel;   *)
(* the flag is not read here.                                             *)
Drain ==
    /\ pc = "drain"
    /\ IF window[ch] # <<>>
       THEN /\ spool' = EmitFront(ch, window[ch], spool)
            /\ window' = [window EXCEPT ![ch] = Tail(@)]
            /\ UNCHANGED <<pc, ch>>
       ELSE /\ IF ch + 1 < Size
               THEN ch' = ch + 1 /\ UNCHANGED pc
               ELSE ch' = 0 /\ pc' = "hash"
            /\ UNCHANGED <<spool, window>>
    /\ UNCHANGED <<source, job, y, canonical, final, canceled, printed,
                   crashes>>

(* Writer::finalize(), first half: complete?, hash (may be canceled), and *)
(* the header with its checksum.                                          *)
Finalize ==
    /\ pc = "hash"
    /\ IF Incomplete(Meta, spool) \/ canceled THEN Unwind
       ELSE /\ spool' = WithChecksum(spool) /\ pc' = "rename"
            /\ UNCHANGED <<source, job, y, ch, canonical, window, final,
                           canceled, printed, crashes>>

(* Second half: the rename.  The canonical file goes with its scope.  *)
Publish ==
    /\ pc = "rename"
    /\ final' = spool /\ spool' = Absent
    /\ canonical' = [there |-> FALSE, rows |-> <<>>]
    /\ pc' = "deliver"
    /\ UNCHANGED <<source, job, y, ch, window, canceled, printed, crashes>>

(* The PRN writer or the upload reads it through a Reader, and the run    *)
(* removes it whatever came of that.                                      *)
Deliver ==
    /\ pc = "deliver"
    /\ printed' = Verifies(Meta, final)
    /\ final' = Absent /\ pc' = "done"
    /\ UNCHANGED <<source, job, y, ch, canonical, window, spool, canceled,
                   crashes>>

(* An I/O call, a mask row or an allocation fails.  *)
StepFails ==
    pc \in {"preflight", "create", "open", "strip", "row", "drain", "hash", "rename"} /\ Unwind

CancelOutput ==
    /\ ~canceled /\ canceled' = TRUE
    /\ pc \notin {"done", "failed", "down"}
    /\ UNCHANGED <<source, job, pc, y, ch, canonical, window, spool, final,
                   printed, crashes>>

(* The process dies: only the files stay.  *)
Crash ==
    /\ crashes < MaxCrashes /\ pc \notin {"done", "failed", "down"}
    /\ crashes' = crashes + 1 /\ pc' = "down"
    /\ window' = [c \in Channels |-> <<>>]
    /\ UNCHANGED <<source, job, y, ch, canonical, spool, final, canceled,
                   printed>>

(* configureImageMagickCache(): once per process, before any job.  *)
Sweep ==
    /\ pc = "down" /\ pc' = "failed"
    /\ canonical' = [there |-> FALSE, rows |-> <<>>]
    /\ spool' = Absent /\ final' = Absent
    /\ UNCHANGED <<source, job, y, ch, window, canceled, printed, crashes>>

SNext ==
    \/ Preflight \/ ExportStrip \/ OpenWriter \/ StartStrip \/ ScreenRow \/ Drain
    \/ Finalize \/ Publish \/ Deliver
    \/ StepFails \/ CancelOutput \/ Crash \/ Sweep

-----------------------------------------------------------------------------
(* The strips, the rolling windows and the drain put at every line's       *)
(* address exactly the dots of the whole-frame screen, whatever the strip  *)
(* size and the number of rows, and no line overwrites another's           *)
(* (BoundedRasterPipeline.cpp:650-798 and RasterSpool.cpp:248-273 against  *)
(* MultiInkScreenEngine.cpp:34-304).                                       *)
StreamMatchesFrame ==
    \A file \in {spool, final} : \A at \in file.written :
        ReadLine(Meta, file, at[1], at[2]) = WholeFrame(at[1])[at[2]].dots

(* What the job has on the disk, pixel caches included, while it is at pc: *)
(* the picture's and the alpha's caches for good; what a resize and the    *)
(* capture of the alpha add, until the canonical file is made; plates and  *)
(* masks while the strips are screened; the PRN beside the finished spool. *)
Occupied ==
    LET pixels == Width * Height
        original == job.sourceWidth * job.sourceHeight
        resize == job.sourceWidth # Width \/ job.sourceHeight # Height
        cache == 5 * Quantum
        resizing == IF pc = "create" /\ resize THEN original * 29 * Quantum ELSE 0
        alpha == IF ~job.alpha THEN 0
                 ELSE IF pc # "create" THEN pixels * cache
                 ELSE original * (1 + cache) + (IF resize THEN pixels * cache ELSE 0)
        plates == IF pc \in {"open", "strip", "row", "drain", "hash", "rename"}
                  THEN pixels * cache * job.plates ELSE 0
        masks == IF pc \in {"strip", "row", "drain"}
                 THEN MaskCacheStorage(job.masks) ELSE 0
        rows == IF canonical.there THEN 4 * Width * Len(canonical.rows) ELSE 0
        file == IF spool.there \/ final.there
                THEN HeaderBytes + ExpectedBodyBytes(Meta) ELSE 0
        prn == IF pc = "deliver" /\ job.prn
               THEN LineBytes(Width) * Height * Size ELSE 0
    IN  pixels * cache + resizing + alpha + plates + masks + rows + file + prn

(* A file under its final name is complete and has its checksum, at every  *)
(* moment and after a crash (RasterSpool.cpp:275-308); a job that has      *)
(* ended, or a process that has swept, leaves no file behind; and a job    *)
(* that passed the preflight never needs more storage than there was, with *)
(* every cache the estimate knows of on the disk.                          *)
PublishedIsComplete ==
    /\ final.there => Verifies(Meta, final)
    /\ pc \in {"done", "failed"} =>
         ~spool.there /\ ~final.there /\ ~canonical.there
    /\ pc = "done" => printed
    /\ pc \notin {"off", "preflight", "failed", "down"} => Occupied <= job.disk
====
