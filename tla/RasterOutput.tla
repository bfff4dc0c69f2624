---- MODULE RasterOutput ----
(***************************************************************************)
(* The output path of the desktop program, for TLC: the runs of a pipeline *)
(* object (RasterJob), the tones of a pixel (ToneChannels) and the         *)
(* screening of a raster into its spool (ScreenPipeline).  The three parts *)
(* share no state, so a behaviour exercises one of them and the others     *)
(* stay off.                                                               *)
(***************************************************************************)
EXTENDS ScreenPipeline, ToneChannels, RasterJob

JobsOff ==
    /\ pipeline = "x33" /\ kind = <<>> /\ plate = <<>> /\ stage = [r \in Runs |-> "idle"]
    /\ ok = [r \in Runs |-> FALSE] /\ image = {} /\ setup = {}
    /\ from = [r \in Runs |-> {}] /\ files = {} /\ cancel = FALSE
    /\ busy = FALSE /\ told = <<>> /\ asked = {} /\ mingled = {}
TonesOff == tpc = "off" /\ pixel = <<>> /\ setting = <<>> /\ tones = <<>>
ScreenOff ==
    /\ source = <<>> /\ job = <<>> /\ pc = "off" /\ y = 0 /\ ch = 0
    /\ canonical = [there |-> FALSE, rows |-> <<>>] /\ window = <<>>
    /\ spool = Absent /\ final = Absent
    /\ canceled = FALSE /\ printed = FALSE /\ crashes = 0

Init ==
    \/ JInit /\ TonesOff /\ ScreenOff
    \/ TInit /\ JobsOff /\ ScreenOff
    \/ SInit /\ JobsOff /\ TonesOff

Next ==
    \/ pc = "off" /\ tpc = "off" /\ JNext /\ UNCHANGED <<tvars, svars>>
    \/ tpc # "off" /\ TNext /\ UNCHANGED <<jvars, svars>>
    \/ pc # "off" /\ SNext /\ UNCHANGED <<jvars, tvars>>

Spec == Init /\ [][Next]_<<jvars, tvars, svars>>

-----------------------------------------------------------------------------
(* Two channels: a promoted one without swapped dots on effective tones,  *)
(* and a plain one with swapped dots on the tones themselves.  The masks   *)
(* and the draws differ by column and row.                                 *)
MCConfig ==
    [c \in 0..1 |->
        [min |-> 8, small |-> 104, medium |-> 168, floorRange |-> 24,
         floorMax |-> 2 - c, swap |-> c = 1, promote |-> c = 0,
         effective |-> c = 0]]
MCPromo == [gate |-> 112, medLo |-> 14, medHi |-> 22, lrgLo |-> 20, lrgHi |-> 30,
            flat |-> 18, inked |-> 8, kick |-> 2]
MCDraw(x, row) == (97 * x + 61 * row) % 256
MCRow(t, m) == [i \in DOMAIN t |-> [tone |-> t[i], mask |-> m[i]]]
MCPatterns ==
    { [c \in 0..1 |-> IF c = 0
        THEN MCRow(<<200, 190, 205, 195, 200>>, <<40, 90, 130, 150, 20>>)
        ELSE MCRow(<<120, 40, 130, 9, 60>>, <<20, 10, 100, 0, 70>>)],
      [c \in 0..1 |-> IF c = 0
        THEN MCRow(<<210, 215, 200, 205, 210>>, <<170, 60, 120, 30, 190>>)
        ELSE MCRow(<<255, 250, 7, 90, 140>>, <<250, 128, 0, 30, 60>>)],
      [c \in 0..1 |-> IF c = 0
        THEN MCRow(<<180, 20, 190, 185, 200>>, <<10, 5, 160, 140, 100>>)
        ELSE MCRow(<<0, 100, 150, 159, 95>>, <<0, 90, 40, 120, 94>>)] }
MCRequests ==
    { [budget |-> 1, disk |-> 600, prn |-> FALSE, alpha |-> FALSE, plates |-> 0,
       masks |-> 8, sourceWidth |-> 5, sourceHeight |-> 5],
      [budget |-> 200, disk |-> 5400, prn |-> TRUE, alpha |-> TRUE, plates |-> 1,
       masks |-> 8, sourceWidth |-> 10, sourceHeight |-> 5],
      [budget |-> 500, disk |-> 1000, prn |-> FALSE, alpha |-> TRUE, plates |-> 0,
       masks |-> 16, sourceWidth |-> 5, sourceHeight |-> 5],
      [budget |-> 500, disk |-> 400, prn |-> FALSE, alpha |-> FALSE, plates |-> 0,
       masks |-> 8, sourceWidth |-> 5, sourceHeight |-> 5] }

MCPixels ==
    LET ink == {0, 6, 7, 13}
    IN  [c : ink, m : ink, y : {0, MaxTone \div 2}, k : {0, MaxTone - 1}]
MCGcr(on, kMin) ==
    [on |-> on, gate |-> 1, maxTone |-> 10, strength |-> 9, gain |-> 13,
     kMin |-> kMin, lcFade |-> 70, lmFade |-> 50]
MCGcrs == {MCGcr(FALSE, 1), MCGcr(TRUE, 2)}
MCWindows ==
    { [start |-> 3, end |-> 10, t1Start |-> 2, t1End |-> 8, t2Start |-> 8, t2End |-> 14],
      [start |-> 1, end |-> 6, t1Start |-> 10, t1End |-> 15, t2Start |-> 1, t2End |-> 6] }
MCCurves == {{}, {"c", "m", "y", "k"}, {"y", "k", "lk"}}
====
