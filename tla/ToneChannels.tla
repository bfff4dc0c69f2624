---- MODULE ToneChannels ----
(***************************************************************************)
(* From one CMYK pixel to the tones of the logical channels and from these *)
(* to the physical planes: source alpha, grey component replacement, the   *)
(* light-ink splits, white and varnish (rip/MultiInkToneBuilder.cpp,       *)
(* rip/X33WhiteToneBuilder.cpp), the transfer curves of                    *)
(* rip/MultiInkLinearization.cpp, and the tables of rip/PrintJobMultiInk   *)
(* that give every channel its mask and every plane its channel.           *)
(*                                                                         *)
(* Tones are 0 .. MaxTone for 0 .. 255.  A curve is its origin: identity,  *)
(* explicit (in the XML) or derived (from the parent ink's curve); a tone  *)
(* carries the ink the code's variable names and the curve it went through;*)
(* its value is the one before the curve.                                  *)
(***************************************************************************)
EXTENDS Integers, Sequences, FiniteSetsExt

CONSTANTS MaxTone,
          Pixels,       \* the CMYK pixels
          Alphas,       \* the alpha values of the source
          Gcrs,         \* GCR settings
          Windows,      \* crossfade windows of the splits
          Curves,       \* the sets of separations an XML may hold
          Plates,       \* names of plate files, "none" for no path
          Thresholds, Densities  \* of white and varnish

VARIABLES tpc, pixel, setting, tones

tvars == <<tpc, pixel, setting, tones>>

Tones == 0..MaxTone
PixelType == [c : Tones, m : Tones, y : Tones, k : Tones]

(* Tones are bytes, and so is every number of a setting but the fades,     *)
(* which are percentages (getGcrParams(), the Split2Params, Split3Params).  *)
ASSUME ToneAssumption ==
    /\ MaxTone \in Nat \ {0}
    /\ Pixels \subseteq PixelType /\ Alphas \subseteq Tones
    /\ Gcrs \subseteq
         [on : BOOLEAN, gate : Tones, maxTone : Tones, strength : Tones, gain : Tones,
          kMin : Tones, lcFade : 0..100, lmFade : 0..100]
    /\ Windows \subseteq
         [start : Tones, end : Tones, t1Start : Tones, t1End : Tones,
          t2Start : Tones, t2End : Tones]

InkModes == {4, 5, 6, 7, 8, 10}
Lesser(a, b) == IF a <= b THEN a ELSE b
Clamp(v) == IF v < 0 THEN 0 ELSE Lesser(v, MaxTone)
Greatest(S) == Max(S)
Least(S) == Min(S)

(* RasterAlphaMask: the tone times the alpha, rounded.  *)
ApplyAlpha(tone, alpha) == (tone * alpha + MaxTone \div 2) \div MaxTone

-----------------------------------------------------------------------------
(* Grey component replacement: neutral, not too dark pixels give a part of *)
(* their common cyan, magenta and yellow to black.                         *)
IsNeutral(g, p) ==
    LET cmy == {p.c, p.m, p.y}
    IN  Greatest(cmy) - Least(cmy) <= g.gate /\ Greatest(cmy) <= g.maxTone

GcrNeutralTransfer(g, p) ==
    IF ~g.on \/ ~IsNeutral(g, p) THEN p ELSE
    LET neutral == Least({p.c, p.m, p.y})
        pull == Lesser((neutral * g.strength) \div MaxTone, neutral)
        added == Lesser(MaxTone, p.k + (pull * g.gain) \div MaxTone)
    IN  [c |-> p.c - pull, m |-> p.m - pull, y |-> p.y - pull,
         k |-> IF added < g.kMin /\ neutral > 0 THEN g.kMin ELSE added]

Fade(v, percent) == (v * (100 - percent)) \div 100

(* smoothstep() as a fraction <<numerator, denominator>>.  *)
Smoothstep(lo, hi, v) ==
    LET n == IF hi < lo THEN lo - v ELSE v - lo
        d == IF hi < lo THEN lo - hi ELSE hi - lo
    IN  IF d = 0 THEN <<IF v >= hi THEN 1 ELSE 0, 1>>
        ELSE IF n <= 0 THEN <<0, 1>> ELSE IF n >= d THEN <<1, 1>>
        ELSE <<n * n * (3 * d - 2 * n), d * d * d>>

Rounded(v, f) == (2 * v * f[1] + f[2]) \div (2 * f[2])
Rest(f) == <<f[2] - f[1], f[2]>>

Split2(v, w) ==
    LET dark == Rounded(v, Smoothstep(w.start, w.end, v))
    IN  [dark |-> Clamp(dark), light |-> Clamp(v - dark)]

(* The middle ink takes what the light one leaves.  *)
Split3Overlapping(v, w) ==
    LET llk == Rounded(v, Rest(Smoothstep(w.t1Start, w.t1End, v)))
        k   == Rounded(v, Smoothstep(w.t2Start, w.t2End, v))
    IN  [k |-> Clamp(k), lk |-> Clamp(v - llk), llk |-> Clamp(llk)]
Split3(v, w) ==
    LET llk == Rounded(v, Rest(Smoothstep(w.t1Start, w.t1End, v)))
        k   == Rounded(v, Smoothstep(w.t2Start, w.t2End, v))
    IN  [k |-> Clamp(k), lk |-> Clamp(v - llk - k), llk |-> Clamp(llk)]

(* White and varnish: 0 off, 1 over the colours, 2 flood, 3 a plate.  *)
ThresholdDensity(s, v) ==
    IF s.density = 0 \/ v <= s.threshold \/ s.threshold >= MaxTone THEN 0
    ELSE ((((v - s.threshold) * MaxTone) \div (MaxTone - s.threshold))
            * s.density) \div MaxTone

Coverage(p) == Greatest({p.c, p.m, p.y, p.k})

(* A plate file holds the darkest tone; "none" and a missing file fail.   *)
Specialty(s, mode, p, plate) ==
    CASE mode = 0 -> 0
      [] mode = 1 -> ThresholdDensity(s, Coverage(p))
      [] mode = 2 -> s.density
      [] mode = 3 -> IF plate = "none" THEN 0 ELSE ThresholdDensity(s, MaxTone)

(* The whole-frame path loads the plate the channel names.  The bounded    *)
(* path loads each plate only in its own plate mode and tells the two      *)
(* apart by their paths.                                                   *)
MemoryPlates(s) == [w |-> s.whitePlate, v |-> s.varnishPlate]
BoundedPlate(s, path) ==
    IF path = s.whitePlate
    THEN IF s.whiteMode = 3 THEN s.whitePlate ELSE "none"
    ELSE IF s.varnishMode = 3 THEN s.varnishPlate ELSE "none"
BoundedPlates(s) ==
    [w |-> BoundedPlate(s, s.whitePlate), v |-> BoundedPlate(s, s.varnishPlate)]

-----------------------------------------------------------------------------
(* Curves: what the XML names is explicit; a light ink the XML does not    *)
(* name is derived from its parent if the XML names that one.              *)
Parent == [lc |-> "c", lm |-> "m", lk |-> "k", llk |-> "k"]
CurveOf(s, ink) ==
    IF s.curves = {} THEN "identity"
    ELSE IF ink \in s.curves THEN "explicit"
    ELSE IF ink \in DOMAIN Parent /\ Parent[ink] \in s.curves THEN "derived"
    ELSE "identity"

Tone(s, ink, v) == [ink |-> ink, v |-> v, curve |-> CurveOf(s, ink)]

(* Without curves the windows split a tone between dark and light ink;     *)
(* with curves every ink of a family gets the whole tone through its own.  *)
SplitTones(s, p) ==
    LET c == Split2(p.c, s.window)  m == Split2(p.m, s.window)
        k == Split3(p.k, s.window)
        fades == s.mode \in {8, 10} /\ s.gcr.on /\ IsNeutral(s.gcr, p)
        light(v, pct) == IF fades THEN Fade(v, pct) ELSE v
        linear == s.curves # {}
    IN  [c   |-> IF linear THEN p.c ELSE c.dark,
         m   |-> IF linear THEN p.m ELSE m.dark,
         k   |-> IF linear THEN p.k ELSE k.k,
         lc  |-> light(IF linear THEN p.c ELSE c.light, s.gcr.lcFade),
         lm  |-> light(IF linear THEN p.m ELSE m.light, s.gcr.lmFade),
         lk  |-> IF linear THEN p.k ELSE k.lk,
         llk |-> IF linear THEN p.k ELSE k.llk]

Whole(s, p, ink) == Tone(s, ink, p[ink])
White(s, p, plates) ==
    Tone(s, "w", Specialty(s, s.whiteMode, p, plates.w))
Varnish(s, p, plates) ==
    Tone(s, "v", Specialty(s, s.varnishMode, p, plates.v))

(* The modes with four colours, with two light inks and with two light     *)
(* inks and two greys; mode 10 is the last with white and varnish.         *)
FourTones(s, p) == [i \in 1..4 |-> Whole(s, p, <<"c", "m", "y", "k">>[i])]
SixTones(s, p) ==
    LET d == SplitTones(s, p)
    IN  <<Tone(s, "c", d.c), Tone(s, "m", d.m), Whole(s, p, "y"), Whole(s, p, "k"),
          Tone(s, "lm", d.lm), Tone(s, "lc", d.lc)>>
EightTones(s, p) ==
    LET d == SplitTones(s, p)
    IN  <<Tone(s, "c", d.c), Tone(s, "m", d.m), Whole(s, p, "y"), Tone(s, "k", d.k),
          Tone(s, "lc", d.lc), Tone(s, "lm", d.lm), Tone(s, "lk", d.lk),
          Tone(s, "llk", d.llk)>>

(* The X-33: four colours as they are, through the curves, and white.      *)
X33Tones(s, px, plates) ==
    IF s.whiteMode = 0 THEN FourTones(s, px)
    ELSE Append(FourTones(s, px), White(s, px, plates))
X33WhiteFails(s, plates) ==
    s.whiteMode = 3 /\ plates.w = "none"

(* buildToneChannels(): the logical channels of a mode, in their order.    *)
GreyReplaced(s, px) == IF s.x33 THEN px ELSE GcrNeutralTransfer(s.gcr, px)
BuildToneChannels(s, px, plates) ==
    LET p == GreyReplaced(s, px)
    IN  CASE s.x33 -> X33Tones(s, px, plates)
          [] ~s.x33 /\ s.mode = 4 -> FourTones(s, p)
          [] ~s.x33 /\ s.mode = 5 -> Append(FourTones(s, p), White(s, p, plates))
          [] s.mode = 6 -> SixTones(s, p)
          [] s.mode = 7 -> Append(SixTones(s, p), White(s, p, plates))
          [] s.mode = 8 -> EightTones(s, p)
          [] s.mode = 10 ->
                EightTones(s, p) \o <<White(s, p, plates), Varnish(s, p, plates)>>

(* maskKeyForChannel(): the blue-noise mask of a logical channel.  *)
MaskKeys(mode) ==
    LET four == <<"c", "m", "y", "k">>
    IN  CASE mode = 4 -> four
          [] mode = 5 -> Append(four, "w")
          [] mode = 6 -> four \o <<"lm", "lc">>
          [] mode = 7 -> four \o <<"lm", "lc", "w">>
          [] mode = 8 -> four \o <<"lc", "lm", "lk", "llk">>
          [] mode = 10 -> four \o <<"lc", "lm", "lk", "llk", "w", "v">>

(* The light inks in the order of the logical channels.  *)
LogicalOrder(mode) ==
    CASE mode = 4 -> <<2, 1, 0, 3>>
      [] mode > 4 -> <<2, 1, 0, 3>> \o [i \in 1..(mode - 4) |-> i + 3]
(* The logical channel (from 0) each physical plane repeats.  *)
ChannelOrder(mode) ==
    CASE mode = 4 -> <<2, 1, 0, 3>>
      [] mode = 5 -> <<2, 1, 0, 3, 4>>
      [] mode = 6 -> <<2, 1, 0, 3, 4, 5>>
      [] mode = 7 -> <<2, 1, 0, 3, 4, 5, 6>>
      [] mode = 8 -> <<2, 1, 0, 3, 5, 4, 6, 7>>
      [] mode = 10 -> <<2, 1, 0, 3, 5, 4, 6, 7, 8, 9>>

(* The X-33 prints its one white channel on two planes.  *)
X33ChannelOrder(mode) == IF mode = 4 THEN <<2, 1, 0, 3>> ELSE <<2, 1, 0, 3, 4, 4>>
PlaneOrder(s) == IF s.x33 THEN X33ChannelOrder(s.mode) ELSE ChannelOrder(s.mode)

IsLightChannel(mode, i) ==
    \/ mode \in {6, 7} /\ i \in 4..5
    \/ mode \in {8, 10} /\ i \in 4..7

(* The planes the printer expects, as the ink modes are named.  *)
InkPlanes(mode) ==
    LET base == <<"y", "m", "c", "k">>
        light == <<"lm", "lc">>
        grey == <<"lk", "llk">>
    IN  CASE mode = 4 -> base
          [] mode = 5 -> base \o <<"w">>
          [] mode = 6 -> base \o light
          [] mode = 7 -> base \o light \o <<"w">>
          [] mode = 8 -> base \o light \o grey
          [] mode = 10 -> base \o light \o grey \o <<"w", "v">>

-----------------------------------------------------------------------------
Settings ==
    [x33 : BOOLEAN, mode : InkModes, gcr : Gcrs, window : Windows, curves : Curves,
     whiteMode : 0..3, varnishMode : 0..3, whitePlate : Plates,
     varnishPlate : Plates, threshold : Thresholds, density : Densities]

(* Settings a mode ignores are fixed.  *)
Sensible(s) ==
    /\ s.x33 => s.mode \in {4, 5} /\ (s.mode = 5) = (s.whiteMode # 0) /\ ~s.gcr.on
    /\ s.mode \notin {5, 7, 10} => s.whiteMode = 0
    /\ s.mode # 10 => s.varnishMode = 0
    /\ s.mode < 6 => s.window = CHOOSE w \in Windows : TRUE
    /\ s.varnishMode = 0 => s.varnishPlate = "none"
    /\ s.whiteMode = 0 /\ s.varnishMode = 0 => s.whitePlate = "none"

TInit ==
    /\ tpc = "source" /\ tones = <<>>
    /\ setting \in {s \in Settings : Sensible(s)}
    /\ pixel \in Pixels

MaskAlpha ==
    /\ tpc = "source" /\ tpc' = "masked"
    /\ \E a \in Alphas : pixel' = [i \in DOMAIN pixel |-> ApplyAlpha(pixel[i], a)]
    /\ UNCHANGED <<setting, tones>>

BuildTones ==
    /\ tpc = "masked" /\ tpc' = "toned"
    /\ ~(setting.x33 /\ X33WhiteFails(setting, BoundedPlates(setting)))
    /\ tones' = BuildToneChannels(setting, pixel, BoundedPlates(setting))
    /\ UNCHANGED <<pixel, setting>>

(* Only the X-33 refuses a missing plate.  *)
RefusePlate ==
    /\ tpc = "masked" /\ tpc' = "refused"
    /\ setting.x33 /\ X33WhiteFails(setting, BoundedPlates(setting))
    /\ UNCHANGED <<pixel, setting, tones>>

TNext == MaskAlpha \/ BuildTones \/ RefusePlate

-----------------------------------------------------------------------------
(* What the channels print of an ink.  *)
Total(ts, ink) ==
    MapThenSumSet(LAMBDA i : ts[i].v, {i \in DOMAIN ts : ts[i].ink = ink})

(* The two windows of black follow each other, as the defaults do.  *)
Apart(w) ==
    w.t1Start <= w.t1End /\ w.t1End <= w.t2Start /\ w.t2Start <= w.t2End

(* Replacing grey keeps the hue and never takes black away; without curves *)
(* a split loses no ink but what the fade of a neutral pixel takes from    *)
(* the light inks, and makes none unless the windows of black overlap,     *)
(* which no page forbids (MultiInkToneBuilder.cpp:111-252); a blank pixel  *)
(* prints no colour.                                                       *)
TonesConserveInk ==
    tpc = "toned" =>
      LET p == GreyReplaced(setting, pixel)
          v(ink) == Total(tones, ink)
          black == v("k") + v("lk") + v("llk")
          faded == setting.gcr.on /\ IsNeutral(setting.gcr, p)
      IN  /\ p.c - p.m = pixel.c - pixel.m /\ p.m - p.y = pixel.m - pixel.y
          /\ p.k >= pixel.k
          /\ setting.curves = {} =>
               /\ black >= p.k /\ (Apart(setting.window) => black = p.k)
               /\ v("c") + v("lc") <= p.c /\ v("m") + v("lm") <= p.m
               /\ ~faded => v("c") + v("lc") = p.c /\ v("m") + v("lm") = p.m
          /\ Coverage(pixel) = 0 =>
               \A i \in DOMAIN tones : tones[i].ink \notin {"w", "v"} => tones[i].v = 0

(* Four tables of three files agree in every ink mode: the channel the     *)
(* tone builder fills, the mask it is screened with and the plane that     *)
(* repeats it are of one ink (MultiInkToneBuilder.cpp:428-708,             *)
(* PrintJobMultiInk.cpp:638-719 and 1005-1012, PrintJobCMYK.cpp:342-360    *)
(* for the X-33, whose white fills two planes); and the bounded backend    *)
(* builds the tones the whole-frame backend builds, except when white and  *)
(* varnish name one file and white is not in plate mode.                   *)
EveryPlaneIsItsInk ==
    tpc = "toned" =>
      /\ Len(tones) = setting.mode
      /\ \A i \in DOMAIN tones :
           /\ tones[i].ink = MaskKeys(setting.mode)[i]
           /\ (tones[i].ink \in DOMAIN Parent) = IsLightChannel(setting.mode, i - 1)
      /\ LET order == PlaneOrder(setting)
         IN  [p \in DOMAIN order |-> tones[order[p] + 1].ink] =
                IF setting.x33 /\ setting.mode = 5
                THEN Append(InkPlanes(5), "w") ELSE InkPlanes(setting.mode)
      /\ setting.whitePlate # setting.varnishPlate \/ setting.whiteMode = 3 =>
           tones = BuildToneChannels(setting, pixel, MemoryPlates(setting))
====
