---- MODULE DeskProofs ----
(***************************************************************************)
(* What holds of the settings and of the editor for any printers, modes,   *)
(* pictures and numbers of gestures.                                       *)
(***************************************************************************)
EXTENDS Desk, SequenceTheorems, FiniteSetTheorems, WellFoundedInduction, TLAPS

-----------------------------------------------------------------------------
(* -------- the settings ------------------------------------------------- *)
AnyPath == Paths \union {""}
Known == Printers \union {"X-33", "X-36 Studio"}
DirectType == [grade : 1..3, voltage : 400..600]
ParamsType == [whiteMode : 0..3, density : 0..255]
SettingsType ==
    [printer : Known, input : AnyPath, threshold : 0..255, floorMax : 0..8,
     curve : AnyPath, output : {"prn", "direct"}, direct : DirectType,
     families : [Kinds -> [Families -> AnyPath]],
     overrides : [Kinds -> [Printers \X Families -> AnyPath]],
     params : [Modes -> ParamsType]]

Keys == {"printer", "input", "threshold", "floorMax", "curve",
         "output", "direct", "families", "overrides", "params"}
ValuesOf(key) ==
    CASE key = "printer" -> Known
      [] key \in {"input", "curve"} -> AnyPath
      [] key = "threshold" -> 0..255
      [] key = "floorMax" -> 0..8
      [] key = "output" -> {"prn", "direct"}
      [] key = "direct" -> DirectType
      [] key = "families" -> [Kinds -> [Families -> AnyPath]]
      [] key = "overrides" -> [Kinds -> [Printers \X Families -> AnyPath]]
      [] key = "params" -> [Modes -> ParamsType]
(* What the file holds is what the last complete save had, and a save that *)
(* is under way follows a change.                                          *)
FileInv ==
    /\ file.state = "whole" =>
         Loaded(file.held) = lastSaved /\ Loaded(file.held) \in SettingsType
    /\ phase = "writing" => ~fresh
    /\ phase = "running" /\ fresh =>
         settings = IF file.state = "whole" THEN lastSaved ELSE Defaults
    /\ phase = "running" /\ ~behind =>
         /\ file.state = "whole"
         /\ \A key \in Immediate : Loaded(file.held)[key] = settings[key]
SettingsInv == settings \in SettingsType /\ FileInv

-----------------------------------------------------------------------------
(* Normalising a name twice is normalising it once.  *)
LEMMA NamesNormalise == \A p \in Known : NormalizedPrinterName(p) = p
  BY DEF Known, Printers, NormalizedPrinterName

LEMMA DirectNormalises ==
    ASSUME NEW d, d.grade \in Int, d.voltage \in Int
    PROVE  /\ NormalizedDirect(d) \in DirectType
           /\ d \in DirectType => NormalizedDirect(d) = d
  BY DEF NormalizedDirect, DirectType, Between

LEMMA ParamsClamp ==
    ASSUME NEW m, m.whiteMode \in Int, m.density \in Int
    PROVE  /\ ClampParams(m) \in ParamsType
           /\ m \in ParamsType => ClampParams(m) = m
  BY DEF ClampParams, ParamsType, Between

(* Settings are a function whose values lie in their sets, and nothing else. *)
LEMMA Disassembled ==
    ASSUME NEW s \in SettingsType
    PROVE  s = [k \in Keys |-> s[k]] /\ \A k \in Keys : s[k] \in ValuesOf(k)
<1>1. s = [k \in Keys |-> s[k]]
  BY DEF SettingsType, Keys
<1>2. /\ s.printer \in Known /\ s.input \in AnyPath /\ s.curve \in AnyPath
      /\ s.threshold \in 0..255 /\ s.floorMax \in 0..8
      /\ s.output \in {"prn", "direct"} /\ s.direct \in DirectType
  BY DEF SettingsType
<1>3. /\ s.families \in [Kinds -> [Families -> AnyPath]]
      /\ s.overrides \in [Kinds -> [Printers \X Families -> AnyPath]]
      /\ s.params \in [Modes -> ParamsType]
  BY DEF SettingsType
<1> QED
  BY <1>1, <1>2, <1>3 DEF Keys, ValuesOf
LEMMA Assembled ==
    ASSUME NEW s, s = [k \in Keys |-> s[k]], \A k \in Keys : s[k] \in ValuesOf(k)
    PROVE  s \in SettingsType
<1>1. /\ s.printer \in Known /\ s.input \in AnyPath /\ s.curve \in AnyPath
      /\ s.threshold \in 0..255 /\ s.floorMax \in 0..8
      /\ s.output \in {"prn", "direct"} /\ s.direct \in DirectType
  BY DEF Keys, ValuesOf
<1>2. /\ s.families \in [Kinds -> [Families -> AnyPath]]
      /\ s.overrides \in [Kinds -> [Printers \X Families -> AnyPath]]
      /\ s.params \in [Modes -> ParamsType]
  BY DEF Keys, ValuesOf
<1> QED
  BY <1>1, <1>2 DEF SettingsType, Keys
(* One value at a time.  *)
LEMMA OneValue ==
    ASSUME NEW s \in SettingsType, NEW key \in Keys, NEW v \in ValuesOf(key)
    PROVE  [s EXCEPT ![key] = v] \in SettingsType
<1> DEFINE r == [s EXCEPT ![key] = v]
<1>1. r = [k \in Keys |-> IF k = key THEN v ELSE s[k]]
  BY Disassembled
<1>2. \A k \in Keys : r[k] \in ValuesOf(k)
  BY <1>1, Disassembled
<1> QED
  BY <1>1, <1>2, Assembled
(* The keys of the setters and the sets of their values.  *)
LEMMA ValueSets ==
    /\ {"printer", "input", "curve", "threshold", "floorMax"} \subseteq Deferred
    /\ Deferred \subseteq Keys
    /\ {"output", "direct", "params", "families", "overrides"} \subseteq Keys
    /\ ValuesOf("printer") = Known
    /\ ValuesOf("input") = AnyPath /\ ValuesOf("curve") = AnyPath
    /\ ValuesOf("threshold") = 0..255 /\ ValuesOf("floorMax") = 0..8
    /\ ValuesOf("output") = {"prn", "direct"} /\ ValuesOf("direct") = DirectType
    /\ ValuesOf("params") = [Modes -> ParamsType]
    /\ ValuesOf("families") = [Kinds -> [Families -> AnyPath]]
    /\ ValuesOf("overrides") = [Kinds -> [Printers \X Families -> AnyPath]]
  BY DEF Keys, Deferred, ValuesOf

LEMMA DefaultsInRange == Defaults \in SettingsType
<1>1. NoPaths \in [Kinds -> [Families -> AnyPath]]
  BY DEF NoPaths, AnyPath
<1>2. \A m \in Modes : DefaultParams(m) \in ParamsType
  BY DEF DefaultParams, ParamsType
<1>3. DefaultDirect \in DirectType
  BY DEF DefaultDirect, DirectType
<1>4. [k \in Kinds |-> [x \in Printers \X Families |-> ""]]
        \in [Kinds -> [Printers \X Families -> AnyPath]]
  BY DEF AnyPath
<1> QED
  <2>1. "X-33" \in Known /\ "" \in AnyPath /\ 8 \in 0..255 /\ 2 \in 0..8
    BY DEF Known, AnyPath
  <2>2. [m \in Modes |-> DefaultParams(m)] \in [Modes -> ParamsType]
    BY <1>2
  <2>3. Defaults = [k \in Keys |-> Defaults[k]]
    BY DEF Defaults, Keys
  <2>4. ASSUME NEW k \in Keys PROVE Defaults[k] \in ValuesOf(k)
    <3>1. /\ Defaults.printer \in Known /\ Defaults.input \in AnyPath
          /\ Defaults.curve \in AnyPath /\ Defaults.threshold \in 0..255
          /\ Defaults.floorMax \in 0..8 /\ Defaults.output \in {"prn", "direct"}
          /\ Defaults.direct \in DirectType
      BY <1>3, <2>1 DEF Defaults
    <3>2. /\ Defaults.families \in [Kinds -> [Families -> AnyPath]]
          /\ Defaults.overrides \in [Kinds -> [Printers \X Families -> AnyPath]]
          /\ Defaults.params \in [Modes -> ParamsType]
      BY <1>1, <1>4, <2>2 DEF Defaults
    <3> QED
      BY <3>1, <3>2 DEF ValuesOf, Keys
  <2> QED
    BY <2>3, <2>4, Assembled

(* Given keys over the defaults stay in range; a whole set of keys is kept. *)
LEMMA MergeInRange ==
    ASSUME NEW mode \in Modes, NEW m \in ParamsType
    PROVE  Merged(mode, m) = m
<1>1. DOMAIN m = {"whiteMode", "density"}
  BY DEF ParamsType
<1>2. [k \in {"whiteMode", "density"} |->
          IF k \in DOMAIN m THEN m[k] ELSE DefaultParams(mode)[k]] = m
  BY <1>1 DEF ParamsType
<1> QED
  BY <1>2, ParamsClamp DEF Merged, ParamsType

(* load() changes six values of what it has read and keeps four.  *)
LEMMA LoadedValues ==
    ASSUME NEW o, o = [k \in Keys |-> o[k]]
    PROVE  /\ Loaded(o) = [k \in Keys |-> Loaded(o)[k]]
           /\ Loaded(o).printer = NormalizedPrinterName(o.printer)
           /\ Loaded(o).threshold = Between(0, 255, o.threshold)
           /\ Loaded(o).floorMax = Between(0, 8, o.floorMax)
           /\ Loaded(o).output = IF o.output = "direct" THEN "direct" ELSE "prn"
           /\ Loaded(o).direct = NormalizedDirect(o.direct)
           /\ Loaded(o).params = [m \in Modes |-> Merged(m, o.params[m])]
           /\ Loaded(o).input = o.input /\ Loaded(o).curve = o.curve
           /\ Loaded(o).families = o.families /\ Loaded(o).overrides = o.overrides
<1> DEFINE o1 == [o EXCEPT !.printer = NormalizedPrinterName(o.printer)]
           o2 == [o1 EXCEPT !.threshold = Between(0, 255, o.threshold)]
           o3 == [o2 EXCEPT !.floorMax = Between(0, 8, o.floorMax)]
           o4 == [o3 EXCEPT !.output = IF o.output = "direct" THEN "direct" ELSE "prn"]
           o5 == [o4 EXCEPT !.direct = NormalizedDirect(o.direct)]
           o6 == [o5 EXCEPT !.params = [m \in Modes |-> Merged(m, o.params[m])]]
<1>1. /\ o1 = [k \in Keys |-> o1[k]]
      /\ o1.printer = NormalizedPrinterName(o.printer)
      /\ \A k \in Keys \ {"printer"} : o1[k] = o[k]
  BY DEF Keys
<1> HIDE DEF o1
<1>2. /\ o2 = [k \in Keys |-> o2[k]] /\ o2.threshold = Between(0, 255, o.threshold)
      /\ \A k \in Keys \ {"threshold"} : o2[k] = o1[k]
  BY <1>1 DEF Keys
<1> HIDE DEF o2
<1>3. /\ o3 = [k \in Keys |-> o3[k]] /\ o3.floorMax = Between(0, 8, o.floorMax)
      /\ \A k \in Keys \ {"floorMax"} : o3[k] = o2[k]
  BY <1>2 DEF Keys
<1> HIDE DEF o3
<1>4. /\ o4 = [k \in Keys |-> o4[k]]
      /\ o4.output = IF o.output = "direct" THEN "direct" ELSE "prn"
      /\ \A k \in Keys \ {"output"} : o4[k] = o3[k]
  BY <1>3 DEF Keys
<1> HIDE DEF o4
<1>5. /\ o5 = [k \in Keys |-> o5[k]] /\ o5.direct = NormalizedDirect(o.direct)
      /\ \A k \in Keys \ {"direct"} : o5[k] = o4[k]
  BY <1>4 DEF Keys
<1> HIDE DEF o5
<1>6. /\ o6 = [k \in Keys |-> o6[k]]
      /\ o6.params = [m \in Modes |-> Merged(m, o.params[m])]
      /\ \A k \in Keys \ {"params"} : o6[k] = o5[k]
  BY <1>5 DEF Keys
<1>7. Loaded(o) = o6
  BY Zenon DEF Loaded, o1, o2, o3, o4, o5
<1> HIDE DEF o6
<1> QED
  BY <1>1, <1>2, <1>3, <1>4, <1>5, <1>6, <1>7 DEF Keys

(* What save() writes, load() reads back to the last value.  *)
LEMMA RoundTrip ==
    ASSUME NEW s \in SettingsType
    PROVE  Loaded(Stored(s)) = s
<1>1. NormalizedDirect(s.direct) = s.direct
  BY DirectNormalises DEF SettingsType, DirectType
<1>2. \A m \in Modes : ClampParams(s.params[m]) = s.params[m]
  BY ParamsClamp DEF SettingsType, ParamsType
<1>3. [m \in Modes |-> ClampParams(s.params[m])] = s.params
  BY <1>2 DEF SettingsType
<1>4. Stored(s) = s
  BY <1>1, <1>3 DEF Stored, SettingsType
<1>5. [m \in Modes |-> Merged(m, s.params[m])] = s.params
  BY MergeInRange DEF SettingsType
<1>6. /\ NormalizedPrinterName(s.printer) = s.printer
      /\ Between(0, 255, s.threshold) = s.threshold
      /\ Between(0, 8, s.floorMax) = s.floorMax
      /\ (IF s.output = "direct" THEN "direct" ELSE "prn") = s.output
  BY NamesNormalise DEF SettingsType, Between
<1>7. Loaded(s) = s
  <2>1. s = [k \in Keys |-> s[k]]
    BY Disassembled
  <2> QED
    BY <1>1, <1>5, <1>6, <2>1, LoadedValues DEF Keys
<1> QED
  BY <1>4, <1>7

(* A file of an earlier version: any numbers, and only one of a mode's     *)
(* parameters.                                                             *)
OldNames == {"X-33", "X-36NC"}
OldDirect == [grade : Int, voltage : Int]
OldParams == [whiteMode : Int]
IsOld(o) ==
    /\ o = [k \in Keys |-> o[k]]
    /\ o.printer \in OldNames /\ o.input \in AnyPath /\ o.curve \in AnyPath
    /\ o.threshold \in Int /\ o.floorMax \in Int /\ o.direct \in OldDirect
    /\ o.families \in [Kinds -> [Families -> AnyPath]]
    /\ o.overrides \in [Kinds -> [Printers \X Families -> AnyPath]]
    /\ o.params \in [Modes -> OldParams]

(* It is read into the ranges of today.  *)
LEMMA OldFilesLoad == ASSUME NEW o, IsOld(o) PROVE Loaded(o) \in SettingsType
<1>1. ASSUME NEW m \in Modes, NEW p \in OldParams PROVE Merged(m, p) \in ParamsType
  <2> DEFINE full == [k \in {"whiteMode", "density"} |->
                        IF k \in DOMAIN p THEN p[k] ELSE DefaultParams(m)[k]]
  <2>1. full.whiteMode \in Int /\ full.density = 255
    BY DEF DefaultParams, OldParams
  <2> QED
    BY <2>1, ParamsClamp DEF Merged
<1>2. [m \in Modes |-> Merged(m, o.params[m])] \in [Modes -> ParamsType]
  <2>1. \A m \in Modes : o.params[m] \in OldParams
    BY DEF IsOld
  <2> QED
    BY <1>1, <2>1
<1>3. NormalizedDirect(o.direct) \in DirectType
  BY DirectNormalises DEF IsOld, OldDirect
<1>4. NormalizedPrinterName(o.printer) \in Known
  BY DEF IsOld, NormalizedPrinterName, Known, OldNames
<1>5. Between(0, 255, o.threshold) \in 0..255 /\ Between(0, 8, o.floorMax) \in 0..8
  <2>1. o.threshold \in Int /\ o.floorMax \in Int
    BY DEF IsOld
  <2> QED
    BY <2>1 DEF Between
<1>6. (IF o.output = "direct" THEN "direct" ELSE "prn") \in {"prn", "direct"}
  OBVIOUS
<1> DEFINE r == Loaded(o)
<1>7. r = [k \in Keys |-> r[k]]
  BY LoadedValues DEF IsOld
<1>8. /\ r.printer \in Known /\ r.threshold \in 0..255 /\ r.floorMax \in 0..8
      /\ r.output \in {"prn", "direct"} /\ r.direct \in DirectType
      /\ r.params \in [Modes -> ParamsType]
  <2>1. o = [k \in Keys |-> o[k]]
    BY DEF IsOld
  <2>2. /\ r.printer = NormalizedPrinterName(o.printer)
        /\ r.threshold = Between(0, 255, o.threshold)
        /\ r.floorMax = Between(0, 8, o.floorMax)
        /\ r.output = IF o.output = "direct" THEN "direct" ELSE "prn"
        /\ r.direct = NormalizedDirect(o.direct)
        /\ r.params = [m \in Modes |-> Merged(m, o.params[m])]
    BY <2>1, LoadedValues
  <2> HIDE DEF r
  <2> QED
    BY <1>2, <1>3, <1>4, <1>5, <1>6, <2>2
<1>9. /\ r.input \in AnyPath /\ r.curve \in AnyPath
      /\ r.families \in [Kinds -> [Families -> AnyPath]]
      /\ r.overrides \in [Kinds -> [Printers \X Families -> AnyPath]]
  BY LoadedValues DEF IsOld
<1> HIDE DEF r
<1>10. ASSUME NEW k \in Keys PROVE r[k] \in ValuesOf(k)
  BY <1>8, <1>9 DEF Keys, ValuesOf
<1> QED
  BY <1>7, <1>10, Assembled DEF r

LEMMA LegacyInRange == Loaded(Legacy) \in SettingsType
<1>1. Defaults = [k \in Keys |-> Defaults[k]] /\ Defaults \in SettingsType
  BY DefaultsInRange, Disassembled
<1>2. Legacy = [k \in Keys |-> Legacy[k]]
  BY <1>1, Zenon DEF Legacy
<1>3. /\ Legacy.printer = "X-36NC" /\ Legacy.threshold = 300
      /\ Legacy.direct = [grade |-> 0, voltage |-> 0]
      /\ Legacy.params = [m \in Modes |-> [whiteMode |-> 4]]
  BY <1>1 DEF Legacy, Keys
<1>4. /\ Legacy.input = Defaults.input /\ Legacy.curve = Defaults.curve
      /\ Legacy.floorMax = Defaults.floorMax
      /\ Legacy.families = Defaults.families
      /\ Legacy.overrides = Defaults.overrides
  BY <1>1 DEF Legacy, Keys
<1>5. /\ Defaults.input \in AnyPath /\ Defaults.curve \in AnyPath
      /\ Defaults.floorMax \in Int
      /\ Defaults.families \in [Kinds -> [Families -> AnyPath]]
      /\ Defaults.overrides \in [Kinds -> [Printers \X Families -> AnyPath]]
  <2>1. Defaults.input = "" /\ Defaults.curve = ""
    BY DEF Defaults
  <2>2. /\ Defaults.families \in ValuesOf("families")
        /\ Defaults.overrides \in ValuesOf("overrides")
    BY DefaultsInRange, Disassembled, ValueSets
  <2>3. "" \in AnyPath
    BY DEF AnyPath
  <2>4. /\ Defaults.families \in [Kinds -> [Families -> AnyPath]]
        /\ Defaults.overrides \in [Kinds -> [Printers \X Families -> AnyPath]]
    BY <2>2, ValueSets, Zenon
  <2>5. Defaults.floorMax \in Int
    BY DEF Defaults
  <2> QED
    BY <2>1, <2>3, <2>4, <2>5, Zenon
<1>6. /\ "X-36NC" \in OldNames /\ 300 \in Int
      /\ [grade |-> 0, voltage |-> 0] \in OldDirect
  BY DEF OldNames, OldDirect
<1>7. [m \in Modes |-> [whiteMode |-> 4]] \in [Modes -> OldParams]
  <2>1. [whiteMode |-> 4] \in OldParams
    BY DEF OldParams
  <2> QED
    BY <2>1
<1>8. IsOld(Legacy)
  BY <1>2, <1>3, <1>4, <1>5, <1>6, <1>7 DEF IsOld
<1> QED
  BY <1>8, OldFilesLoad

-----------------------------------------------------------------------------
(* A setter that saves leaves the file torn, or as it was if it does not open. *)
LEMMA SavesKeep ==
    ASSUME SettingsInv, Gesture, Save, settings' \in SettingsType
    PROVE  SettingsInv'
  BY DEF SettingsInv, FileInv, Gesture, Save, Torn

LEMMA SavedValue ==
    ASSUME SettingsInv, Gesture, Save, NEW key \in Keys, NEW v \in ValuesOf(key),
           settings' = [settings EXCEPT ![key] = v]
    PROVE  SettingsInv'
<1>1. settings' \in SettingsType
  BY OneValue DEF SettingsInv
<1> QED
  BY <1>1, SavesKeep

(* A setter that does not save changes nothing that is on disk at once.  *)
LEMMA DeferredValue ==
    ASSUME SettingsInv, Gesture, NEW key \in Deferred, NEW v \in ValuesOf(key),
           Keeps([settings EXCEPT ![key] = v])
    PROVE  SettingsInv'
<1>1. settings \in SettingsType /\ key \in Keys
  BY ValueSets DEF SettingsInv
<1>2. settings' \in SettingsType
  BY <1>1, OneValue DEF Keeps
<1>3. \A k \in Immediate : settings'[k] = settings[k]
  <2>1. \A k \in Immediate : k # key
    BY DEF Immediate
  <2>2. settings = [k \in Keys |-> settings[k]]
    BY <1>1, Disassembled
  <2>3. Immediate \subseteq Keys
    BY DEF Immediate, Defaults, Keys
  <2> QED
    BY <2>1, <2>2, <2>3 DEF Keeps
<1> QED
  BY <1>2, <1>3 DEF SettingsInv, FileInv, Gesture, Keeps

LEMMA InitialSettings == CInit => SettingsInv
<1> SUFFICES ASSUME CInit PROVE SettingsInv
  OBVIOUS
<1>1. CASE file = Absent
  BY <1>1, DefaultsInRange DEF CInit, SettingsInv, FileInv, Absent, AtStart
<1>2. CASE file = Whole(Legacy)
  BY <1>2, LegacyInRange DEF CInit, SettingsInv, FileInv, Whole, AtStart
<1> QED
  BY <1>1, <1>2 DEF CInit

(* The setters that wait for the page's Save button.  *)
LEMMA DeferredSetters ==
    ASSUME SettingsInv,
           \/ \E n \in Names : SetSelectedPrinter(n)
           \/ \E p \in Paths : SetDefaultInputProfile(p) \/ SetLinearizationDataPath(p)
           \/ \E v \in Numbers : SetDotStrategy(v)
    PROVE  SettingsInv'
<1>1. ASSUME NEW n \in Names, SetSelectedPrinter(n) PROVE SettingsInv'
  <2>1. NormalizedPrinterName(n) \in Known
    BY DEF Known, Printers
  <2> QED
    BY <1>1, <2>1, ValueSets, DeferredValue DEF SetSelectedPrinter
<1>2. ASSUME NEW p \in Paths, SetDefaultInputProfile(p) PROVE SettingsInv'
  <2>1. p \in AnyPath
    BY DEF AnyPath
  <2> QED
    BY <1>2, <2>1, ValueSets, DeferredValue DEF SetDefaultInputProfile
<1>3. ASSUME NEW p \in Paths, SetLinearizationDataPath(p) PROVE SettingsInv'
  <2>1. p \in AnyPath
    BY DEF AnyPath
  <2> QED
    BY <1>3, <2>1, ValueSets, DeferredValue DEF SetLinearizationDataPath
<1>4. ASSUME NEW v \in Numbers, SetDotStrategy(v) PROVE SettingsInv'
  <2>1. Between(0, 255, v) \in 0..255 /\ Between(0, 8, v) \in 0..8
    BY NumbersAssumption DEF Between
  <2>2. CASE Keeps([settings EXCEPT !.threshold = Between(0, 255, v)])
    BY <1>4, <2>1, <2>2, ValueSets, DeferredValue DEF SetDotStrategy
  <2>3. CASE Keeps([settings EXCEPT !.floorMax = Between(0, 8, v)])
    BY <1>4, <2>1, <2>3, ValueSets, DeferredValue DEF SetDotStrategy
  <2> QED
    BY <1>4, <2>2, <2>3 DEF SetDotStrategy
<1> QED
  BY <1>1, <1>2, <1>3, <1>4

(* The setters that save at once.  *)
LEMMA SavingSetters ==
    ASSUME SettingsInv,
           \/ \E mode \in {"prn", "direct"} : SetMultiInkOutputMode(mode)
           \/ \E v \in Numbers : SetDirectPrintSettings(v)
           \/ \E m \in Modes, v \in Numbers : SetMultiInkParams(m, v)
           \/ \E k \in Kinds, f \in Families, p \in Paths :
                SetFamilyDefault(k, f, p) \/ \E n \in Names : SetPrinterFamily(k, n, f, p)
    PROVE  SettingsInv'
<1> settings \in SettingsType
  BY DEF SettingsInv
<1>1. ASSUME NEW mode \in {"prn", "direct"}, SetMultiInkOutputMode(mode)
      PROVE  SettingsInv'
  BY <1>1, ValueSets, SavedValue DEF SetMultiInkOutputMode, Saves
<1>2. ASSUME NEW v \in Numbers, SetDirectPrintSettings(v) PROVE SettingsInv'
  <2>1. /\ settings.direct \in DirectType
        /\ v \in Int
    BY NumbersAssumption DEF SettingsType
  <2>2. /\ NormalizedDirect([settings.direct EXCEPT !.grade = v]) \in DirectType
        /\ NormalizedDirect([settings.direct EXCEPT !.voltage = v]) \in DirectType
    BY <2>1, DirectNormalises DEF DirectType
  <2> QED
    BY <1>2, <2>2, ValueSets, SavedValue DEF SetDirectPrintSettings, Saves
<1>3. ASSUME NEW m \in Modes, NEW v \in Numbers, SetMultiInkParams(m, v)
      PROVE  SettingsInv'
  <2> DEFINE now1 == settings.params[m]
             white == [now1 EXCEPT !.whiteMode = v]
             dense == [now1 EXCEPT !.density = v]
  <2>1. now1 \in ParamsType /\ v \in Int /\ settings.params \in [Modes -> ParamsType]
    BY NumbersAssumption DEF SettingsType
  <2>2. white \in [whiteMode : Int, density : Int] /\ dense \in [whiteMode : Int, density : Int]
    BY <2>1 DEF ParamsType
  <2>3. ASSUME NEW p \in [whiteMode : Int, density : Int]
        PROVE  Merged(m, p) \in ParamsType
    <3>1. DOMAIN p = {"whiteMode", "density"}
      OBVIOUS
    <3>2. [k \in {"whiteMode", "density"} |->
              IF k \in DOMAIN p THEN p[k] ELSE DefaultParams(m)[k]] = p
      BY <3>1
    <3> QED
      BY <3>2, ParamsClamp DEF Merged
  <2>4. /\ [settings.params EXCEPT ![m] = Merged(m, white)] \in [Modes -> ParamsType]
        /\ [settings.params EXCEPT ![m] = Merged(m, dense)] \in [Modes -> ParamsType]
    BY <2>1, <2>2, <2>3
  <2>5. \/ settings' = [settings EXCEPT !.params = [@ EXCEPT ![m] = Merged(m, white)]]
        \/ settings' = [settings EXCEPT !.params = [@ EXCEPT ![m] = Merged(m, dense)]]
    BY <1>3 DEF SetMultiInkParams
  <2> HIDE DEF white, dense
  <2> QED
    BY <1>3, <2>4, <2>5, ValueSets, SavedValue DEF SetMultiInkParams
<1>4. ASSUME NEW k \in Kinds, NEW f \in Families, NEW p \in Paths,
             SetFamilyDefault(k, f, p)
      PROVE  SettingsInv'
  <2>1. [settings.families EXCEPT ![k][f] = p] \in [Kinds -> [Families -> AnyPath]]
    BY DEF SettingsType, AnyPath
  <2> QED
    BY <1>4, <2>1, ValueSets, SavedValue DEF SetFamilyDefault, Saves
<1>5. ASSUME NEW k \in Kinds, NEW f \in Families, NEW p \in Paths, NEW n \in Names,
             SetPrinterFamily(k, n, f, p)
      PROVE  SettingsInv'
  <2> DEFINE x == <<NormalizedPrinterName(n), f>>
  <2>1. [settings.overrides EXCEPT ![k][x] = p]
          \in [Kinds -> [Printers \X Families -> AnyPath]]
    BY DEF SettingsType, AnyPath
  <2> QED
    BY <1>5, <2>1, ValueSets, SavedValue DEF SetPrinterFamily, Saves
<1> QED
  BY <1>1, <1>2, <1>3, <1>4, <1>5

(* Saving, resetting, the second half of a write, the end and the start.  *)
LEMMA RestOfSettings ==
    ASSUME SettingsInv,
           ClickSave \/ ResetToDefaults \/ WriteSettings \/ Quit \/ Start
    PROVE  SettingsInv'
<1>1. CASE ClickSave
  BY <1>1, SavesKeep DEF ClickSave, SettingsInv
<1>2. CASE ResetToDefaults
  BY <1>2, DefaultsInRange DEF ResetToDefaults, Gesture, SettingsInv, FileInv
<1>3. CASE WriteSettings
  <2>1. Loaded(Stored(settings)) = settings /\ settings \in SettingsType
    BY RoundTrip DEF SettingsInv
  <2>2. CASE file' = Whole(Stored(settings)) /\ lastSaved' = settings
    BY <1>3, <2>1, <2>2 DEF WriteSettings, SettingsInv, FileInv, Whole
  <2>3. CASE behind' = TRUE /\ UNCHANGED <<file, lastSaved>>
    BY <1>3, <2>1, <2>3 DEF WriteSettings, SettingsInv, FileInv
  <2> QED
    BY <1>3, <2>2, <2>3 DEF WriteSettings
<1>4. CASE Quit
  BY <1>4 DEF Quit, SettingsInv, FileInv
<1>5. CASE Start
  BY <1>5, DefaultsInRange DEF Start, AtStart, SettingsInv, FileInv
<1> QED
  BY <1>1, <1>2, <1>3, <1>4, <1>5

LEMMA SettingsStep == SettingsInv /\ [CNext]_cvars => SettingsInv'
<1> SUFFICES ASSUME SettingsInv, [CNext]_cvars PROVE SettingsInv'
  OBVIOUS
<1>1. CASE CNext
  BY <1>1, DeferredSetters, SavingSetters, RestOfSettings DEF CNext
<1>2. CASE UNCHANGED cvars
  BY <1>2 DEF cvars, SettingsInv, FileInv
<1> QED
  BY <1>1, <1>2

LEMMA SettingsHold == SettingsInv => SettingsComeBack
<1> SUFFICES ASSUME SettingsInv PROVE SettingsComeBack
  OBVIOUS
<1>1. settings \in SettingsType /\ FileInv
  BY DEF SettingsInv
<1>2. /\ settings.threshold \in 0..255 /\ settings.floorMax \in 0..8
      /\ settings.direct \in DirectType
      /\ \A m \in Modes : settings.params[m] \in ParamsType
  BY <1>1 DEF SettingsType
<1> QED
  BY <1>1, <1>2 DEF SettingsComeBack, FileInv, DirectType, ParamsType

-----------------------------------------------------------------------------
(* -------- the editor --------------------------------------------------- *)
Pictures == [of : Artworks \union {"none"}, n : Nat, from : Nat]
Files == Artworks \X (0..MaxImposed)
Link(p, q) == q = p \/ q.from = p.n

EditorType ==
    /\ image \in Pictures /\ loaded \in BOOLEAN /\ made \in Nat
    /\ undo \in Seq(Pictures) /\ redo \in Seq(Pictures)
    /\ files \in [Files -> Pictures] /\ path \in [Artworks -> 0..MaxImposed]
    /\ page \in {"list", "details", "edit", "impose"} /\ open \in Artworks
    /\ held \in 0..MaxImposed /\ stray \in BOOLEAN

(* What one history shows: one job, step by step, ending in the picture on *)
(* the page and going on from it.                                          *)
OneJob(j) ==
    /\ image.of = j
    /\ \A i \in 1..Len(undo) : undo[i].of = j
    /\ \A i \in 1..Len(redo) : redo[i].of = j
Linked ==
    /\ \A i \in 1..(Len(undo) - 1) : Link(undo[i], undo[i + 1])
    /\ Len(undo) > 0 => Link(undo[Len(undo)], image)
    /\ \A i \in 1..(Len(redo) - 1) : Link(redo[i + 1], redo[i])
    /\ Len(redo) > 0 => Link(image, redo[Len(redo)])

HistoryInv ==
    ~stray =>
      /\ page # "edit" => undo = <<>> /\ redo = <<>>
      /\ page = "edit" => Linked /\ (loaded => OneJob(open))
OwnFiles == \A f \in Files \ spoiled : files[f] # Blank => files[f].of = f[1]
EditorInv == EditorType /\ HistoryInv /\ OwnFiles

LEMMA Pushed ==
    ASSUME NEW s \in Seq(Pictures), NEW e \in Pictures
    PROVE  /\ Append(s, e) \in Seq(Pictures)
           /\ Len(Append(s, e)) = Len(s) + 1 /\ Len(s) \in Nat
           /\ \A i \in 1..Len(s) : Append(s, e)[i] = s[i]
           /\ Append(s, e)[Len(s) + 1] = e
  OBVIOUS

LEMMA Popped ==
    ASSUME NEW s \in Seq(Pictures), s # <<>>
    PROVE  /\ Front(s) \in Seq(Pictures) /\ Last(s) \in Pictures
           /\ Len(s) \in Nat /\ Len(s) > 0 /\ Len(Front(s)) = Len(s) - 1
           /\ \A i \in 1..(Len(s) - 1) : Front(s)[i] = s[i]
           /\ Last(s) = s[Len(s)]
<1>1. Len(s) \in Nat \ {0} /\ \A i \in 1..Len(s) : s[i] \in Pictures
  BY EmptySeq, ElementOfSeq, Zenon
<1>2. /\ 1 \in Int /\ Len(s) - 1 \in Int /\ Len(s) \in 1..Len(s)
      /\ \A i \in 1..(Len(s) - 1) : s[i] \in Pictures
  BY <1>1
<1> DEFINE t == SubSeq(s, 1, Len(s) - 1)
<1>3. /\ t \in Seq(Pictures)
      /\ Len(t) = IF 1 <= Len(s) - 1 THEN (Len(s) - 1) - 1 + 1 ELSE 0
      /\ \A i \in 1..((Len(s) - 1) - 1 + 1) : t[i] = s[1 + i - 1]
  BY <1>2, SubSeqProperties
<1>4. Front(s) = t /\ Last(s) = s[Len(s)]
  BY Zenon DEF Front, Last
<1> HIDE DEF t
<1>5. Len(t) = Len(s) - 1
  <2>1. CASE 1 <= Len(s) - 1
    <3>1. (Len(s) - 1) - 1 + 1 = Len(s) - 1
      BY <1>1
    <3> QED
      BY <1>3, <2>1, <3>1, Zenon
  <2>2. CASE ~(1 <= Len(s) - 1)
    <3>1. Len(s) \in Nat \ {0}
      BY <1>1
    <3>2. \A n \in Nat \ {0} : ~(1 <= n - 1) => n - 1 = 0
      OBVIOUS
    <3>3. Len(s) - 1 = 0
      BY <2>2, <3>1, <3>2, Zenon
    <3> QED
      BY <1>3, <2>2, <3>3, Zenon
  <2> QED
    BY <2>1, <2>2
<1>6. ASSUME NEW i \in 1..(Len(s) - 1) PROVE t[i] = s[i]
  <2>1. i \in 1..((Len(s) - 1) - 1 + 1) /\ 1 + i - 1 = i
    BY <1>1
  <2> QED
    BY <1>3, <2>1, Zenon
<1> QED
  BY <1>1, <1>2, <1>3, <1>4, <1>5, <1>6

LEMMA EmptyHistory ==
    /\ <<>> \in Seq(Pictures) /\ Len(<<>>) = 0
  OBVIOUS

LEMMA BlankIsPicture == Blank \in Pictures
  BY DEF Blank, Pictures

LEMMA InitialEditor == EInit => EditorInv
<1> SUFFICES ASSUME EInit PROVE EditorInv
  OBVIOUS
<1>1. \A j \in Artworks : Own(j) \in Pictures /\ Own(j).of = j
  BY DEF Own, Pictures
<1>2. EditorType
  <2>1. files \in [Files -> Pictures]
    BY <1>1, BlankIsPicture DEF EInit, Files
  <2>2. path \in [Artworks -> 0..MaxImposed]
    BY EditorAssumption DEF EInit
  <2> QED
    BY <2>1, <2>2, BlankIsPicture, EmptyHistory DEF EInit, EditorType
<1>3. HistoryInv
  BY DEF EInit, HistoryInv
<1>4. OwnFiles
  BY <1>1 DEF EInit, OwnFiles, Files
<1> QED
  BY <1>2, <1>3, <1>4 DEF EditorInv

(* The file a job names is one of its files.  *)
LEMMA NamedFile ==
    ASSUME EditorType, NEW j \in Artworks
    PROVE  FileOf(j) \in Files /\ FileOf(j)[1] = j /\ files[FileOf(j)] \in Pictures
  BY DEF EditorType, FileOf, Files

(* So is the file the details page holds.  *)
LEMMA HeldFile ==
    ASSUME EditorType
    PROVE  FileHeld \in Files /\ FileHeld[1] = open /\ files[FileHeld] \in Pictures
  BY DEF EditorType, FileHeld, Files

(* Loading gives a picture or none.  *)
LEMMA LoadedPicture ==
    ASSUME EditorType, NEW f \in Files, LoadImage(f)
    PROVE  /\ image' \in Pictures /\ loaded' \in BOOLEAN
           /\ loaded' => files[f] # Blank /\ image' = files[f]
  BY BlankIsPicture DEF LoadImage, EditorType

LEMMA OpenEditorKeeps ==
    ASSUME EditorInv, OpenEditor
    PROVE  EditorInv'
<1> EditorType /\ HistoryInv /\ OwnFiles
  BY DEF EditorInv
<1> FileHeld \in Files /\ FileHeld[1] = open /\ files[FileHeld] \in Pictures
  BY HeldFile
<1>1. EditorType'
  BY LoadedPicture DEF OpenEditor, EditorType
<1>2. HistoryInv'
  <2> SUFFICES ASSUME ~stray' PROVE Linked' /\ (loaded' => OneJob(open)')
    BY DEF HistoryInv, OpenEditor
  <2>1. ~stray /\ FileHeld \notin spoiled
    BY DEF OpenEditor, EditorType
  <2>2. undo' = <<>> /\ redo' = <<>>
    BY <2>1 DEF OpenEditor, HistoryInv
  <2>3. loaded' => image'.of = open
    BY <2>1, LoadedPicture DEF OpenEditor, OwnFiles
  <2> QED
    BY <2>2, <2>3, EmptyHistory DEF Linked, OneJob, OpenEditor
<1>3. OwnFiles'
  BY DEF OwnFiles, OpenEditor
<1> QED
  BY <1>1, <1>2, <1>3 DEF EditorInv

(* An edit, or a stroke of the imposition page.  *)
LEMMA PerformKeepsType ==
    ASSUME EditorType, Perform
    PROVE  /\ image' \in Pictures /\ made' \in Nat
           /\ undo' \in Seq(Pictures) /\ redo' = <<>> /\ redo' \in Seq(Pictures)
           /\ image'.of = image.of /\ Link(image, image')
<1>1. CASE image' = Edited(image) /\ made' = made + 1
  BY <1>1, Pushed, EmptyHistory
     DEF Perform, PushUndoState, EditorType, Edited, Pictures, Link
<1>2. CASE UNCHANGED <<image, made>>
  BY <1>2, Pushed, EmptyHistory DEF Perform, PushUndoState, EditorType, Link
<1> QED
  BY <1>1, <1>2 DEF Perform

LEMMA EditKeeps ==
    ASSUME EditorInv, Reshape \/ Adjust \/ Filter
    PROVE  EditorInv'
<1> EditorType /\ HistoryInv /\ OwnFiles /\ page = "edit" /\ Perform /\ UNCHANGED stray
  BY DEF EditorInv, Reshape, Adjust, Filter
<1>1. EditorType'
  BY PerformKeepsType DEF EditorType, Perform
<1>2. HistoryInv'
  <2> SUFFICES ASSUME ~stray PROVE Linked' /\ (loaded => OneJob(open)')
    BY DEF HistoryInv, Perform
  <2>1. Linked /\ (loaded => OneJob(open))
    BY DEF HistoryInv
  <2>2. undo' = Append(undo, image) /\ redo' = <<>>
    BY DEF Perform, PushUndoState
  <2>3. undo \in Seq(Pictures) /\ image \in Pictures
    BY DEF EditorType
  <2>4. Linked'
    BY <2>1, <2>2, <2>3, Pushed, EmptyHistory, PerformKeepsType DEF Linked
  <2>5. ASSUME loaded PROVE OneJob(open)'
    <3>1. image.of = open /\ \A i \in 1..Len(undo) : undo[i].of = open
      BY <2>1, <2>5 DEF OneJob
    <3>2. open' = open /\ image'.of = open
      BY <3>1, PerformKeepsType DEF Perform
    <3>3. ASSUME NEW i \in 1..Len(undo') PROVE undo'[i].of = open
      <4>1. i \in 1..Len(undo) \/ i = Len(undo) + 1
        BY <2>2, <2>3, Pushed
      <4> QED
        BY <2>2, <2>3, <3>1, <4>1, Pushed
    <3> QED
      BY <2>2, <3>2, <3>3, EmptyHistory DEF OneJob
  <2>6. loaded' = loaded
    BY DEF Perform
  <2> QED
    BY <2>4, <2>5, <2>6
<1>3. OwnFiles'
  BY DEF OwnFiles, Perform
<1> QED
  BY <1>1, <1>2, <1>3 DEF EditorInv

LEMMA UndoKeeps ==
    ASSUME EditorInv, UndoEdit
    PROVE  EditorInv'
<1> EditorType /\ HistoryInv /\ OwnFiles
  BY DEF EditorInv
<1>1. /\ undo \in Seq(Pictures) /\ redo \in Seq(Pictures) /\ image \in Pictures
      /\ undo # <<>> /\ undo' = Front(undo) /\ image' = Last(undo)
      /\ redo' = Append(redo, image)
  BY DEF EditorType, UndoEdit
<1>0. /\ undo' \in Seq(Pictures) /\ Len(undo') = Len(undo) - 1
      /\ Len(undo) \in Nat /\ Len(undo) > 0
      /\ \A i \in 1..(Len(undo) - 1) : undo'[i] = undo[i]
      /\ image' \in Pictures /\ image' = undo[Len(undo)]
  BY <1>1, Popped
<1>9. /\ redo' \in Seq(Pictures) /\ Len(redo') = Len(redo) + 1 /\ Len(redo) \in Nat
      /\ \A i \in 1..Len(redo) : redo'[i] = redo[i]
      /\ redo'[Len(redo) + 1] = image
  BY <1>1, Pushed
<1>2. EditorType'
  BY <1>0, <1>9 DEF EditorType, UndoEdit
<1>3. HistoryInv'
  <2> SUFFICES ASSUME ~stray PROVE Linked' /\ (loaded => OneJob(open)')
    BY DEF HistoryInv, UndoEdit
  <2>1. Linked /\ (loaded => OneJob(open))
    BY DEF HistoryInv, UndoEdit
  <2>2. Linked'
    <3>1. ASSUME NEW i \in 1..(Len(undo') - 1) PROVE Link(undo[i], undo[i + 1])'
      <4>1. i \in 1..(Len(undo) - 1) /\ i + 1 \in 1..(Len(undo) - 1)
        BY <1>0
      <4> QED
        BY <1>0, <2>1, <4>1 DEF Linked
    <3>2. Len(undo') > 0 => Link(undo[Len(undo)], image)'
      BY <1>0, <2>1 DEF Linked
    <3>3. ASSUME NEW i \in 1..(Len(redo') - 1) PROVE Link(redo[i + 1], redo[i])'
      <4>1. i \in 1..Len(redo) /\ (i = Len(redo) \/ i \in 1..(Len(redo) - 1))
        BY <1>9
      <4> QED
        BY <1>9, <2>1, <4>1 DEF Linked
    <3>4. Link(image, redo[Len(redo)])'
      BY <1>0, <1>9, <2>1 DEF Linked
    <3> QED
      BY <3>1, <3>2, <3>3, <3>4 DEF Linked
  <2>3. ASSUME loaded PROVE OneJob(open)'
    <3>1. /\ image.of = open /\ \A i \in 1..Len(undo) : undo[i].of = open
          /\ \A i \in 1..Len(redo) : redo[i].of = open
      BY <2>1, <2>3 DEF OneJob
    <3>2. image'.of = open /\ \A i \in 1..Len(undo') : undo'[i].of = open
      BY <1>0, <3>1
    <3>3. ASSUME NEW i \in 1..Len(redo') PROVE redo'[i].of = open
      <4>1. i \in 1..Len(redo) \/ i = Len(redo) + 1
        BY <1>9
      <4> QED
        BY <1>9, <3>1, <4>1
    <3>4. open' = open
      BY DEF UndoEdit
    <3> QED
      BY <3>2, <3>3, <3>4 DEF OneJob
  <2>4. loaded' = loaded
    BY DEF UndoEdit
  <2> QED
    BY <2>2, <2>3, <2>4
<1>4. OwnFiles'
  BY DEF OwnFiles, UndoEdit
<1> QED
  BY <1>2, <1>3, <1>4 DEF EditorInv

LEMMA RedoKeeps ==
    ASSUME EditorInv, RedoEdit
    PROVE  EditorInv'
<1> EditorType /\ HistoryInv /\ OwnFiles
  BY DEF EditorInv
<1>1. /\ undo \in Seq(Pictures) /\ redo \in Seq(Pictures) /\ image \in Pictures
      /\ redo # <<>> /\ redo' = Front(redo) /\ image' = Last(redo)
      /\ undo' = Append(undo, image)
  BY DEF EditorType, RedoEdit
<1>0. /\ redo' \in Seq(Pictures) /\ Len(redo') = Len(redo) - 1
      /\ Len(redo) \in Nat /\ Len(redo) > 0
      /\ \A i \in 1..(Len(redo) - 1) : redo'[i] = redo[i]
      /\ image' \in Pictures /\ image' = redo[Len(redo)]
  BY <1>1, Popped
<1>9. /\ undo' \in Seq(Pictures) /\ Len(undo') = Len(undo) + 1 /\ Len(undo) \in Nat
      /\ \A i \in 1..Len(undo) : undo'[i] = undo[i]
      /\ undo'[Len(undo) + 1] = image
  BY <1>1, Pushed
<1>2. EditorType'
  BY <1>0, <1>9 DEF EditorType, RedoEdit
<1>3. HistoryInv'
  <2> SUFFICES ASSUME ~stray PROVE Linked' /\ (loaded => OneJob(open)')
    BY DEF HistoryInv, RedoEdit
  <2>1. Linked /\ (loaded => OneJob(open))
    BY DEF HistoryInv, RedoEdit
  <2>2. Linked'
    <3>1. ASSUME NEW i \in 1..(Len(redo') - 1) PROVE Link(redo[i + 1], redo[i])'
      <4>1. i \in 1..(Len(redo) - 1) /\ i + 1 \in 1..(Len(redo) - 1)
        BY <1>0
      <4> QED
        BY <1>0, <2>1, <4>1 DEF Linked
    <3>2. Len(redo') > 0 => Link(image, redo[Len(redo)])'
      BY <1>0, <2>1 DEF Linked
    <3>3. ASSUME NEW i \in 1..(Len(undo') - 1) PROVE Link(undo[i], undo[i + 1])'
      <4>1. i \in 1..Len(undo) /\ (i = Len(undo) \/ i \in 1..(Len(undo) - 1))
        BY <1>9
      <4> QED
        BY <1>9, <2>1, <4>1 DEF Linked
    <3>4. Link(undo[Len(undo)], image)'
      BY <1>0, <1>9, <2>1 DEF Linked
    <3> QED
      BY <3>1, <3>2, <3>3, <3>4 DEF Linked
  <2>3. ASSUME loaded PROVE OneJob(open)'
    <3>1. /\ image.of = open /\ \A i \in 1..Len(redo) : redo[i].of = open
          /\ \A i \in 1..Len(undo) : undo[i].of = open
      BY <2>1, <2>3 DEF OneJob
    <3>2. image'.of = open /\ \A i \in 1..Len(redo') : redo'[i].of = open
      BY <1>0, <3>1
    <3>3. ASSUME NEW i \in 1..Len(undo') PROVE undo'[i].of = open
      <4>1. i \in 1..Len(undo) \/ i = Len(undo) + 1
        BY <1>9
      <4> QED
        BY <1>9, <3>1, <4>1
    <3>4. open' = open
      BY DEF RedoEdit
    <3> QED
      BY <3>2, <3>3, <3>4 DEF OneJob
  <2>4. loaded' = loaded
    BY DEF RedoEdit
  <2> QED
    BY <2>2, <2>3, <2>4
<1>4. OwnFiles'
  BY DEF OwnFiles, RedoEdit
<1> QED
  BY <1>2, <1>3, <1>4 DEF EditorInv

(* A picture is saved to its own file, or the file is marked.  *)
LEMMA SaveKeeps ==
    ASSUME EditorInv, SaveEdited
    PROVE  EditorInv'
<1> EditorType /\ HistoryInv /\ OwnFiles
  BY DEF EditorInv
<1> FileHeld \in Files /\ FileHeld[1] = open
  BY HeldFile
<1>1. files' \in [Files -> Pictures]
  BY BlankIsPicture DEF SaveEdited, Written, NotWritten, EditorType
<1>2. EditorType'
  BY <1>1 DEF EditorType, SaveEdited
<1>3. HistoryInv'
  BY DEF HistoryInv, Linked, OneJob, SaveEdited
<1>4. OwnFiles'
  <2>1. CASE NotWritten(FileHeld) /\ UNCHANGED spoiled
    BY <2>1 DEF NotWritten, OwnFiles, EditorType
  <2>2. CASE /\ Written(FileHeld, image)
             /\ spoiled' = IF stray THEN spoiled \union {FileHeld}
                           ELSE spoiled \ {FileHeld}
    <3>1. ~stray => image.of = open
      BY DEF SaveEdited, HistoryInv, OneJob
    <3> QED
      BY <2>2, <3>1 DEF Written, OwnFiles, EditorType
  <2> QED
    BY <2>1, <2>2 DEF SaveEdited
<1> QED
  BY <1>2, <1>3, <1>4 DEF EditorInv

(* Turning the pages but into the editor, and drawing.  *)
LEMMA PagesKeep ==
    ASSUME EditorInv,
           \/ LeaveEditor \/ LeaveImposition \/ LeaveDetails \/ OpenImposition \/ Draw
           \/ \E j \in Artworks : OpenDetailsPage(j)
    PROVE  EditorInv'
<1> EditorType /\ HistoryInv /\ OwnFiles
  BY DEF EditorInv
<1>1. CASE LeaveEditor
  <2>1. EditorType'
    BY <1>1, EmptyHistory DEF LeaveEditor, EditorType, ClearUndoRedoStacks
  <2>2. HistoryInv'
    BY <1>1 DEF LeaveEditor, HistoryInv, Linked, OneJob, ClearUndoRedoStacks
  <2> QED
    BY <1>1, <2>1, <2>2 DEF EditorInv, OwnFiles, LeaveEditor
<1>2. CASE LeaveImposition
  BY <1>2 DEF LeaveImposition, EditorInv, EditorType, HistoryInv, OwnFiles
<1>3. CASE OpenImposition \/ LeaveDetails
  BY <1>3 DEF OpenImposition, LeaveDetails, EditorInv, EditorType, HistoryInv, OwnFiles
<1>6. CASE \E j \in Artworks : OpenDetailsPage(j)
  BY <1>6 DEF OpenDetailsPage, EditorInv, EditorType, HistoryInv, OwnFiles
<1>4. CASE Draw /\ loaded
  <2> Perform /\ stray' = TRUE
    BY <1>4 DEF Draw
  <2>1. EditorType'
    BY <1>4, PerformKeepsType DEF EditorType, Perform, Draw
  <2> QED
    BY <2>1 DEF EditorInv, HistoryInv, OwnFiles, Perform
<1>5. CASE Draw /\ ~loaded
  BY <1>5 DEF Draw, EditorInv, EditorType, HistoryInv, OwnFiles
<1> QED
  BY <1>1, <1>2, <1>3, <1>4, <1>5, <1>6 DEF EditorType

(* The composed picture goes to the job's next file.  *)
LEMMA ImposeKeeps ==
    ASSUME EditorInv, SaveImposition
    PROVE  EditorInv'
<1> DEFINE f == FileOf(open)
           next == <<open, path[open] + 1>>
           canvas == Edited(files[f])
<1> EditorType /\ HistoryInv /\ OwnFiles
  BY DEF EditorInv
<1>1. /\ f \in Files /\ f[1] = open /\ files[f] \in Pictures
  BY NamedFile DEF EditorType
<1>2. /\ next \in Files /\ next[1] = open
      /\ path' \in [Artworks -> 0..MaxImposed]
  BY EditorAssumption DEF SaveImposition, EditorType, Files
<1>3. canvas \in Pictures /\ canvas.of = files[f].of
  BY <1>1 DEF Edited, EditorType, Pictures
<1>4. page = "impose" /\ page' = page /\ open' = open /\ held' = held
  BY DEF SaveImposition
<1> HIDE DEF f, next, canvas
<1>5. spoiled' = IF f \in spoiled THEN spoiled \union {next} ELSE spoiled
  BY Zenon DEF SaveImposition, f, next
<1>6. CASE /\ UNCHANGED <<image, loaded>> \/ LoadImage(f)
           /\ UNCHANGED <<undo, redo, files, made, stray>>
  <2>1. EditorType'
    BY <1>1, <1>2, <1>4, <1>6, LoadedPicture DEF EditorType
  <2>2. HistoryInv' /\ OwnFiles'
    BY <1>4, <1>5, <1>6 DEF HistoryInv, OwnFiles
  <2> QED
    BY <2>1, <2>2 DEF EditorInv
<1>7. CASE /\ files[f] # Blank /\ image' = canvas /\ loaded' = TRUE
           /\ made' = made + 1 /\ Written(next, canvas) /\ ClearUndoRedoStacks
  <2>1. EditorType'
    <3>1. files' \in [Files -> Pictures]
      BY <1>3, <1>7 DEF EditorType, Written
    <3>2. undo' \in Seq(Pictures) /\ redo' \in Seq(Pictures) /\ stray' \in BOOLEAN
      BY <1>7, EmptyHistory DEF ClearUndoRedoStacks
    <3>3. image' \in Pictures /\ loaded' \in BOOLEAN /\ made' \in Nat
      BY <1>3, <1>7 DEF EditorType
    <3> QED
      BY <1>2, <1>4, <3>1, <3>2, <3>3 DEF EditorType
  <2>2. HistoryInv'
    BY <1>4, <1>7 DEF HistoryInv, ClearUndoRedoStacks
  <2>3. OwnFiles'
    <3>1. f \notin spoiled => canvas.of = next[1]
      BY <1>1, <1>2, <1>3, <1>7 DEF OwnFiles
    <3> QED
      BY <1>5, <1>7, <3>1 DEF OwnFiles, Written, EditorType
  <2> QED
    BY <2>1, <2>2, <2>3 DEF EditorInv
<1>8. CASE /\ image' = canvas /\ loaded' = TRUE /\ made' = made + 1
           /\ NotWritten(next) /\ UNCHANGED <<undo, redo, stray>>
  <2>1. files' \in [Files -> Pictures]
    BY <1>8, BlankIsPicture DEF NotWritten, EditorType
  <2>2. EditorType'
    BY <1>2, <1>3, <1>4, <1>8, <2>1 DEF EditorType
  <2>3. HistoryInv'
    BY <1>4, <1>8 DEF HistoryInv
  <2>4. OwnFiles'
    BY <1>5, <1>8 DEF OwnFiles, NotWritten, EditorType
  <2> QED
    BY <2>2, <2>3, <2>4 DEF EditorInv
<1> QED
  BY <1>6, <1>7, <1>8, Zenon DEF SaveImposition, f, next, canvas

LEMMA EditorStep == EditorInv /\ [ENext]_evars => EditorInv'
<1> SUFFICES ASSUME EditorInv, [ENext]_evars PROVE EditorInv'
  OBVIOUS
<1>1. CASE ENext
  BY <1>1, OpenEditorKeeps, EditKeeps, UndoKeeps, RedoKeeps, SaveKeeps, PagesKeep,
     ImposeKeeps DEF ENext
<1>2. CASE UNCHANGED evars
  BY <1>2 DEF evars, EditorInv, EditorType, HistoryInv, Linked, OneJob, OwnFiles
<1> QED
  BY <1>1, <1>2

(* The line the property speaks of, place by place.  *)
ByPlace(line, u, p, r) ==
    /\ DOMAIN line = 1..(Len(u) + 1 + Len(r)) /\ Len(u) \in Nat /\ Len(r) \in Nat
    /\ Len(line) = Len(u) + 1 + Len(r)
    /\ \A i \in 1..Len(u) : line[i] = u[i]
    /\ line[Len(u) + 1] = p
    /\ \A i \in 1..Len(r) : line[Len(u) + 1 + i] = r[Len(r) - i + 1]

LEMMA LineByPlace ==
    ASSUME NEW u \in Seq(Pictures), NEW p \in Pictures, NEW r \in Seq(Pictures)
    PROVE  ByPlace(u \o <<p>> \o Reverse(r), u, p, r)
<1> DEFINE line == u \o <<p>> \o Reverse(r)
<1>1. /\ Reverse(r) \in Seq(Pictures) /\ Len(Reverse(r)) = Len(r) /\ Len(r) \in Nat
      /\ \A i \in 1..Len(r) : Reverse(r)[i] = r[Len(r) - i + 1]
  BY DEF Reverse
<1> DEFINE q == Append(u, p)
<1>2. /\ q \in Seq(Pictures) /\ Len(q) = Len(u) + 1 /\ Len(u) \in Nat
      /\ \A i \in 1..Len(u) : q[i] = u[i]
      /\ q[Len(u) + 1] = p
  BY Pushed
<1> DEFINE b == Reverse(r)
<1>3. line = q \o b
  BY AppendIsConcat, Zenon
<1> HIDE DEF line
<1>4. b \in Seq(Pictures) /\ Len(b) = Len(r) /\ \A i \in 1..Len(r) : b[i] = r[Len(r) - i + 1]
  BY <1>1
<1> HIDE DEF q, b
<1>5. /\ line \in Seq(Pictures) /\ Len(line) = Len(q) + Len(b)
      /\ \A i \in 1..(Len(q) + Len(b)) :
           line[i] = IF i <= Len(q) THEN q[i] ELSE b[i - Len(q)]
  <2>1. /\ q \o b \in Seq(Pictures) /\ Len(q \o b) = Len(q) + Len(b)
        /\ \A i \in 1..(Len(q) + Len(b)) :
             (q \o b)[i] = IF i <= Len(q) THEN q[i] ELSE b[i - Len(q)]
    <3>1. ASSUME NEW x \in Seq(Pictures), NEW y \in Seq(Pictures)
          PROVE  /\ x \o y \in Seq(Pictures) /\ Len(x \o y) = Len(x) + Len(y)
                 /\ \A i \in 1..(Len(x) + Len(y)) :
                      (x \o y)[i] = IF i <= Len(x) THEN x[i] ELSE y[i - Len(x)]
      BY ConcatProperties
    <3> QED
      BY <1>2, <1>4, <3>1, Zenon
  <2> QED
    BY <1>3, <2>1, Zenon
<1>6. Len(line) = Len(u) + 1 + Len(r) /\ DOMAIN line = 1..(Len(u) + 1 + Len(r))
  BY <1>1, <1>2, <1>4, <1>5
<1>7. ASSUME NEW i \in 1..Len(u) PROVE line[i] = u[i]
  BY <1>1, <1>2, <1>4, <1>5
<1>8. line[Len(u) + 1] = p
  BY <1>1, <1>2, <1>4, <1>5
<1>9. ASSUME NEW i \in 1..Len(r) PROVE line[Len(u) + 1 + i] = r[Len(r) - i + 1]
  <2>1. /\ Len(u) + 1 + i \in 1..(Len(q) + Len(b)) /\ ~(Len(u) + 1 + i <= Len(q))
        /\ (Len(u) + 1 + i) - Len(q) = i
    BY <1>1, <1>2, <1>4
  <2>2. line[Len(u) + 1 + i] = b[i]
    BY <1>5, <2>1
  <2> QED
    BY <1>4, <2>2
<1> QED
  BY <1>1, <1>2, <1>6, <1>7, <1>8, <1>9, Zenon DEF ByPlace, line

LEMMA EditorHolds == EditorInv => UndoStaysInThePicture
<1> SUFFICES ASSUME EditorInv PROVE UndoStaysInThePicture
  OBVIOUS
<1> DEFINE line == undo \o <<image>> \o Reverse(redo)
           u == Len(undo)
           r == Len(redo)
<1>1. EditorType /\ HistoryInv /\ OwnFiles
  BY DEF EditorInv
<1>2. /\ DOMAIN line = 1..(u + 1 + r) /\ u \in Nat /\ r \in Nat
      /\ Len(line) = u + 1 + r
      /\ \A i \in 1..u : line[i] = undo[i]
      /\ line[u + 1] = image
      /\ \A i \in 1..r : line[u + 1 + i] = redo[r - i + 1]
  <2>1. undo \in Seq(Pictures) /\ image \in Pictures /\ redo \in Seq(Pictures)
    BY <1>1 DEF EditorType
  <2> QED
    <3>1. ByPlace(line, undo, image, redo)
      BY <2>1, LineByPlace, Zenon
    <3> HIDE DEF line
    <3> QED
      BY <3>1, Zenon DEF ByPlace
<1> HIDE DEF line
<1>3. ASSUME page = "edit", ~stray, loaded, NEW i \in DOMAIN line
      PROVE  line[i].of = open
  <2>1. OneJob(open)
    BY <1>1, <1>3 DEF HistoryInv
  <2>2. CASE i \in 1..u
    BY <1>2, <2>1, <2>2 DEF OneJob
  <2>3. CASE i = u + 1
    BY <1>2, <2>1, <2>3 DEF OneJob
  <2>4. CASE i > u + 1
    <3>1. i \in 1..(u + 1 + r) /\ u \in Nat /\ r \in Nat
      BY <1>2, <1>3
    <3>2. PICK k \in 1..r : i = u + 1 + k
      <4> HIDE DEF u, r
      <4>1. i - u - 1 \in 1..r /\ i = u + 1 + (i - u - 1)
        BY <2>4, <3>1
      <4> QED
        BY <4>1
    <3>3. line[i] = redo[r - k + 1] /\ r - k + 1 \in 1..r
      BY <1>2, <3>1, <3>2
    <3> QED
      BY <2>1, <3>3 DEF OneJob
  <2> QED
    BY <1>2, <2>2, <2>3, <2>4
<1>4. ASSUME page = "edit", ~stray, NEW i \in 1..(Len(line) - 1)
      PROVE  Link(line[i], line[i + 1])
  <2>1. Linked
    BY <1>1, <1>4 DEF HistoryInv
  <2>2. CASE i < u
    BY <1>2, <2>1, <2>2 DEF Linked
  <2>3. CASE i = u
    BY <1>2, <2>1, <2>3 DEF Linked
  <2>4. CASE i = u + 1
    <3>1. r > 0 /\ 1 \in 1..r /\ r - 1 + 1 = r /\ i + 1 = u + 1 + 1
      BY <1>2, <2>4
    <3>2. line[i + 1] = redo[r]
      BY <1>2, <3>1
    <3> QED
      BY <1>2, <2>1, <2>4, <3>1, <3>2 DEF Linked
  <2>5. CASE i > u + 1
    <3> DEFINE k == i - u - 1
    <3>1. /\ k \in 1..r /\ k + 1 \in 1..r /\ r - k \in 1..(r - 1)
          /\ i = u + 1 + k /\ i + 1 = u + 1 + (k + 1)
          /\ r - (k + 1) + 1 = r - k
      BY <1>2, <2>5
    <3> HIDE DEF k
    <3>2. line[i] = redo[(r - k) + 1] /\ line[i + 1] = redo[r - k]
      <4>1. line[u + 1 + k] = redo[r - k + 1]
        BY <1>2, <3>1
      <4>2. line[u + 1 + (k + 1)] = redo[r - (k + 1) + 1]
        BY <1>2, <3>1
      <4> QED
        BY <3>1, <4>1, <4>2
    <3> QED
      BY <2>1, <3>1, <3>2 DEF Linked
  <2> QED
    BY <1>2, <2>2, <2>3, <2>4, <2>5
<1>5. \A f \in DOMAIN files \ spoiled : files[f] # Blank => files[f].of = f[1]
  BY <1>1 DEF OwnFiles, EditorType
<1> QED
  <2>1. (page = "edit" /\ ~stray) =>
           /\ loaded => \A i \in DOMAIN line : line[i].of = open
           /\ \A i \in 1..(Len(line) - 1) :
                line[i + 1] = line[i] \/ line[i + 1].from = line[i].n
    BY <1>3, <1>4 DEF Link
  <2> QED
    BY <1>5, <2>1 DEF UndoStaysInThePicture, line

-----------------------------------------------------------------------------
\* A set of numbers has a least one.
LEMMA LeastNumber ==
    ASSUME NEW S, S \subseteq Nat, S # {}
    PROVE  \E n \in S : \A m \in S : n <= m
<1>1. IsWellFoundedOn(OpToRel(<, Nat), Nat)
  BY NatLessThanWellFounded
<1>2. OpToRel(<, Nat) = {ss \in Nat \X Nat : ss[1] < ss[2]}
  BY DEF OpToRel
<1>3. PICK x \in S : \A low \in S : ~ (<<low, x>> \in OpToRel(<, Nat))
  BY <1>1, WFMin
<1>4. \A low \in S : ~ (low < x)
  BY <1>2, <1>3
<1> QED
  BY <1>4

(* -------- sequences of numbers in order -------------------------------- *)
Increasing(s) == \A i, j \in DOMAIN s : i < j => s[i] < s[j]
Enumerates(s, S) ==
    /\ s \in [1..Cardinality(S) -> S] /\ Increasing(s)
    /\ \A x \in S : \E i \in DOMAIN s : s[i] = x


\* A bounded set of numbers is finite.
LEMMA BoundedIsFinite ==
    ASSUME NEW n \in Nat, NEW S, S \subseteq 1..n
    PROVE  IsFiniteSet(S) /\ Cardinality(S) \in Nat
<1>1. 1 \in Int /\ n \in Int /\ S \in SUBSET (1..n)
  OBVIOUS
<1>2. IsFiniteSet(1..n)
  BY <1>1, FS_Interval
<1>3. IsFiniteSet(S)
  BY <1>1, <1>2, FS_Subset
<1> QED
  BY <1>3, FS_CardinalityType

\* Every bounded set of numbers has an enumeration.
LEMMA EnumerationExists ==
    ASSUME NEW N \in Nat, NEW S, S \subseteq 1..N
    PROVE  \E s : Enumerates(s, S)
<1> DEFINE B == {n \in Nat : \E T \in SUBSET (1..n) : ~\E s : Enumerates(s, T)}
<1>1. SUFFICES ASSUME B # {} PROVE FALSE
  OBVIOUS
<1>2. PICK n \in B : \A m \in B : n <= m
  BY <1>1, LeastNumber
<1>3. PICK T \in SUBSET (1..n) : ~\E s : Enumerates(s, T)
  BY <1>2
<1>4. IsFiniteSet(T) /\ n \in Nat /\ Cardinality(T) \in Nat
  BY <1>2, BoundedIsFinite
<1>5. CASE T = {}
  <2>1. Cardinality(T) = 0
    BY <1>5, FS_EmptySet
  <2>2. Enumerates([i \in 1..0 |-> 0], T)
    BY <1>5, <2>1 DEF Enumerates, Increasing
  <2> QED
    BY <1>3, <2>2
<1>6. CASE T # {}
  <2>1. n # 0
    <3>1. PICK t \in T : t \in 1..n
      BY <1>6
    <3> QED
      BY <1>4, <3>1
  <2>2. n - 1 \in Nat /\ n - 1 \notin B
    BY <1>2, <1>4, <2>1
  <2>3. n \in T
    <3>1. n \notin T => T \subseteq 1..(n - 1)
      BY <1>4
    <3> QED
      BY <1>3, <2>2, <3>1
  <2>4. T \ {n} \subseteq 1..(n - 1)
    BY <1>4
  <2>5. PICK s : Enumerates(s, T \ {n})
    BY <2>2, <2>4
  <2>6. PICK k \in Nat : k = Cardinality(T \ {n}) /\ Cardinality(T) = k + 1
    <3>1. Cardinality(T \ {n}) \in Nat
      BY <2>2, <2>4, BoundedIsFinite
    <3>2. Cardinality(T \ {n}) = Cardinality(T) - 1
      BY <1>4, <2>3, FS_RemoveElement
    <3> QED
      BY <1>4, <3>1, <3>2
  <2> DEFINE r == [i \in 1..(k + 1) |-> IF i = k + 1 THEN n ELSE s[i]]
  <2>7. s \in [1..k -> T \ {n}] /\ Increasing(s)
        /\ \A t \in T \ {n} : \E i \in 1..k : s[i] = t
    BY <2>5, <2>6 DEF Enumerates
  <2>8. r \in [1..(k + 1) -> T]
    BY <2>3, <2>7
  <2>9. Increasing(r)
    <3> SUFFICES ASSUME NEW i \in 1..(k + 1), NEW j \in 1..(k + 1), i < j PROVE r[i] < r[j]
      BY DEF Increasing
    <3>1. i \in 1..k /\ i \in DOMAIN s /\ r[i] = s[i] /\ s[i] \in T \ {n}
      BY <2>7
    <3>2. s[i] \in 1..(n - 1)
      BY <2>4, <3>1
    <3>3. CASE j = k + 1
      BY <1>4, <3>1, <3>2, <3>3
    <3>4. CASE j # k + 1
      <4>1. j \in DOMAIN s /\ r[j] = s[j]
        BY <2>7, <3>4
      <4> QED
        BY <2>7, <3>1, <4>1 DEF Increasing
    <3> QED
      BY <3>3, <3>4
  <2>10. \A t \in T : \E i \in 1..(k + 1) : r[i] = t
    <3> SUFFICES ASSUME NEW t \in T PROVE \E i \in 1..(k + 1) : r[i] = t
      OBVIOUS
    <3>1. CASE t = n
      BY <3>1
    <3>2. CASE t # n
      <4>1. PICK i \in 1..k : s[i] = t
        BY <2>7, <3>2
      <4> QED
        BY <4>1
    <3> QED
      BY <3>1, <3>2
  <2> HIDE DEF r
  <2>11. Enumerates(r, T)
    BY <2>6, <2>8, <2>9, <2>10 DEF Enumerates
  <2> QED
    BY <1>3, <2>11
<1> QED
  BY <1>5, <1>6

\* An increasing sequence of as many numbers as there are in the set holds them all.
LEMMA IncreasingHoldsAll ==
    ASSUME NEW N \in Nat, NEW S, S \subseteq 1..N,
           NEW s \in [1..Cardinality(S) -> S], Increasing(s)
    PROVE  Enumerates(s, S)
<1>1. IsFiniteSet(S) /\ Cardinality(S) \in Nat
  BY BoundedIsFinite
<1>2. s \in Injection(1..Cardinality(S), S)
  <2>1. ASSUME NEW i \in 1..Cardinality(S), NEW j \in 1..Cardinality(S), i # j
        PROVE  s[i] # s[j]
    <3>1. i < j \/ j < i
      BY <1>1, <2>1
    <3>2. s[i] \in 1..N /\ s[j] \in 1..N
      OBVIOUS
    <3>3. s[i] \in Nat /\ s[j] \in Nat
      BY <3>2
    <3> QED
      BY <3>1, <3>3 DEF Increasing
  <2> QED
    BY <2>1 DEF Injection, IsInjective
<1>3. Cardinality(1..Cardinality(S)) = Cardinality(S)
  BY <1>1, FS_Interval
<1>4. s \in Surjection(1..Cardinality(S), S)
  BY <1>1, <1>2, <1>3, FS_Injection
<1> QED
  BY <1>4 DEF Surjection, Enumerates

\* Only one sequence lists a set in order.
LEMMA OneEnumeration ==
    ASSUME NEW N \in Nat, NEW S, S \subseteq 1..N, NEW s, NEW t,
           Enumerates(s, S), Enumerates(t, S)
    PROVE  s = t
<1>1. PICK k \in Nat : k = Cardinality(S)
  BY BoundedIsFinite
<1>2. /\ s \in [1..k -> S] /\ t \in [1..k -> S]
      /\ \A i, j \in 1..k : i < j => s[i] < s[j] /\ t[i] < t[j]
      /\ \A x \in S : (\E i \in 1..k : s[i] = x) /\ (\E i \in 1..k : t[i] = x)
  BY <1>1 DEF Enumerates, Increasing
<1> DEFINE B == {n \in Nat : n \in 1..k /\ s[n] # t[n]}
<1>3. SUFFICES ASSUME B # {} PROVE FALSE
  <2>1. \A n \in 1..k : s[n] = t[n]
    BY <1>1, <1>3
  <2> QED
    BY <1>2, <2>1
<1>4. PICK n \in B : \A m \in B : n <= m
  BY <1>3, LeastNumber
<1>5. \A m \in 1..(n - 1) : m \in 1..k /\ m < n /\ s[m] = t[m]
  BY <1>1, <1>4
<1>6. n \in 1..k /\ s[n] \in S /\ t[n] \in S /\ s[n] # t[n]
  BY <1>2, <1>4
<1>7. PICK i \in 1..k : s[i] = t[n]
  BY <1>2, <1>6
<1>8. PICK j \in 1..k : t[j] = s[n]
  BY <1>2, <1>6
<1>9. ASSUME NEW m \in 1..k PROVE s[m] \in Nat /\ t[m] \in Nat
  <2>1. s[m] \in 1..N /\ t[m] \in 1..N
    BY <1>2
  <2> QED
    BY <2>1
<1>10. i > n
  <2>1. i # n
    BY <1>6, <1>7
  <2>2. CASE i < n
    <3>1. s[i] = t[i] /\ t[i] < t[n]
      BY <1>2, <1>5, <1>6, <2>2
    <3> QED
      BY <1>6, <1>7, <1>9, <3>1
  <2> QED
    BY <1>6, <2>1, <2>2
<1>11. j > n
  <2>1. j # n
    BY <1>6, <1>8
  <2>2. CASE j < n
    <3>1. s[j] = t[j] /\ s[j] < s[n]
      BY <1>2, <1>5, <1>6, <2>2
    <3> QED
      BY <1>6, <1>8, <1>9, <3>1
  <2> QED
    BY <1>6, <2>1, <2>2
<1>12. s[n] < t[n] /\ t[n] < s[n]
  BY <1>2, <1>6, <1>7, <1>8, <1>10, <1>11
<1> QED
  BY <1>6, <1>9, <1>12

\* What Ascending gives.
LEMMA AscendingEnumerates ==
    ASSUME NEW N \in Nat, NEW S, S \subseteq 1..N
    PROVE  Enumerates(Ascending(S), S)
<1>1. PICK s : Enumerates(s, S)
  BY EnumerationExists
<1> DEFINE P(t) == \A i, j \in DOMAIN t : i < j => t[i] < t[j]
<1>2. Ascending(S) = CHOOSE t \in [1..Cardinality(S) -> S] : P(t)
  BY DEF Ascending
<1>3. s \in [1..Cardinality(S) -> S] /\ P(s)
  BY <1>1 DEF Enumerates, Increasing
<1>4. \A t : P(t) <=> Increasing(t)
  BY DEF Increasing
<1> HIDE DEF P
<1>5. Ascending(S) \in [1..Cardinality(S) -> S] /\ P(Ascending(S))
  BY <1>2, <1>3
<1> QED
  BY <1>4, <1>5, IncreasingHoldsAll

-----------------------------------------------------------------------------
(* -------- folds over a sequence ---------------------------------------- *)
\* Max gives the greatest of a bounded set.
LEMMA MaxOf ==
    ASSUME NEW N \in Nat, NEW S, S \subseteq 1..N, S # {}
    PROVE  Max(S) \in S /\ \A y \in S : y <= Max(S)
<1> DEFINE U == {u \in Nat : \A t \in S : t <= u}
           P(x) == \A y \in S : x >= y
<1>1. N \in U
  OBVIOUS
<1>2. PICK u \in U : \A w \in U : u <= w
  <2> HIDE DEF U
  <2>1. U \subseteq Nat
    BY DEF U
  <2> QED
    BY <1>1, <2>1, LeastNumber
<1>3. u \in S
  <2>1. SUFFICES ASSUME u \notin S PROVE FALSE
    OBVIOUS
  <2>2. PICK t \in S : t \in 1..N
    OBVIOUS
  <2>3. \A v \in S : v \in Nat /\ v <= u /\ v # u
    BY <1>2, <2>1
  <2>4. u - 1 \in Nat /\ \A v \in S : v <= u - 1
    BY <1>2, <2>2, <2>3
  <2> QED
    BY <1>2, <2>4
<1>4. P(u)
  <2>1. \A t \in S : t \in Nat
    OBVIOUS
  <2> QED
    BY <1>2, <2>1
<1>5. Max(S) = CHOOSE x \in S : P(x)
  BY DEF Max
<1> HIDE DEF P
<1>6. Max(S) \in S /\ P(Max(S))
  BY <1>3, <1>4, <1>5
<1>7. \A y \in S : Max(S) \in 1..N /\ y \in 1..N
  BY <1>6
<1> QED
  BY <1>6, <1>7 DEF P

\* What defines the removal of rows one after another.
Removing(js, order, n, g) ==
    g = [s \in SUBSET (1..n) |->
            IF s = {} THEN js ELSE RemoveJob(g[s \ {Max(s)}], order[Max(s)])]

\* The function of this definition exists.
LEMMA RemovingExists ==
    ASSUME NEW js, NEW order
    PROVE  \A n \in Nat : \E g : Removing(js, order, n, g)
<1> DEFINE B == {n \in Nat : ~\E g : Removing(js, order, n, g)}
<1>1. SUFFICES ASSUME B # {} PROVE FALSE
  OBVIOUS
<1>2. PICK n \in B : \A m \in B : n <= m
  BY <1>1, LeastNumber
<1>3. CASE n = 0
  <2> DEFINE g == [s \in SUBSET (1..0) |-> js]
  <2>1. \A s \in SUBSET (1..0) : s = {}
    OBVIOUS
  <2>2. Removing(js, order, 0, g)
    BY <2>1 DEF Removing
  <2> QED
    BY <1>2, <1>3, <2>2
<1>4. CASE n # 0
  <2>1. n \in Nat /\ n - 1 \in Nat /\ n - 1 \notin B
    BY <1>2, <1>4
  <2>2. PICK g : Removing(js, order, n - 1, g)
    BY <2>1
  <2> DEFINE h == [s \in SUBSET (1..n) |->
                     IF n \in s THEN RemoveJob(g[s \ {n}], order[n]) ELSE g[s]]
  <2>3. ASSUME NEW s \in SUBSET (1..n)
        PROVE  h[s] = IF s = {} THEN js ELSE RemoveJob(h[s \ {Max(s)}], order[Max(s)])
    <3>1. CASE n \in s
      <4>1. Max(s) = n
        <5>1. Max(s) \in s /\ n <= Max(s)
          BY <2>1, <3>1, MaxOf
        <5>2. Max(s) \in 1..n
          BY <5>1
        <5> QED
          BY <2>1, <5>1, <5>2
      <4>2. s \ {n} \in SUBSET (1..n) /\ n \notin s \ {n}
        OBVIOUS
      <4>3. h[s \ {n}] = g[s \ {n}]
        BY <4>2
      <4> QED
        BY <3>1, <4>1, <4>3
    <3>2. CASE n \notin s
      <4>1. s \in SUBSET (1..(n - 1)) /\ h[s] = g[s]
        BY <2>1, <3>2
      <4>2. g[s] = IF s = {} THEN js ELSE RemoveJob(g[s \ {Max(s)}], order[Max(s)])
        BY <2>2, <4>1 DEF Removing
      <4>3. h[s \ {Max(s)}] = g[s \ {Max(s)}]
        BY <3>2
      <4> QED
        BY <4>1, <4>2, <4>3
    <3> QED
      BY <3>1, <3>2
  <2>4. h = [s \in SUBSET (1..n) |-> h[s]]
    OBVIOUS
  <2> HIDE DEF h
  <2>5. Removing(js, order, n, h)
    BY <2>3, <2>4 DEF Removing
  <2> QED
    BY <1>2, <2>5
<1> QED
  BY <1>3, <1>4

OneByOne(js, order, k, h) ==
    /\ h[0] = js /\ \A n \in 1..k : h[n] = RemoveJob(h[n - 1], order[n])
    /\ RemoveJobs(js, order) = h[k]

\* Removing rows in some order is removing them one by one.
LEMMA RemovalSteps ==
    ASSUME NEW js, NEW k \in Nat, NEW order, DOMAIN order = 1..k
    PROVE  \E h : OneByOne(js, order, k, h)
<1> DEFINE Def(g) == Removing(js, order, k, g)
           it == CHOOSE g : Def(g)
<1>1. RemoveJobs(js, order) =
        (CHOOSE g : g = [s \in SUBSET (1..k) |->
            IF s = {} THEN js ELSE RemoveJob(g[s \ {Max(s)}], order[Max(s)])])[1..k]
  BY DEF RemoveJobs, FoldLeft, MapThenFoldSet
<1>2. RemoveJobs(js, order) = it[1..k]
  BY <1>1 DEF Removing
<1>3. Def(it)
  <2>1. \E g : Def(g)
    BY RemovingExists
  <2> HIDE DEF Def
  <2> QED
    BY <2>1
<1> HIDE DEF it
<1> DEFINE h == [n \in 0..k |-> it[1..n]]
<1>4. h[0] = js
  <2>1. 1..0 = {} /\ 0 \in 0..k /\ {} \in SUBSET (1..k)
    OBVIOUS
  <2>2. it[{}] = js
    BY <1>3, <2>1 DEF Removing
  <2> QED
    BY <2>1, <2>2
<1>5. ASSUME NEW n \in 1..k PROVE h[n] = RemoveJob(h[n - 1], order[n])
  <2>1. 1..n \in SUBSET (1..k) /\ 1..n # {} /\ n \in 1..n /\ n \in 0..k /\ n - 1 \in 0..k
    <3>1. \A m \in 1..n : m \in 1..k
      OBVIOUS
    <3>2. n \in 1..n /\ n \in 0..k /\ n - 1 \in 0..k
      OBVIOUS
    <3> QED
      BY <3>1, <3>2
  <2>2. Max(1..n) = n
    <3>1. Max(1..n) \in 1..n /\ n <= Max(1..n)
      BY <2>1, MaxOf
    <3> QED
      BY <3>1
  <2>3. (1..n) \ {n} = 1..(n - 1)
    OBVIOUS
  <2>4. it[1..n] = RemoveJob(it[(1..n) \ {Max(1..n)}], order[Max(1..n)])
    BY <1>3, <2>1 DEF Removing
  <2> QED
    BY <2>1, <2>2, <2>3, <2>4
<1>6. RemoveJobs(js, order) = h[k]
  BY <1>2
<1> HIDE DEF h
<1>7. OneByOne(js, order, k, h)
  BY <1>4, <1>5, <1>6 DEF OneByOne
<1> QED
  BY <1>7

\* The same for the pictures of a JSON file, one row after another.
Unpacking(st, os, n, g) ==
    g = [s \in SUBSET (1..n) |->
            IF s = {} THEN st ELSE Unpack(g[s \ {Max(s)}], os[Max(s)])]

\* And so does this one.
LEMMA UnpackingExists ==
    ASSUME NEW st, NEW os
    PROVE  \A n \in Nat : \E g : Unpacking(st, os, n, g)
<1> DEFINE B == {n \in Nat : ~\E g : Unpacking(st, os, n, g)}
<1>1. SUFFICES ASSUME B # {} PROVE FALSE
  OBVIOUS
<1>2. PICK n \in B : \A m \in B : n <= m
  BY <1>1, LeastNumber
<1>3. CASE n = 0
  <2> DEFINE g == [s \in SUBSET (1..0) |-> st]
  <2>1. \A s \in SUBSET (1..0) : s = {}
    OBVIOUS
  <2>2. Unpacking(st, os, 0, g)
    BY <2>1 DEF Unpacking
  <2> QED
    BY <1>2, <1>3, <2>2
<1>4. CASE n # 0
  <2>1. n \in Nat /\ n - 1 \in Nat /\ n - 1 \notin B
    BY <1>2, <1>4
  <2>2. PICK g : Unpacking(st, os, n - 1, g)
    BY <2>1
  <2> DEFINE h == [s \in SUBSET (1..n) |->
                     IF n \in s THEN Unpack(g[s \ {n}], os[n]) ELSE g[s]]
  <2>3. ASSUME NEW s \in SUBSET (1..n)
        PROVE  h[s] = IF s = {} THEN st ELSE Unpack(h[s \ {Max(s)}], os[Max(s)])
    <3>1. CASE n \in s
      <4>1. Max(s) = n
        <5>1. Max(s) \in s /\ n <= Max(s)
          BY <2>1, <3>1, MaxOf
        <5>2. Max(s) \in 1..n
          BY <5>1
        <5> QED
          BY <2>1, <5>1, <5>2
      <4>2. s \ {n} \in SUBSET (1..n) /\ n \notin s \ {n}
        OBVIOUS
      <4>3. h[s \ {n}] = g[s \ {n}]
        BY <4>2
      <4> QED
        BY <3>1, <4>1, <4>3
    <3>2. CASE n \notin s
      <4>1. s \in SUBSET (1..(n - 1)) /\ h[s] = g[s]
        BY <2>1, <3>2
      <4>2. g[s] = IF s = {} THEN st ELSE Unpack(g[s \ {Max(s)}], os[Max(s)])
        BY <2>2, <4>1 DEF Unpacking
      <4>3. h[s \ {Max(s)}] = g[s \ {Max(s)}]
        BY <3>2
      <4> QED
        BY <4>1, <4>2, <4>3
    <3> QED
      BY <3>1, <3>2
  <2>4. h = [s \in SUBSET (1..n) |-> h[s]]
    OBVIOUS
  <2> HIDE DEF h
  <2>5. Unpacking(st, os, n, h)
    BY <2>3, <2>4 DEF Unpacking
  <2> QED
    BY <1>2, <2>5
<1> QED
  BY <1>3, <1>4

RowByRow(st, os, k, h) ==
    /\ h[0] = st /\ \A n \in 1..k : h[n] = Unpack(h[n - 1], os[n])
    /\ UnpackAll(st, os) = h[k]

\* Writing the pictures of some rows is writing them one by one.
LEMMA UnpackSteps ==
    ASSUME NEW st, NEW k \in Nat, NEW os, DOMAIN os = 1..k
    PROVE  \E h : RowByRow(st, os, k, h)
<1> DEFINE Def(g) == Unpacking(st, os, k, g)
           it == CHOOSE g : Def(g)
<1>1. UnpackAll(st, os) =
        (CHOOSE g : g = [s \in SUBSET (1..k) |->
            IF s = {} THEN st ELSE Unpack(g[s \ {Max(s)}], os[Max(s)])])[1..k]
  BY DEF UnpackAll, FoldLeft, MapThenFoldSet
<1>2. UnpackAll(st, os) = it[1..k]
  BY <1>1 DEF Unpacking
<1>3. Def(it)
  <2>1. \E g : Def(g)
    BY UnpackingExists
  <2> HIDE DEF Def
  <2> QED
    BY <2>1
<1> HIDE DEF it
<1> DEFINE h == [n \in 0..k |-> it[1..n]]
<1>4. h[0] = st
  <2>1. 1..0 = {} /\ 0 \in 0..k /\ {} \in SUBSET (1..k)
    OBVIOUS
  <2>2. it[{}] = st
    BY <1>3, <2>1 DEF Unpacking
  <2> QED
    BY <2>1, <2>2
<1>5. ASSUME NEW n \in 1..k PROVE h[n] = Unpack(h[n - 1], os[n])
  <2>1. 1..n \in SUBSET (1..k) /\ 1..n # {} /\ n \in 1..n /\ n \in 0..k /\ n - 1 \in 0..k
    <3>1. \A m \in 1..n : m \in 1..k
      OBVIOUS
    <3>2. n \in 1..n /\ n \in 0..k /\ n - 1 \in 0..k
      OBVIOUS
    <3> QED
      BY <3>1, <3>2
  <2>2. Max(1..n) = n
    <3>1. Max(1..n) \in 1..n /\ n <= Max(1..n)
      BY <2>1, MaxOf
    <3> QED
      BY <3>1
  <2>3. (1..n) \ {n} = 1..(n - 1)
    OBVIOUS
  <2>4. it[1..n] = Unpack(it[(1..n) \ {Max(1..n)}], os[Max(1..n)])
    BY <1>3, <2>1 DEF Unpacking
  <2> QED
    BY <2>1, <2>2, <2>3, <2>4
<1>6. UnpackAll(st, os) = h[k]
  BY <1>2
<1> HIDE DEF h
<1>7. RowByRow(st, os, k, h)
  BY <1>4, <1>5, <1>6 DEF RowByRow
<1> QED
  BY <1>7

\* A row that is removed leaves the others in their order.
LEMMA WithoutRow ==
    ASSUME NEW R, NEW q \in Seq(R), NEW r \in 1..Len(q)
    PROVE  /\ RemoveJob(q, r) \in Seq(R) /\ Len(RemoveJob(q, r)) = Len(q) - 1
           /\ \A i \in 1..(Len(q) - 1) :
                RemoveJob(q, r)[i] = IF i < r THEN q[i] ELSE q[i + 1]
<1>1. RemoveJob(q, r) = SubSeq(q, 1, r - 1) \o SubSeq(q, r + 1, Len(q))
  <2>1. DOMAIN q = 1..Len(q)
    OBVIOUS
  <2> QED
    BY <2>1 DEF RemoveJob, RemoveAt
<1>2. Len(q) \in Nat /\ r \in Nat /\ r - 1 \in Nat
  OBVIOUS
<1>3. PICK a \in Seq(R) : /\ a = SubSeq(q, 1, r - 1) /\ Len(a) = r - 1
                          /\ \A i \in 1..(r - 1) : a[i] = q[i]
  <2>1. 1 \in Int /\ r - 1 \in Int /\ \A i \in 1..(r - 1) : q[i] \in R
    BY <1>2
  <2>2. /\ SubSeq(q, 1, r - 1) \in Seq(R)
        /\ Len(SubSeq(q, 1, r - 1)) = IF 1 <= r - 1 THEN (r - 1) - 1 + 1 ELSE 0
        /\ \A i \in 1..((r - 1) - 1 + 1) : SubSeq(q, 1, r - 1)[i] = q[1 + i - 1]
    BY <2>1, SubSeqProperties
  <2>3. (IF 1 <= r - 1 THEN (r - 1) - 1 + 1 ELSE 0) = r - 1
        /\ (r - 1) - 1 + 1 = r - 1
    BY <1>2
  <2>4. ASSUME NEW i \in 1..(r - 1) PROVE SubSeq(q, 1, r - 1)[i] = q[i]
    <3>1. SubSeq(q, 1, r - 1)[i] = q[1 + i - 1] /\ 1 + i - 1 = i
      BY <2>2, <2>3
    <3> QED
      BY <3>1
  <2> QED
    BY <2>2, <2>3, <2>4
<1>4. PICK b \in Seq(R) : /\ b = SubSeq(q, r + 1, Len(q)) /\ Len(b) = Len(q) - r
                          /\ \A i \in 1..(Len(q) - r) : b[i] = q[r + i]
  <2>1. r + 1 \in Int /\ Len(q) \in Int /\ \A i \in (r + 1)..Len(q) : q[i] \in R
    BY <1>2
  <2>2. /\ SubSeq(q, r + 1, Len(q)) \in Seq(R)
        /\ Len(SubSeq(q, r + 1, Len(q))) =
              IF r + 1 <= Len(q) THEN Len(q) - (r + 1) + 1 ELSE 0
        /\ \A i \in 1..(Len(q) - (r + 1) + 1) :
              SubSeq(q, r + 1, Len(q))[i] = q[(r + 1) + i - 1]
    BY <2>1, SubSeqProperties
  <2>3. (IF r + 1 <= Len(q) THEN Len(q) - (r + 1) + 1 ELSE 0) = Len(q) - r
        /\ Len(q) - (r + 1) + 1 = Len(q) - r
    BY <1>2
  <2>4. ASSUME NEW i \in 1..(Len(q) - r) PROVE SubSeq(q, r + 1, Len(q))[i] = q[r + i]
    <3>1. i \in 1..(Len(q) - (r + 1) + 1)
      BY <2>3
    <3>2. (r + 1) + i - 1 = r + i
      BY <1>2
    <3> QED
      BY <2>2, <3>1, <3>2
  <2> QED
    BY <2>2, <2>3, <2>4
<1>5. Len(a) = r - 1 /\ \A i \in 1..(r - 1) : a[i] = q[i]
  BY <1>3
<1>6. Len(b) = Len(q) - r /\ \A i \in 1..(Len(q) - r) : b[i] = q[r + i]
  BY <1>4
<1>7. RemoveJob(q, r) = a \o b
  BY <1>1, <1>3, <1>4
<1>8. a \o b \in Seq(R) /\ Len(a \o b) = Len(q) - 1
  <2>1. a \o b \in Seq(R) /\ Len(a \o b) = Len(a) + Len(b)
    BY ConcatProperties
  <2> QED
    BY <1>2, <1>5, <1>6, <2>1
<1>9. ASSUME NEW i \in 1..(Len(q) - 1)
      PROVE  (a \o b)[i] = IF i < r THEN q[i] ELSE q[i + 1]
  <2>1. CASE i < r
    <3>1. i \in 1..Len(a) /\ i \in 1..(r - 1)
      BY <1>2, <1>5, <2>1
    <3>2. (a \o b)[i] = a[i]
      BY <1>2, <1>5, <1>6, <3>1, ConcatProperties
    <3> QED
      BY <1>5, <2>1, <3>1, <3>2
  <2>2. CASE i >= r
    <3>1. i - (r - 1) \in 1..(Len(q) - r) /\ r + (i - (r - 1)) = i + 1
      BY <1>2, <2>2
    <3>2. (a \o b)[i] = b[i - Len(a)]
      BY <1>2, <1>5, <1>6, <2>2, ConcatProperties
    <3> QED
      BY <1>2, <1>5, <1>6, <2>2, <3>1, <3>2
  <2>3. i < r \/ i >= r
    BY <1>2
  <2> QED
    BY <2>1, <2>2, <2>3
<1> QED
  BY <1>7, <1>8, <1>9

\* What is left of the rows once the first n of an order are removed: rows of the list
\* in its order, and untouched below the last one removed.
LeftAs(js, order, n, q, e) ==
    /\ e \in [1..Len(q) -> 1..Len(js)] /\ Increasing(e)
    /\ \A i \in 1..Len(q) : q[i] = js[e[i]]
    /\ \A m \in 1..Len(js) :
         (\E i \in 1..Len(q) : e[i] = m) <=> (\A l \in 1..n : order[l] # m)
    /\ \A m \in 1..Len(js) : n = 0 \/ m < order[n] => m <= Len(q) /\ e[m] = m
Left(js, R, order, n, q) == q \in Seq(R) /\ \E e : LeftAs(js, order, n, q, e)

\* The next row to go is before all that went.
LEMMA RemoveNext ==
    ASSUME NEW R, NEW js \in Seq(R), NEW n \in Nat, NEW order, NEW q,
           \A l \in 1..(n + 1) : order[l] \in 1..Len(js),
           n # 0 => order[n + 1] < order[n], Left(js, R, order, n, q)
    PROVE  Left(js, R, order, n + 1, RemoveJob(q, order[n + 1]))
<1>1. PICK e \in [1..Len(q) -> 1..Len(js)] :
         /\ Increasing(e) /\ \A i \in 1..Len(q) : q[i] = js[e[i]]
         /\ \A m \in 1..Len(js) :
              (\E i \in 1..Len(q) : e[i] = m) <=> (\A l \in 1..n : order[l] # m)
         /\ \A m \in 1..Len(js) : n = 0 \/ m < order[n] => m <= Len(q) /\ e[m] = m
  <2>1. PICK e : LeftAs(js, order, n, q, e)
    BY DEF Left
  <2> QED
    BY <2>1 DEF LeftAs
<1>2. PICK r \in 1..Len(js) : r = order[n + 1]
  OBVIOUS
<1>3. q \in Seq(R) /\ Len(q) \in Nat /\ Len(js) \in Nat
  BY DEF Left
<1>4. r \in 1..Len(q) /\ e[r] = r
  BY <1>1, <1>2, <1>3
<1>5. PICK k \in Nat : Len(q) = k + 1
  BY <1>3, <1>4
<1>6. PICK p \in Seq(R) : /\ p = RemoveJob(q, r) /\ Len(p) = k
                          /\ \A i \in 1..k : p[i] = IF i < r THEN q[i] ELSE q[i + 1]
  <2>1. Len(q) - 1 = k
    BY <1>5
  <2>2. /\ RemoveJob(q, r) \in Seq(R) /\ Len(RemoveJob(q, r)) = Len(q) - 1
        /\ \A i \in 1..(Len(q) - 1) :
             RemoveJob(q, r)[i] = IF i < r THEN q[i] ELSE q[i + 1]
    BY <1>3, <1>4, WithoutRow
  <2> QED
    BY <2>1, <2>2
<1> DEFINE f == [i \in 1..k |-> IF i < r THEN e[i] ELSE e[i + 1]]
<1>7. f \in [1..k -> 1..Len(js)]
  BY <1>5
<1>8. Increasing(f)
  <2> SUFFICES ASSUME NEW i \in 1..k, NEW j \in 1..k, i < j PROVE f[i] < f[j]
    BY DEF Increasing
  <2>1. \A a, b \in 1..(k + 1) : a < b => e[a] < e[b]
    BY <1>1, <1>5 DEF Increasing
  <2> QED
    BY <1>4, <1>5, <2>1
<1>9. ASSUME NEW i \in 1..k PROVE p[i] = js[f[i]]
  <2>1. i \in 1..Len(q) /\ i + 1 \in 1..Len(q)
    BY <1>5
  <2>2. q[i] = js[e[i]] /\ q[i + 1] = js[e[i + 1]]
    BY <1>1, <2>1
  <2> QED
    BY <1>6, <2>2
<1>10. \A a, b \in 1..(k + 1) : e[a] = e[b] => a = b
  <2> SUFFICES ASSUME NEW a \in 1..(k + 1), NEW b \in 1..(k + 1), a # b PROVE e[a] # e[b]
    OBVIOUS
  <2>1. a < b \/ b < a
    OBVIOUS
  <2>2. e[a] \in Nat /\ e[b] \in Nat
    <3>1. e[a] \in 1..Len(js) /\ e[b] \in 1..Len(js)
      BY <1>5
    <3> QED
      BY <3>1
  <2>3. a < b => e[a] < e[b]
    BY <1>1, <1>5 DEF Increasing
  <2>4. b < a => e[b] < e[a]
    BY <1>1, <1>5 DEF Increasing
  <2> QED
    BY <2>1, <2>2, <2>3, <2>4
<1>11. ASSUME NEW m \in 1..Len(js)
       PROVE  (\E i \in 1..k : f[i] = m) <=> (\A l \in 1..(n + 1) : order[l] # m)
  <2>1. (\A l \in 1..(n + 1) : order[l] # m) <=> (\A l \in 1..n : order[l] # m) /\ m # r
    BY <1>2
  <2>2. ASSUME NEW i \in 1..k, f[i] = m
        PROVE  (\E a \in 1..(k + 1) : e[a] = m) /\ m # r
    <3>1. PICK a \in 1..(k + 1) : a # r /\ f[i] = e[a]
      BY <1>4, <1>5
    <3> QED
      BY <1>4, <1>5, <1>10, <2>2, <3>1
  <2>3. ASSUME NEW a \in 1..(k + 1), e[a] = m, m # r
        PROVE  \E i \in 1..k : f[i] = m
    <3>1. a # r
      BY <1>4, <2>3
    <3>2. CASE a < r
      <4>1. a \in 1..k /\ f[a] = e[a]
        BY <1>4, <1>5, <3>2
      <4> QED
        BY <2>3, <4>1
    <3>3. CASE a > r
      <4>1. a - 1 \in 1..k /\ f[a - 1] = e[a]
        BY <1>4, <1>5, <3>3
      <4> QED
        BY <2>3, <4>1
    <3> QED
      BY <1>4, <3>1, <3>2, <3>3
  <2>4. (\E a \in 1..(k + 1) : e[a] = m) <=> (\A l \in 1..n : order[l] # m)
    BY <1>1, <1>5
  <2> QED
    BY <2>1, <2>2, <2>3, <2>4
<1>12. ASSUME NEW m \in 1..Len(js), m < r PROVE m <= k /\ f[m] = m
  <2>1. n = 0 \/ m < order[n]
    <3>1. CASE n # 0
      <4>1. n \in 1..(n + 1) /\ order[n] \in 1..Len(js) /\ r < order[n]
        BY <1>2, <3>1
      <4> QED
        BY <1>12, <4>1
    <3> QED
      BY <3>1
  <2>2. m <= Len(q) /\ e[m] = m
    BY <1>1, <2>1
  <2> QED
    BY <1>4, <1>5, <1>12, <2>2
<1> HIDE DEF f
<1>13. Left(js, R, order, n + 1, p)
  <2>1. \A m \in 1..Len(js) : n + 1 = 0 \/ m < order[n + 1] => m <= k /\ f[m] = m
    BY <1>2, <1>12
  <2>2. p \in Seq(R) /\ Len(p) = k
    BY <1>6
  <2>3. LeftAs(js, order, n + 1, p, f)
    BY <1>7, <1>8, <1>9, <1>11, <2>1, <2>2 DEF LeftAs
  <2> QED
    BY <2>2, <2>3 DEF Left
<1> QED
  BY <1>2, <1>6, <1>13

\* What is left when a set of rows is removed: the others, in their order.
Kept(q, js, S, e) ==
    /\ e \in [1..Len(q) -> 1..Len(js)] /\ Increasing(e)
    /\ \A i \in 1..Len(q) : q[i] = js[e[i]]
    /\ \A m \in 1..Len(js) : (\E i \in 1..Len(q) : e[i] = m) <=> m \notin S

\* Removing the rows of a set, the last first, leaves all others in order.
LEMMA OthersStay ==
    ASSUME NEW R, NEW js \in Seq(R), NEW S, S \subseteq 1..Len(js),
           NEW q, q = RemoveJobs(js, Reverse(Ascending(S)))
    PROVE  q \in Seq(R) /\ \E e : Kept(q, js, S, e)
<1>1. Len(js) \in Nat
  OBVIOUS
<1>2. PICK k \in Nat : k = Cardinality(S)
  BY <1>1, BoundedIsFinite
<1>3. PICK a : a = Ascending(S)
  OBVIOUS
<1>4. /\ a \in [1..k -> S] /\ \A i, j \in 1..k : i < j => a[i] < a[j]
      /\ \A x \in S : \E i \in 1..k : a[i] = x
  <2>1. Enumerates(a, S)
    BY <1>1, <1>3, AscendingEnumerates
  <2> QED
    BY <1>2, <2>1 DEF Enumerates, Increasing
<1>0. PICK order : order = [i \in 1..k |-> a[(k - i) + 1]]
  OBVIOUS
<1>5. Reverse(Ascending(S)) = order
  <2>1. Len(a) = k
    <3>1. a \in Seq(S)
      BY <1>4
    <3> QED
      BY <1>4, <3>1
  <2>2. Reverse(a) = [i \in 1..k |-> a[(k - i) + 1]]
    BY <2>1 DEF Reverse
  <2> QED
    BY <1>0, <1>3, <2>2
<1>6. ASSUME NEW l \in 1..k PROVE order[l] \in S /\ order[l] \in 1..Len(js)
  <2>1. (k - l) + 1 \in 1..k
    OBVIOUS
  <2>2. a[(k - l) + 1] \in S
    BY <1>4, <2>1
  <2> QED
    BY <1>0, <2>2
<1>7. \A n \in 1..k : n + 1 \in 1..k => order[n + 1] < order[n]
  <2> SUFFICES ASSUME NEW n \in 1..k, n + 1 \in 1..k PROVE order[n + 1] < order[n]
    OBVIOUS
  <2>1. k - (n + 1) + 1 \in 1..k /\ k - n + 1 \in 1..k /\ k - (n + 1) + 1 < k - n + 1
    OBVIOUS
  <2> QED
    BY <1>0, <1>4, <2>1
<1>8. \A x \in S : \E l \in 1..k : order[l] = x
  <2> SUFFICES ASSUME NEW x \in S PROVE \E l \in 1..k : order[l] = x
    OBVIOUS
  <2>1. PICK i \in 1..k : a[i] = x
    BY <1>4
  <2>2. k - i + 1 \in 1..k /\ k - (k - i + 1) + 1 = i
    OBVIOUS
  <2> QED
    BY <1>0, <2>1, <2>2
<1>9. PICK h : /\ h[0] = js /\ \A n \in 1..k : h[n] = RemoveJob(h[n - 1], order[n])
               /\ RemoveJobs(js, order) = h[k]
  <2>1. DOMAIN order = 1..k
    BY <1>0
  <2>2. PICK h : OneByOne(js, order, k, h)
    BY <2>1, RemovalSteps
  <2> QED
    BY <2>2 DEF OneByOne
<1> DEFINE B == {n \in 0..k : ~Left(js, R, order, n, h[n])}
<1>10. B = {}
  <2>1. SUFFICES ASSUME B # {} PROVE FALSE
    OBVIOUS
  <2>2. PICK n \in B : \A m \in B : n <= m
    <3>1. B \subseteq Nat
      OBVIOUS
    <3> QED
      BY <2>1, <3>1, LeastNumber
  <2>3. n # 0
    <3> DEFINE e == [i \in 1..Len(js) |-> i]
    <3>1. /\ e \in [1..Len(js) -> 1..Len(js)] /\ Increasing(e)
          /\ \A i \in 1..Len(js) : e[i] = i /\ js[i] = js[e[i]]
      BY DEF Increasing
    <3> HIDE DEF e
    <3>2. \A m \in 1..Len(js) :
             (\E i \in 1..Len(js) : e[i] = m) <=> (\A l \in 1..0 : order[l] # m)
      BY <3>1
    <3>3. Left(js, R, order, 0, js)
      <4>1. LeftAs(js, order, 0, js, e)
        BY <1>1, <3>1, <3>2 DEF LeftAs
      <4> QED
        BY <4>1 DEF Left
    <3> QED
      BY <1>9, <2>2, <3>3
  <2>4. n \in 1..k /\ n - 1 \in 0..k /\ n - 1 \notin B
    BY <2>2, <2>3
  <2>5. PICK m \in Nat : n = m + 1
    BY <2>4
  <2>6. Left(js, R, order, m, h[m])
    BY <2>4, <2>5
  <2>7. \A l \in 1..(m + 1) : order[l] \in 1..Len(js)
    BY <1>6, <2>4, <2>5
  <2>8. m # 0 => order[m + 1] < order[m]
    BY <1>7, <2>4, <2>5
  <2>9. Left(js, R, order, m + 1, RemoveJob(h[m], order[m + 1]))
    BY <2>6, <2>7, <2>8, RemoveNext
  <2>10. h[n] = RemoveJob(h[m], order[m + 1])
    BY <1>9, <2>4, <2>5
  <2> QED
    BY <2>2, <2>5, <2>9, <2>10
<1>11. Left(js, R, order, k, q)
  <2>1. k \in 0..k /\ q = h[k]
    BY <1>5, <1>9
  <2> QED
    BY <1>10, <2>1
<1>12. \A m \in 1..Len(js) : (\A l \in 1..k : order[l] # m) <=> m \notin S
  BY <1>6, <1>8
<1>13. PICK e : LeftAs(js, order, k, q, e)
  BY <1>11 DEF Left
<1>14. Kept(q, js, S, e)
  BY <1>12, <1>13 DEF Kept, LeftAs
<1> QED
  BY <1>11, <1>14 DEF Left

\* No other row has the picture of row i written to its file.
OnlyWriter(os, k, i) ==
    /\ os[i].data # NoPicture
    /\ \A m \in 1..k \ {i} : os[m].data # NoPicture => LoadedFile(os[m]) # LoadedFile(os[i])

\* Writing the pictures of a list changes no file but those of its rows, and
\* a file that one row only is written to holds the picture of that row.
LEMMA OthersUntouched ==
    ASSUME NEW st, NEW k \in Nat, NEW os, DOMAIN os = 1..k,
           NEW u, u = UnpackAll(st, os)
    PROVE  /\ DOMAIN st \subseteq DOMAIN u
           /\ \A f \in DOMAIN u : f \in DOMAIN st \/ \E i \in 1..k : f = LoadedFile(os[i])
           /\ \A f : (\A i \in 1..k : os[i].data # NoPicture => f # LoadedFile(os[i]))
                        => Shown(u, f) = Shown(st, f)
           /\ \A i \in 1..k : OnlyWriter(os, k, i) => Shown(u, LoadedFile(os[i])) = os[i].data
<1>1. PICK h : /\ h[0] = st /\ \A n \in 1..k : h[n] = Unpack(h[n - 1], os[n])
               /\ UnpackAll(st, os) = h[k]
  <2>1. PICK h : RowByRow(st, os, k, h)
    BY UnpackSteps
  <2> QED
    BY <2>1 DEF RowByRow
<1> DEFINE Grown(n) ==
    /\ DOMAIN st \subseteq DOMAIN h[n]
    /\ \A f \in DOMAIN h[n] : f \in DOMAIN st \/ \E i \in 1..k : f = LoadedFile(os[i])
    /\ \A f : (\A i \in 1..k : os[i].data # NoPicture => f # LoadedFile(os[i]))
                        => Shown(h[n], f) = Shown(st, f)
    /\ \A i \in 1..n : OnlyWriter(os, k, i) => Shown(h[n], LoadedFile(os[i])) = os[i].data
<1> DEFINE B == {n \in 0..k : ~Grown(n)}
<1>2. SUFFICES ASSUME B # {} PROVE FALSE
  <2>1. k \in 0..k /\ u = h[k]
    BY <1>1
  <2> QED
    BY <1>2, <2>1
<1>3. PICK n \in B : \A m \in B : n <= m
  <2> HIDE DEF Grown
  <2>1. B \subseteq Nat
    OBVIOUS
  <2> QED
    BY <1>2, <2>1, LeastNumber
<1>4. Grown(0)
  BY <1>1
<1>5. n \in 1..k /\ n - 1 \in 0..k /\ n - 1 \notin B
  <2> HIDE DEF Grown
  <2> QED
    BY <1>3, <1>4
<1>6. Grown(n - 1)
  <2> HIDE DEF Grown
  <2> QED
    BY <1>5
<1>7. PICK v : v = h[n - 1]
  OBVIOUS
<1>8. h[n] = Unpack(v, os[n])
  BY <1>1, <1>5, <1>7
<1>9. Grown(n)
  <2>1. CASE os[n].data = NoPicture
    <3>1. h[n] = h[n - 1]
      BY <1>7, <1>8, <2>1 DEF Unpack
    <3>2. ASSUME NEW i \in 1..n, OnlyWriter(os, k, i)
          PROVE  Shown(h[n], LoadedFile(os[i])) = os[i].data
      <4>1. i \in 1..(n - 1)
        BY <1>5, <2>1, <3>2 DEF OnlyWriter
      <4> QED
        BY <1>6, <3>1, <3>2, <4>1
    <3> QED
      BY <1>5, <1>6, <3>1, <3>2
  <2>2. CASE os[n].data # NoPicture
    <3>1. h[n] = Put(LoadedFile(os[n]), os[n].data, v)
      BY <1>8, <2>2 DEF Unpack
    <3>2. PICK g : g = LoadedFile(os[n])
      OBVIOUS
    <3>3. h[n] = [f \in DOMAIN v \union {g} |-> IF f = g THEN os[n].data ELSE v[f]]
      BY <3>1, <3>2 DEF Put
    <3>4. DOMAIN h[n] = DOMAIN v \union {g}
          /\ \A f : f # g => Shown(h[n], f) = Shown(v, f)
      BY <3>3 DEF Shown
    <3>5. ASSUME NEW f, \A i \in 1..k : os[i].data # NoPicture => f # LoadedFile(os[i])
          PROVE  Shown(h[n], f) = Shown(st, f)
      <4>1. f # g
        BY <1>5, <2>2, <3>2, <3>5
      <4>2. Shown(v, f) = Shown(st, f)
        BY <1>6, <1>7, <3>5
      <4> QED
        BY <3>4, <4>1, <4>2
    <3>6. ASSUME NEW f \in DOMAIN h[n]
          PROVE  f \in DOMAIN st \/ \E i \in 1..k : f = LoadedFile(os[i])
      BY <1>5, <1>6, <1>7, <3>2, <3>4
    <3>7. DOMAIN st \subseteq DOMAIN h[n]
      BY <1>6, <1>7, <3>4
    <3>8. ASSUME NEW i \in 1..n, OnlyWriter(os, k, i)
          PROVE  Shown(h[n], LoadedFile(os[i])) = os[i].data
      <4>1. CASE i = n
        BY <3>2, <3>3, <4>1 DEF Shown
      <4>2. CASE i # n
        <5>1. i \in 1..(n - 1) /\ n \in 1..k
          BY <1>5, <4>2
        <5>2. LoadedFile(os[i]) # g
          BY <2>2, <3>2, <3>8, <4>2, <5>1 DEF OnlyWriter
        <5>3. Shown(v, LoadedFile(os[i])) = os[i].data
          BY <1>6, <1>7, <3>8, <5>1
        <5> QED
          BY <3>4, <5>2, <5>3
      <4> QED
        BY <4>1, <4>2
    <3> QED
      BY <3>5, <3>6, <3>7, <3>8
  <2> QED
    BY <2>1, <2>2
<1> QED
  BY <1>3, <1>9

-----------------------------------------------------------------------------
(* -------- the job list ------------------------------------------------- *)
\* The name of a row: none, or neither that nor the preview of a page.
Named(f) == f = NoFile \/ (f.of # <<"none">> /\ f.of # <<"preview">>)

\* A file made from an image by imposing it any number of times.
IsImage(f) == \E time, base, picture : f = JobImage(time, base, picture)
Family(f, g) == IsImage(g) /\ f.of = g.of /\ f.pdf = g.pdf

\* An image has a name of its own.
LEMMA ImageIsFile ==
    ASSUME NEW f, IsImage(f)
    PROVE  /\ f # NoFile /\ f # Preview /\ Named(f)
           /\ f.of # <<"none">> /\ f.of # <<"preview">>
<1>1. f.of[1] = "image"
  BY DEF IsImage, JobImage, File
<1>2. /\ <<"none">>[1] = "none" /\ <<"preview">>[1] = "preview"
      /\ NoFile.of = <<"none">> /\ Preview.of = <<"preview">>
  BY DEF NoFile, Preview, File
<1> QED
  BY <1>1, <1>2 DEF Named

\* An image is of its own family.
LEMMA ImageIsItself ==
    ASSUME NEW f, IsImage(f) PROVE Family(f, f)
  BY DEF Family

\* An image is of no other.
LEMMA OnlyItself ==
    ASSUME NEW f, NEW g, Family(f, g), IsImage(f) \/ f = NoFile PROVE f = g
<1>1. CASE IsImage(f)
  BY <1>1 DEF Family, IsImage, JobImage, File
<1>2. CASE f = NoFile
  <2>1. g.of = <<"none">>
    BY <1>2 DEF Family, NoFile, File
  <2> QED
    BY <2>1, ImageIsFile DEF Family
<1> QED
  BY <1>1, <1>2

\* No file is of none.
LEMMA NoFileHasNoFamily ==
    ASSUME NEW g PROVE ~Family(NoFile, g)
<1>1. NoFile.of = <<"none">>
  BY DEF NoFile, File
<1> QED
  BY <1>1, ImageIsFile DEF Family

\* Imposing keeps the family.
LEMMA ImposedIsFamily ==
    ASSUME NEW f, NEW g PROVE Family(Imposed(f), g) <=> Family(f, g)
  BY DEF Family, Imposed

IsRow(j) ==
    /\ DOMAIN j = {"tag", "id", "file", "given", "json"}
    /\ j.tag \in Nat /\ j.json \in BOOLEAN

\* The rows are numbered in their order, and the selection is of rows.
ListInv ==
    /\ \E S : jobs \in Seq(S)
    /\ \A r \in DOMAIN jobs : IsRow(jobs[r]) /\ jobs[r].tag \in 1..tags
    /\ \A q, r \in DOMAIN jobs : q < r => jobs[q].tag < jobs[r].tag
    /\ tags \in Nat /\ shown = {jobs[r].tag : r \in DOMAIN jobs}
    /\ \E S : selectedIndexes \in Seq(S)
    /\ ToSet(selectedIndexes) \subseteq DOMAIN jobs
    /\ \E S : json \in Seq(S)

\* A file that only one row has named holds what the row was given, unless
\* that went astray.
PictureInv ==
    /\ NoFile \notin DOMAIN store
    /\ NamedTwice(jobs) \subseteq shared
    /\ \A r \in DOMAIN jobs :
         jobs[r].file \notin shared /\ jobs[r].tag \notin astray
           => Shown(store, jobs[r].file) = jobs[r].given

\* Rows, listed and saved, have names.
NameInv ==
    /\ \A r \in DOMAIN jobs : Named(jobs[r].file)
    /\ \A i \in DOMAIN json : Named(json[i].file)

\* What the details page of a row holds: nothing if the row has no file, and
\* no file of another row alone.
PageInv ==
    details # 0 =>
      /\ details \in DOMAIN jobs
      /\ jobs[details].file = NoFile => imagePath = NoFile
      /\ \A q \in DOMAIN jobs \ {details} :
           jobs[q].file = imagePath /\ imagePath # NoFile => imagePath \in shared

\* Every job that was not loaded descends from an image of its own.
FamilyInv ==
    /\ \A r \in DOMAIN jobs : ~jobs[r].json /\ jobs[r].file # NoFile =>
         \E g : Family(jobs[r].file, g)
    /\ \A r \in DOMAIN jobs : ~jobs[r].json =>
         \A g : Family(jobs[r].file, g) => g \in DOMAIN store
    /\ \A q, r \in DOMAIN jobs : q # r /\ ~jobs[q].json /\ ~jobs[r].json =>
         \A g : ~(Family(jobs[q].file, g) /\ Family(jobs[r].file, g))

JobsInv == ListInv /\ PictureInv /\ NameInv /\ PageInv /\ FamilyInv

\* A file that two rows name.
LEMMA NamedByTwo ==
    ASSUME NEW js, NEW q \in DOMAIN js, NEW r \in DOMAIN js, q # r,
           js[q].file = js[r].file, js[r].file # NoFile
    PROVE  js[r].file \in NamedTwice(js)
<1>1. r \in {i \in DOMAIN js : js[i].file # NoFile
                /\ \E p \in DOMAIN js \ {i} : js[p].file = js[i].file}
  OBVIOUS
<1> QED
  BY <1>1 DEF NamedTwice

\* A function over 1..n is a sequence.
LEMMA FunctionIsSeq ==
    ASSUME NEW S, NEW n \in Nat, NEW s \in [1..n -> S]
    PROVE  s \in Seq(S) /\ Len(s) = n
  OBVIOUS

\* Rows that are added at the end.
LEMMA ListGrows ==
    ASSUME ListInv, NEW S, jobs' \in Seq(S), NEW k \in Nat, Len(jobs') = Len(jobs) + k,
           \A r \in 1..Len(jobs) : jobs'[r] = jobs[r],
           \A i \in 1..k : LET j == jobs'[Len(jobs) + i] IN IsRow(j) /\ j.tag = tags + i,
           tags' = tags + k, shown' = shown \union {tags + i : i \in 1..k},
           UNCHANGED selectedIndexes, \E T : json' \in Seq(T)
    PROVE  ListInv'
<1>1. PICK n \in Nat : n = Len(jobs) /\ DOMAIN jobs = 1..n
  BY DEF ListInv
<1>2. DOMAIN jobs' = 1..(n + k) /\ tags \in Nat
  BY <1>1 DEF ListInv
<1>3. ASSUME NEW r \in 1..(n + k)
      PROVE  \/ r \in 1..n /\ jobs'[r] = jobs[r]
             \/ \E i \in 1..k : r = n + i
  <2>1. CASE r <= n
    BY <1>1, <2>1
  <2>2. CASE r > n
    <3>1. r - n \in 1..k /\ r = n + (r - n)
      BY <2>2
    <3> QED
      BY <3>1
  <2> QED
    BY <2>1, <2>2
<1>4. ASSUME NEW r \in 1..n PROVE IsRow(jobs[r]) /\ jobs[r].tag \in 1..tags /\ jobs[r].tag \in Nat
  BY <1>1, <1>2 DEF ListInv
<1>5. ASSUME NEW i \in 1..k
      PROVE  IsRow(jobs'[n + i]) /\ jobs'[n + i].tag = tags + i
  BY <1>1
<1>6. ASSUME NEW r \in DOMAIN jobs' PROVE IsRow(jobs'[r]) /\ jobs'[r].tag \in 1..(tags + k)
  <2>1. CASE r \in 1..n
    <3>1. jobs'[r] = jobs[r] /\ IsRow(jobs[r]) /\ jobs[r].tag \in 1..tags
      BY <1>1, <1>4, <2>1
    <3> QED
      BY <1>2, <3>1
  <2>2. CASE r \notin 1..n
    <3>1. PICK i \in 1..k : r = n + i
      BY <1>2, <1>3, <2>2
    <3>2. IsRow(jobs'[r]) /\ jobs'[r].tag = tags + i
      BY <1>5, <3>1
    <3> QED
      BY <1>2, <3>2
  <2> QED
    BY <2>1, <2>2
<1>7. ASSUME NEW q \in DOMAIN jobs', NEW r \in DOMAIN jobs', q < r
      PROVE  jobs'[q].tag < jobs'[r].tag
  <2>0. q \in 1..(n + k) /\ r \in 1..(n + k)
    BY <1>2
  <2>1. CASE r \in 1..n
    <3>1. q \in 1..n /\ jobs'[q] = jobs[q] /\ jobs'[r] = jobs[r]
      BY <1>1, <1>7, <2>0, <2>1
    <3> QED
      BY <1>1, <1>7, <2>1, <3>1 DEF ListInv
  <2>2. CASE r \notin 1..n
    <3>1. PICK i \in 1..k : r = n + i
      BY <1>3, <2>0, <2>2
    <3>2. jobs'[r].tag = tags + i
      BY <1>5, <3>1
    <3>3. CASE q \in 1..n
      <4>1. jobs'[q] = jobs[q] /\ jobs[q].tag \in 1..tags
        BY <1>1, <1>4, <3>3
      <4> QED
        BY <1>2, <3>2, <4>1
    <3>4. CASE q \notin 1..n
      <4>1. PICK m \in 1..k : q = n + m
        BY <1>3, <2>0, <3>4
      <4>2. m < i
        BY <1>1, <1>7, <3>1, <4>1
      <4>3. jobs'[q].tag = tags + m
        BY <1>5, <4>1
      <4> QED
        BY <1>2, <3>2, <4>2, <4>3
    <3> QED
      BY <3>3, <3>4
  <2> QED
    BY <2>1, <2>2
<1>8. shown' = {jobs'[r].tag : r \in DOMAIN jobs'}
  <2>1. ASSUME NEW t \in shown PROVE \E r \in DOMAIN jobs' : t = jobs'[r].tag
    <3>1. PICK r \in 1..n : t = jobs[r].tag
      BY <1>1, <2>1 DEF ListInv
    <3> QED
      BY <1>1, <1>2, <3>1
  <2>2. ASSUME NEW i \in 1..k PROVE \E r \in DOMAIN jobs' : tags + i = jobs'[r].tag
    <3>1. n + i \in 1..(n + k)
      BY <1>1
    <3> QED
      BY <1>2, <1>5, <3>1
  <2>3. ASSUME NEW r \in DOMAIN jobs' PROVE jobs'[r].tag \in shown'
    <3>1. CASE r \in 1..n
      <4>1. jobs'[r] = jobs[r] /\ jobs[r].tag \in shown
        BY <1>1, <3>1 DEF ListInv
      <4> QED
        BY <4>1
    <3>2. CASE r \notin 1..n
      <4>1. PICK i \in 1..k : r = n + i
        BY <1>2, <1>3, <3>2
      <4>2. jobs'[r].tag = tags + i
        BY <1>5, <4>1
      <4> QED
        BY <4>2
    <3> QED
      BY <3>1, <3>2
  <2>4. \A t \in shown' : t \in shown \/ \E i \in 1..k : t = tags + i
    OBVIOUS
  <2>5. ASSUME NEW t \in shown' PROVE \E r \in DOMAIN jobs' : t = jobs'[r].tag
    <3>1. CASE t \in shown
      BY <2>1, <3>1
    <3>2. CASE t \notin shown
      <4>1. PICK i \in 1..k : t = tags + i
        BY <2>4, <3>2
      <4> QED
        BY <2>2, <4>1
    <3> QED
      BY <3>1, <3>2
  <2> QED
    BY <2>3, <2>5
<1>9. ToSet(selectedIndexes') \subseteq DOMAIN jobs'
  BY <1>1, <1>2 DEF ListInv
<1>10. \E T : selectedIndexes' \in Seq(T)
  BY DEF ListInv
<1>11. \E T : jobs' \in Seq(T)
  OBVIOUS
<1>12. tags' \in Nat /\ \A r \in DOMAIN jobs' : IsRow(jobs'[r]) /\ jobs'[r].tag \in 1..tags'
  BY <1>2, <1>6
<1> QED
  BY <1>7, <1>8, <1>9, <1>10, <1>11, <1>12 DEF ListInv

\* Rows that keep their number and place.
LEMMA ListStays ==
    ASSUME ListInv, NEW S, jobs' \in Seq(S), Len(jobs') = Len(jobs),
           \A r \in 1..Len(jobs) : IsRow(jobs'[r]) /\ jobs'[r].tag = jobs[r].tag,
           UNCHANGED <<tags, shown>>, \E T : selectedIndexes' \in Seq(T),
           ToSet(selectedIndexes') \subseteq DOMAIN jobs, \E T : json' \in Seq(T)
    PROVE  ListInv'
<1>1. PICK n \in Nat : n = Len(jobs) /\ DOMAIN jobs = 1..n
  BY DEF ListInv
<1>2. DOMAIN jobs' = 1..n
  BY <1>1
<1>3. shown' = {jobs'[r].tag : r \in DOMAIN jobs'}
  BY <1>1, <1>2 DEF ListInv
<1>4. \A r \in DOMAIN jobs' : IsRow(jobs'[r]) /\ jobs'[r].tag \in 1..tags'
  BY <1>1, <1>2 DEF ListInv
<1>5. ASSUME NEW q \in DOMAIN jobs', NEW r \in DOMAIN jobs', q < r
      PROVE  jobs'[q].tag < jobs'[r].tag
  <2>1. q \in DOMAIN jobs /\ r \in DOMAIN jobs /\ jobs'[q].tag = jobs[q].tag /\ jobs'[r].tag = jobs[r].tag
    BY <1>1, <1>2
  <2> QED
    BY <1>5, <2>1 DEF ListInv
<1>6. tags' \in Nat /\ ToSet(selectedIndexes') \subseteq DOMAIN jobs' /\ \E T : jobs' \in Seq(T)
  BY <1>1, <1>2 DEF ListInv
<1> QED
  BY <1>3, <1>4, <1>5, <1>6 DEF ListInv

\* What updateJob() changes.
LEMMA UpdatedRow ==
    ASSUME NEW S, jobs \in Seq(S), NEW r \in DOMAIN jobs, IsRow(jobs[r]),
           NEW data, DOMAIN data \subseteq {"file", "given"},
           jobs' = UpdateJob(jobs, r, data)
    PROVE  /\ \E T : jobs' \in Seq(T) /\ Len(jobs') = Len(jobs) /\ DOMAIN jobs' = DOMAIN jobs
           /\ \A q \in DOMAIN jobs : q # r => jobs'[q] = jobs[q]
           /\ IsRow(jobs'[r]) /\ jobs'[r].tag = jobs[r].tag /\ jobs'[r].json = jobs[r].json
           /\ jobs'[r].file = IF "file" \in DOMAIN data THEN data.file ELSE jobs[r].file
           /\ jobs'[r].given = IF "given" \in DOMAIN data THEN data.given ELSE jobs[r].given
<1> DEFINE j == [f \in DOMAIN jobs[r] |-> IF f \in DOMAIN data THEN data[f] ELSE jobs[r][f]]
<1>1. jobs' = [jobs EXCEPT ![r] = j]
  BY DEF UpdateJob
<1>2. /\ IsRow(j) /\ j.tag = jobs[r].tag /\ j.json = jobs[r].json
      /\ j.file = IF "file" \in DOMAIN data THEN data.file ELSE jobs[r].file
      /\ j.given = IF "given" \in DOMAIN data THEN data.given ELSE jobs[r].given
  BY DEF IsRow
<1> HIDE DEF j
<1>3. jobs' \in Seq(S \union {j}) /\ Len(jobs') = Len(jobs)
  <2>1. DOMAIN jobs = 1..Len(jobs) /\ \A q \in 1..Len(jobs) : jobs[q] \in S
    OBVIOUS
  <2>2. jobs' \in [1..Len(jobs) -> S \union {j}]
    BY <1>1, <2>1
  <2>3. Len(jobs) \in Nat
    OBVIOUS
  <2> QED
    BY <2>2, <2>3
<1>4. jobs'[r] = j /\ DOMAIN jobs' = DOMAIN jobs /\ \A q \in DOMAIN jobs : q # r => jobs'[q] = jobs[q]
  BY <1>1
<1> QED
  BY <1>2, <1>3, <1>4

-----------------------------------------------------------------------------
(* -------- what a gesture does to the list ------------------------------ *)
Added(js, j) ==
    /\ js = Append(jobs, j)
    /\ tags' = tags + 1 /\ shown' = shown \union {tags + 1}

\* A row that is added at the end.
LEMMA OneMore ==
    ASSUME ListInv, NEW j, IsRow(j), j.tag = tags + 1, Added(jobs', j),
           UNCHANGED <<selectedIndexes, json>>
    PROVE  /\ ListInv'
           /\ \E n \in Nat : DOMAIN jobs = 1..n /\ DOMAIN jobs' = 1..(n + 1)
                /\ jobs'[n + 1] = j /\ \A r \in 1..n : jobs'[r] = jobs[r]
<1>1. PICK S : jobs \in Seq(S)
  BY DEF ListInv
<1>2. PICK n \in Nat : n = Len(jobs) /\ DOMAIN jobs = 1..n
  BY <1>1
<1>3. jobs \in Seq(S \union {j}) /\ j \in S \union {j}
  <2>1. \A i \in 1..n : jobs[i] \in S \union {j}
    BY <1>1, <1>2
  <2>2. jobs = [i \in 1..n |-> jobs[i]]
    BY <1>1, <1>2
  <2>3. jobs \in [1..n -> S \union {j}]
    BY <2>1, <2>2
  <2> QED
    BY <1>2, <2>3
<1>4. jobs' \in Seq(S \union {j}) /\ Len(jobs') = n + 1 /\ jobs'[n + 1] = j
      /\ \A r \in 1..n : jobs'[r] = jobs[r]
  BY <1>2, <1>3, AppendProperties DEF Added
<1>5. DOMAIN jobs' = 1..(n + 1)
  BY <1>4
<1>6. ListInv'
  <2>1. \A i \in 1..1 : IsRow(jobs'[n + i]) /\ jobs'[n + i].tag = tags + i
    BY <1>4
  <2>2. shown' = shown \union {tags + i : i \in 1..1}
    BY DEF Added
  <2>3. \E T : json' \in Seq(T)
    BY DEF ListInv
  <2>4. tags' = tags + 1 /\ 1 \in Nat
    BY DEF Added
  <2> QED
    BY <1>2, <1>4, <2>1, <2>2, <2>3, <2>4, ListGrows
<1> QED
  BY <1>2, <1>4, <1>5, <1>6

\* A new row, with a picture of its own or with none.
LEMMA RowAdded ==
    ASSUME JobsInv, NEW j, IsRow(j), j.tag = tags + 1, Added(jobs', j), AtList,
           UNCHANGED <<selectedIndexes, json, astray>>, shared' = shared \union NamedTwice(jobs'),
           DOMAIN store \subseteq DOMAIN store', NoFile \notin DOMAIN store',
           \A f : f # j.file => Shown(store', f) = Shown(store, f),
           Shown(store', j.file) = j.given, ~j.json,
           \/ j.file = NoFile
           \/ IsImage(j.file) /\ j.file \notin DOMAIN store /\ j.file \in DOMAIN store'
    PROVE  JobsInv'
<1>1. ListInv' /\ \E n \in Nat : DOMAIN jobs = 1..n /\ DOMAIN jobs' = 1..(n + 1)
                /\ jobs'[n + 1] = j /\ \A r \in 1..n : jobs'[r] = jobs[r]
  BY OneMore DEF JobsInv
<1>2. PICK n \in Nat : DOMAIN jobs = 1..n /\ DOMAIN jobs' = 1..(n + 1)
                /\ jobs'[n + 1] = j /\ \A r \in 1..n : jobs'[r] = jobs[r]
  BY <1>1
<1>3. \A r \in DOMAIN jobs' : r # n + 1 => r \in DOMAIN jobs /\ jobs'[r] = jobs[r]
  BY <1>2
<1>4. n + 1 \in DOMAIN jobs'
  BY <1>2
<1>5. PictureInv'
  <2>1. ASSUME NEW r \in DOMAIN jobs', jobs'[r].file \notin shared',
               jobs'[r].tag \notin astray'
        PROVE  Shown(store', jobs'[r].file) = jobs'[r].given
    <3>1. CASE r = n + 1
      BY <1>2, <3>1
    <3>2. CASE r # n + 1
      <4>1. r \in DOMAIN jobs /\ jobs'[r] = jobs[r]
        BY <1>3, <3>2
      <4>2. Shown(store, jobs[r].file) = jobs[r].given
        BY <2>1, <4>1 DEF JobsInv, PictureInv
      <4>3. CASE jobs[r].file = j.file /\ j.file # NoFile
        <5>1. jobs'[r].file \in NamedTwice(jobs')
          BY <1>2, <1>4, <3>2, <4>1, <4>3, NamedByTwo
        <5> QED
          BY <2>1, <5>1
      <4>4. CASE jobs[r].file # j.file
        BY <4>1, <4>2, <4>4
      <4>5. CASE jobs[r].file = NoFile
        BY <4>1, <4>2, <4>5 DEF Shown, JobsInv, PictureInv
      <4> QED
        BY <4>3, <4>4, <4>5
    <3> QED
      BY <3>1, <3>2
  <2> QED
    BY <2>1 DEF PictureInv
<1>6. FamilyInv'
  <2>0. \A g : Family(j.file, g) => g = j.file /\ j.file # NoFile
    BY NoFileHasNoFamily, OnlyItself
  <2>1. ASSUME NEW r \in DOMAIN jobs', ~jobs'[r].json, jobs'[r].file # NoFile
        PROVE  \E g : Family(jobs'[r].file, g)
    <3>1. CASE r = n + 1
      BY <1>2, <2>1, <3>1, ImageIsItself
    <3>2. CASE r # n + 1
      BY <1>3, <2>1, <3>2 DEF JobsInv, FamilyInv
    <3> QED
      BY <3>1, <3>2
  <2>2. ASSUME NEW r \in DOMAIN jobs', ~jobs'[r].json, NEW g, Family(jobs'[r].file, g)
        PROVE  g \in DOMAIN store'
    <3>1. CASE r = n + 1
      BY <1>2, <2>0, <2>2, <3>1
    <3>2. CASE r # n + 1
      BY <1>3, <2>2, <3>2 DEF JobsInv, FamilyInv
    <3> QED
      BY <3>1, <3>2
  <2>3. ASSUME NEW r \in DOMAIN jobs, ~jobs[r].json, NEW g
        PROVE  ~(Family(jobs[r].file, g) /\ Family(j.file, g))
    BY <2>0, <2>3 DEF JobsInv, FamilyInv
  <2>4. ASSUME NEW q \in DOMAIN jobs', NEW r \in DOMAIN jobs', q # r,
               ~jobs'[q].json, ~jobs'[r].json, NEW g
        PROVE  ~(Family(jobs'[q].file, g) /\ Family(jobs'[r].file, g))
    <3>1. CASE r = n + 1
      BY <1>2, <1>3, <2>3, <2>4, <3>1
    <3>2. CASE q = n + 1
      BY <1>2, <1>3, <2>3, <2>4, <3>2
    <3>3. CASE q # n + 1 /\ r # n + 1
      BY <1>3, <2>4, <3>3 DEF JobsInv, FamilyInv
    <3> QED
      BY <3>1, <3>2, <3>3
  <2> QED
    BY <2>1, <2>2, <2>4 DEF FamilyInv
<1>7. NameInv'
  <2>1. Named(j.file)
    BY ImageIsFile DEF Named
  <2> QED
    BY <1>2, <1>3, <2>1 DEF JobsInv, NameInv
<1>8. PageInv'
  BY DEF AtList, PageInv
<1> QED
  BY <1>1, <1>5, <1>6, <1>7, <1>8 DEF JobsInv

\* An empty job.
LEMMA AddJobKeeps == ASSUME JobsInv, AddJob PROVE JobsInv'
<1> DEFINE j == Row(now + 1, NoFile, NoPicture, FALSE)
<1>1. IsRow(j) /\ j.tag = tags + 1 /\ j.file = NoFile /\ j.given = NoPicture /\ ~j.json
  BY DEF JobsInv, ListInv, IsRow, Row
<1>2. /\ Added(jobs', j) /\ AtList /\ UNCHANGED <<selectedIndexes, json, astray, store>>
      /\ shared' = shared \union NamedTwice(jobs')
  BY DEF AddJob, Listed, Added
<1>3. NoFile \notin DOMAIN store' /\ Shown(store', NoFile) = NoPicture
  BY <1>2 DEF JobsInv, PictureInv, Shown
<1> HIDE DEF j
<1> QED
  BY <1>1, <1>2, <1>3, RowAdded

\* A picture that is imported.
LEMMA AddOneKeeps ==
    ASSUME JobsInv, NEW picture, NEW base, NEW time, NEW id,
           AddOne(picture, base, time, id), UNCHANGED <<selectedIndexes, json, astray>>
    PROVE  JobsInv'
<1> DEFINE j == Row(id, JobImage(time, base, picture), picture, FALSE)
<1>1. IsRow(j) /\ j.tag = tags + 1 /\ j.file = JobImage(time, base, picture)
      /\ j.given = picture /\ ~j.json
  BY DEF JobsInv, ListInv, IsRow, Row
<1>2. /\ Added(jobs', j) /\ AtList /\ shared' = shared \union NamedTwice(jobs')
      /\ j.file \notin DOMAIN store /\ store' = Put(j.file, j.given, store)
  BY <1>1 DEF AddOne, Listed, Added, Importable
<1>3. IsImage(j.file) /\ j.file # NoFile
  <2>1. IsImage(j.file)
    BY <1>1 DEF IsImage
  <2> QED
    BY <2>1, ImageIsFile
<1> HIDE DEF j
<1>4. /\ DOMAIN store' = DOMAIN store \union {j.file}
      /\ \A f : f # j.file => Shown(store', f) = Shown(store, f)
      /\ Shown(store', j.file) = j.given
  BY <1>2 DEF Put, Shown
<1>5. NoFile \notin DOMAIN store'
  BY <1>3, <1>4 DEF JobsInv, PictureInv
<1> QED
  BY <1>1, <1>2, <1>3, <1>4, <1>5, RowAdded

\* What the file of a row becomes: itself, a new image, or itself imposed.
NextFile(f, new) ==
    \/ new = f
    \/ IsImage(new) /\ new \notin DOMAIN store /\ new \in DOMAIN store'
    \/ f # NoFile /\ new = Imposed(f)

\* An imposed picture has a name.
LEMMA ImposedIsFile ==
    ASSUME NEW f, Named(f), f # NoFile
    PROVE  Named(Imposed(f)) /\ Imposed(f) # NoFile /\ Imposed(f) # Preview
  BY DEF Named, Imposed, NoFile, Preview, File

\* What a file written over, and the preview of a page, leave as it was.
Beside(touched) ==
    /\ NoFile \notin DOMAIN store'
    /\ \A g \in DOMAIN store : IsImage(g) => g \in DOMAIN store'
    /\ \A f : f # touched /\ f # Preview => Shown(store', f) = Shown(store, f)

\* What the page holds after a gesture.
NextPage(new) ==
    \/ imagePath' = imagePath
    \/ new # NoFile /\ imagePath' \in {new, Preview, NoFile}

\* A gesture at the page of a row, which writes over one file.
LEMMA RowChanged ==
    ASSUME JobsInv, NEW r \in DOMAIN jobs, details = r, NEW data,
           DOMAIN data \subseteq {"file", "given"},
           jobs' = UpdateJob(jobs, r, data), shared' = shared \union NamedTwice(jobs'),
           UNCHANGED <<selectedIndexes, details, json, tags, shown>>,
           NEW new, new = IF "file" \in DOMAIN data THEN data.file ELSE jobs[r].file,
           NEW touched, touched \in {new, imagePath}, Beside(touched), NextPage(new),
           NextFile(jobs[r].file, new),
           \/ Reached(r) /\ Shown(store', new) = data.given /\ "given" \in DOMAIN data
           \/ Missed(r)
    PROVE  JobsInv'
<1>0. PICK S : jobs \in Seq(S)
  BY DEF JobsInv, ListInv
<1>a. details # 0
  <2>1. PICK n \in Nat : DOMAIN jobs = 1..n
    BY <1>0
  <2> QED
    BY <2>1
<1>b. shared \subseteq shared'
  OBVIOUS
<1>1. /\ \E T : jobs' \in Seq(T) /\ Len(jobs') = Len(jobs) /\ DOMAIN jobs' = DOMAIN jobs
      /\ \A q \in DOMAIN jobs : q # r => jobs'[q] = jobs[q]
      /\ IsRow(jobs'[r]) /\ jobs'[r].tag = jobs[r].tag /\ jobs'[r].json = jobs[r].json
      /\ jobs'[r].file = new
      /\ jobs'[r].given = IF "given" \in DOMAIN data THEN data.given ELSE jobs[r].given
  <2>1. IsRow(jobs[r])
    BY DEF JobsInv, ListInv
  <2> QED
    BY <1>0, <2>1, UpdatedRow
<1>2. ListInv'
  <2>1. PICK T : jobs' \in Seq(T) /\ Len(jobs') = Len(jobs)
    BY <1>1
  <2>2. \A q \in 1..Len(jobs) : IsRow(jobs'[q]) /\ jobs'[q].tag = jobs[q].tag
    <3>1. \A q \in 1..Len(jobs) : q \in DOMAIN jobs
      BY <1>0
    <3>2. \A q \in DOMAIN jobs : IsRow(jobs[q])
      BY DEF JobsInv, ListInv
    <3> QED
      BY <1>1, <3>1, <3>2
  <2>3. (\E V : selectedIndexes' \in Seq(V)) /\ (\E V : json' \in Seq(V))
        /\ ToSet(selectedIndexes') \subseteq DOMAIN jobs
    BY DEF JobsInv, ListInv
  <2> QED
    BY <2>1, <2>2, <2>3, ListStays DEF JobsInv
<1>3. Named(new) /\ (new = NoFile => jobs[r].file = NoFile)
  BY ImageIsFile, ImposedIsFile DEF NextFile, JobsInv, NameInv
<1>4. NameInv'
  BY <1>1, <1>3 DEF JobsInv, NameInv
\* Two rows of one name, neither of them none, share the file.
<1>5. ASSUME NEW q \in DOMAIN jobs, q # r, jobs[q].file = new, new # NoFile
      PROVE  new \in shared'
  <2>1. q \in DOMAIN jobs' /\ r \in DOMAIN jobs' /\ jobs'[q] = jobs[q]
    BY <1>1, <1>5
  <2>2. jobs'[r].file \in NamedTwice(jobs')
    BY <1>1, <1>5, <2>1, NamedByTwo
  <2> QED
    BY <1>1, <2>2
<1>6. ASSUME NEW q \in DOMAIN jobs, q # r, jobs[q].file = imagePath, imagePath # NoFile
      PROVE  imagePath \in shared'
  BY <1>a, <1>b, <1>6 DEF JobsInv, PageInv
<1>7. ASSUME NEW q \in DOMAIN jobs, q # r PROVE jobs[q].tag # jobs[r].tag
  <2>1. PICK n \in Nat : DOMAIN jobs = 1..n
    BY <1>0
  <2>2. q < r \/ r < q
    BY <1>7, <2>1
  <2>3. jobs[q].tag < jobs[r].tag \/ jobs[r].tag < jobs[q].tag
    BY <2>2 DEF JobsInv, ListInv
  <2>4. jobs[q].tag \in Nat /\ jobs[r].tag \in Nat
    BY DEF JobsInv, ListInv, IsRow
  <2> QED
    BY <2>3, <2>4
<1>8. PictureInv'
  <2>1. ASSUME NEW q \in DOMAIN jobs', jobs'[q].file \notin shared', jobs'[q].tag \notin astray'
        PROVE  Shown(store', jobs'[q].file) = jobs'[q].given
    <3>1. CASE q = r
      <4>1. jobs[r].tag \notin astray'
        BY <1>1, <2>1, <3>1
      <4>2. ~Missed(r)
        BY <4>1 DEF Missed
      <4>3. Shown(store', new) = data.given /\ "given" \in DOMAIN data
        BY <4>2
      <4> QED
        BY <1>1, <3>1, <4>3
    <3>2. CASE q # r
      <4>1. q \in DOMAIN jobs /\ jobs'[q] = jobs[q]
        BY <1>1, <3>2
      <4>2. jobs[q].tag \notin astray
        <5>1. jobs[q].tag # jobs[r].tag
          BY <1>7, <3>2, <4>1
        <5>2. astray \ {jobs[r].tag} \subseteq astray'
          BY DEF Reached, Missed
        <5> QED
          BY <2>1, <4>1, <5>1, <5>2
      <4>3. Shown(store, jobs[q].file) = jobs[q].given
        BY <2>1, <4>1, <4>2 DEF JobsInv, PictureInv
      <4>4. CASE jobs[q].file = NoFile
        BY <4>1, <4>3, <4>4 DEF Shown, Beside, JobsInv, PictureInv
      <4>5. CASE jobs[q].file = touched /\ jobs[q].file # NoFile
        BY <1>5, <1>6, <2>1, <3>2, <4>1, <4>5
      <4>6. CASE jobs[q].file # touched /\ jobs[q].file # NoFile
        <5>1. jobs[q].file # Preview
          <6>1. jobs[q].file.of # <<"preview">>
            BY <4>1, <4>6 DEF JobsInv, NameInv, Named
          <6> QED
            BY <6>1 DEF Preview, File
        <5> QED
          BY <4>1, <4>3, <4>6, <5>1 DEF Beside
      <4> QED
        BY <4>4, <4>5, <4>6
    <3> QED
      BY <3>1, <3>2
  <2> QED
    BY <2>1 DEF PictureInv, Beside
<1>9. PageInv'
  <2>1. details' = r /\ r \in DOMAIN jobs' /\ DOMAIN jobs' = DOMAIN jobs
    BY <1>1
  <2>2. new = NoFile => imagePath' = NoFile
    BY <1>a, <1>3 DEF NextPage, JobsInv, PageInv
  <2>3. ASSUME NEW q \in DOMAIN jobs, q # r, jobs[q].file = imagePath', imagePath' # NoFile
        PROVE  imagePath' \in shared'
    <3>1. imagePath' # Preview
      <4>1. imagePath'.of # <<"preview">>
        BY <2>3 DEF JobsInv, NameInv, Named
      <4> QED
        BY <4>1 DEF Preview, File
    <3>2. CASE imagePath' = imagePath
      BY <1>6, <2>3, <3>2
    <3>3. CASE imagePath' = new
      BY <1>5, <2>3, <3>3
    <3> QED
      BY <2>3, <3>1, <3>2, <3>3 DEF NextPage
  <2> QED
    BY <1>1, <2>1, <2>2, <2>3 DEF PageInv
<1>10. FamilyInv'
  \* A family the row did not belong to is of an image nobody has named.
  <2>0. ASSUME NEW g, Family(new, g)
        PROVE  Family(jobs[r].file, g) \/ (g \notin DOMAIN store /\ g \in DOMAIN store')
    BY <2>0, OnlyItself, ImposedIsFamily DEF NextFile
  <2>1. ASSUME NEW q \in DOMAIN jobs', ~jobs'[q].json, jobs'[q].file # NoFile
        PROVE  \E g : Family(jobs'[q].file, g)
    <3>1. CASE q = r
      <4>1. jobs[r].file # NoFile => \E g : Family(jobs[r].file, g)
        BY <1>1, <2>1, <3>1 DEF JobsInv, FamilyInv
      <4>2. new # NoFile /\ jobs'[q].file = new
        BY <1>1, <2>1, <3>1
      <4> QED
        BY <4>1, <4>2, ImageIsItself, ImposedIsFamily DEF NextFile
    <3>2. CASE q # r
      BY <1>1, <2>1, <3>2 DEF JobsInv, FamilyInv
    <3> QED
      BY <3>1, <3>2
  <2>2. ASSUME NEW q \in DOMAIN jobs', ~jobs'[q].json, NEW g, Family(jobs'[q].file, g)
        PROVE  g \in DOMAIN store'
    <3>1. q \in DOMAIN jobs /\ ~jobs[q].json
      BY <1>1, <2>2
    <3>2. Family(jobs[q].file, g) => g \in DOMAIN store
      BY <3>1 DEF JobsInv, FamilyInv
    <3>3. IsImage(g)
      BY <2>2 DEF Family
    <3> QED
      BY <1>1, <2>0, <2>2, <3>2, <3>3 DEF Beside
  <2>3. ASSUME NEW q \in DOMAIN jobs, q # r, ~jobs[q].json, ~jobs[r].json, NEW g
        PROVE  ~(Family(jobs[q].file, g) /\ Family(new, g))
    <3>1. Family(jobs[q].file, g) => g \in DOMAIN store
      BY <2>3 DEF JobsInv, FamilyInv
    <3>2. ~(Family(jobs[q].file, g) /\ Family(jobs[r].file, g))
      BY <2>3 DEF JobsInv, FamilyInv
    <3> QED
      BY <2>0, <3>1, <3>2
  <2>4. ASSUME NEW p \in DOMAIN jobs', NEW q \in DOMAIN jobs', p # q,
               ~jobs'[p].json, ~jobs'[q].json, NEW g
        PROVE  ~(Family(jobs'[p].file, g) /\ Family(jobs'[q].file, g))
    <3>1. CASE p = r
      BY <1>1, <2>3, <2>4, <3>1
    <3>2. CASE q = r
      BY <1>1, <2>3, <2>4, <3>2
    <3>3. CASE p # r /\ q # r
      BY <1>1, <2>4, <3>3 DEF JobsInv, FamilyInv
    <3> QED
      BY <3>1, <3>2, <3>3
  <2> QED
    BY <2>1, <2>2, <2>4 DEF FamilyInv
<1> QED
  BY <1>2, <1>4, <1>8, <1>9, <1>10 DEF JobsInv

\* What writing a file changes.
LEMMA PutShows ==
    ASSUME NEW f, NEW picture, store' = Put(f, picture, store), f # NoFile,
           NoFile \notin DOMAIN store
    PROVE  Beside(f) /\ Shown(store', f) = picture
  BY DEF Put, Shown, Beside

\* What a page that is shown anew changes.
LEMMA PageShown ==
    ASSUME NEW f, NEW s, PageShows(f, s), NoFile \notin DOMAIN s
    PROVE  /\ imagePath' \in {f, Preview, NoFile}
           /\ NoFile \notin DOMAIN store' /\ DOMAIN s \subseteq DOMAIN store'
           /\ \A g : g # Preview => Shown(store', g) = Shown(s, g)
<1>1. NoFile # Preview
  BY DEF NoFile, Preview, File
<1> QED
  BY <1>1 DEF PageShows, Put, Shown

\* Another picture for a row.
LEMMA UpdateJobImageKeeps ==
    ASSUME JobsInv, NEW r \in DOMAIN jobs, UpdateJobImage(r) PROVE JobsInv'
<1>1. PICK p \in Sources, b \in BaseNames :
        LET f == JobImage(now + 1, b, p)
        IN  /\ Importable(f, store) /\ AtDetails(r, [file |-> f, given |-> p])
            /\ PageShows(f, Put(f, p, WithoutPreview(store))) /\ Reached(r)
  BY DEF UpdateJobImage
<1>2. PICK f : f = JobImage(now + 1, b, p)
  OBVIOUS
<1>3. f \notin DOMAIN store /\ IsImage(f) /\ f # NoFile /\ f # Preview
  BY <1>1, <1>2, ImageIsFile DEF Importable, IsImage
<1>4. PICK s : s = Put(f, p, WithoutPreview(store))
  OBVIOUS
<1>5. /\ NoFile \notin DOMAIN s /\ DOMAIN s = (DOMAIN store \ {Preview}) \union {f}
      /\ \A g : g # f /\ g # Preview => Shown(s, g) = Shown(store, g)
      /\ Shown(s, f) = p
  BY <1>3, <1>4 DEF Put, WithoutPreview, Shown, JobsInv, PictureInv
<1>6. /\ imagePath' \in {f, Preview, NoFile}
      /\ NoFile \notin DOMAIN store' /\ DOMAIN s \subseteq DOMAIN store'
      /\ \A g : g # Preview => Shown(store', g) = Shown(s, g)
  <2>1. PageShows(f, s)
    BY <1>1, <1>2, <1>4
  <2> QED
    BY <1>5, <2>1, PageShown
<1>7. Beside(f) /\ Shown(store', f) = p /\ f \in DOMAIN store'
  <2>1. \A g : IsImage(g) => g # Preview
    BY ImageIsFile
  <2> QED
    BY <1>3, <1>5, <1>6, <2>1 DEF Beside
<1>8. NextFile(jobs[r].file, f) /\ NextPage(f)
  BY <1>3, <1>6, <1>7 DEF NextFile, NextPage
<1> DEFINE data == [file |-> f, given |-> p]
<1>9. /\ DOMAIN data = {"file", "given"} /\ data.file = f /\ data.given = p
      /\ jobs' = UpdateJob(jobs, r, data) /\ shared' = shared \union NamedTwice(jobs')
      /\ details = r /\ UNCHANGED <<selectedIndexes, details, json, tags, shown>>
      /\ Reached(r)
  BY <1>1, <1>2 DEF AtDetails, Listed
<1> HIDE DEF data
<1> QED
  BY <1>7, <1>8, <1>9, RowChanged

\* The editor.
LEMMA EditPictureKeeps ==
    ASSUME JobsInv, NEW r \in DOMAIN jobs, EditPicture(r) PROVE JobsInv'
<1>1. NoFile \notin DOMAIN store
  BY DEF JobsInv, PictureInv
<1>2. imagePath # NoFile /\ UNCHANGED imagePath
  BY <1>1 DEF EditPicture, Readable, Shown, NoPicture
<1>3. NextFile(jobs[r].file, jobs[r].file) /\ NextPage(jobs[r].file)
  BY <1>2 DEF NextFile, NextPage
<1>4. CASE /\ AtDetails(r, [given |-> NewPicture]) /\ store' = Put(imagePath, NewPicture, store)
           /\ IF imagePath = jobs[r].file THEN Reached(r) ELSE Missed(r)
  <2> DEFINE data == [given |-> NewPicture]
  <2>1. /\ DOMAIN data = {"given"} /\ data.given = NewPicture
        /\ jobs' = UpdateJob(jobs, r, data) /\ shared' = shared \union NamedTwice(jobs')
        /\ details = r /\ UNCHANGED <<selectedIndexes, details, json, tags, shown>>
    BY <1>4 DEF AtDetails, Listed
  <2>2. Beside(imagePath) /\ Shown(store', imagePath) = NewPicture
    BY <1>1, <1>2, <1>4, PutShows
  <2>3. \/ Reached(r) /\ Shown(store', jobs[r].file) = NewPicture
        \/ Missed(r)
    BY <1>4, <2>2
  <2> HIDE DEF data
  <2> QED
    BY <1>3, <2>1, <2>2, <2>3, RowChanged
<1>5. CASE /\ AtDetails(r, << >>) /\ store' = Put(imagePath, Broken, store) /\ Missed(r)
  <2>1. PICK data : data = << >> /\ DOMAIN data = {}
    OBVIOUS
  <2>2. /\ jobs' = UpdateJob(jobs, r, data) /\ shared' = shared \union NamedTwice(jobs')
        /\ details = r /\ UNCHANGED <<selectedIndexes, details, json, tags, shown>>
    BY <1>5, <2>1 DEF AtDetails, Listed
  <2>3. Beside(imagePath)
    BY <1>1, <1>2, <1>5, PutShows
  <2> QED
    BY <1>3, <1>5, <2>1, <2>2, <2>3, RowChanged
<1> QED
  BY <1>4, <1>5 DEF EditPicture

\* The imposition page.
LEMMA ImposePictureKeeps ==
    ASSUME JobsInv, NEW r \in DOMAIN jobs, ImposePicture(r) PROVE JobsInv'
<1>1. PICK f : f = Imposed(jobs[r].file)
  OBVIOUS
<1> DEFINE data == [file |-> f, given |-> NewPicture]
<1>2. /\ DOMAIN data = {"file", "given"} /\ data.file = f /\ data.given = NewPicture
      /\ jobs' = UpdateJob(jobs, r, data) /\ shared' = shared \union NamedTwice(jobs')
      /\ details = r /\ UNCHANGED <<selectedIndexes, details, json, tags, shown>>
      /\ imagePath # NoFile /\ UNCHANGED imagePath
  BY <1>1 DEF AtDetails, Listed, ImposePicture
<1> HIDE DEF data
<1>3. jobs[r].file # NoFile /\ NoFile \notin DOMAIN store /\ Named(jobs[r].file)
  <2>1. details # 0
    BY <1>2 DEF JobsInv, ListInv
  <2> QED
    BY <1>2, <2>1 DEF JobsInv, PageInv, PictureInv, NameInv
<1>4. f # NoFile /\ NextFile(jobs[r].file, f) /\ NextPage(f)
  BY <1>1, <1>2, <1>3, ImposedIsFile DEF NextFile, NextPage
<1>5. Beside(f) /\ (Missed(r) \/ (Reached(r) /\ Shown(store', f) = NewPicture))
  <2>1. CASE store' = Put(f, NewPicture, store) /\ Reached(r)
    BY <1>3, <1>4, <2>1, PutShows
  <2>2. CASE store' = Put(f, Broken, store) /\ Missed(r)
    <3>1. Beside(f)
      BY <1>3, <1>4, <2>2, PutShows
    <3> QED
      BY <2>2, <3>1
  <2>3. CASE UNCHANGED store /\ Missed(r)
    <3>1. store' = store
      BY <2>3
    <3>2. Beside(f)
      BY <1>3, <3>1 DEF Beside
    <3> QED
      BY <2>3, <3>2
  <2> QED
    BY <1>1, <2>1, <2>2, <2>3 DEF ImposePicture
<1> QED
  BY <1>2, <1>4, <1>5, RowChanged

\* Opening and closing the details page.
LEMMA PageTurned ==
    ASSUME JobsInv, UNCHANGED <<jobs, selectedIndexes, json, tags, shown, shared, astray>>,
           NoFile \notin DOMAIN store',
           \A g \in DOMAIN store : IsImage(g) => g \in DOMAIN store',
           \A g : g # Preview => Shown(store', g) = Shown(store, g), PageInv'
    PROVE  JobsInv'
<1>1. ASSUME NEW r \in DOMAIN jobs PROVE Shown(store', jobs[r].file) = Shown(store, jobs[r].file)
  <2>1. jobs[r].file # Preview
    BY DEF JobsInv, NameInv, Named, NoFile, Preview, File
  <2> QED
    BY <2>1
<1>2. PictureInv'
  BY <1>1 DEF JobsInv, PictureInv
<1>3. ListInv' /\ NameInv'
  BY DEF JobsInv, ListInv, NameInv
<1>4. FamilyInv'
  <2>1. \A r \in DOMAIN jobs : ~jobs[r].json =>
          \A g : Family(jobs[r].file, g) => g \in DOMAIN store'
    BY DEF JobsInv, FamilyInv, Family
  <2> QED
    BY <2>1 DEF JobsInv, FamilyInv
<1> QED
  BY <1>2, <1>3, <1>4 DEF JobsInv

LEMMA OpenDetailsKeeps ==
    ASSUME JobsInv, NEW r \in DOMAIN jobs, OpenDetails(r) PROVE JobsInv'
<1>1. PICK f : f = jobs[r].file
  OBVIOUS
<1>2. PageShows(f, store) /\ NoFile \notin DOMAIN store /\ details' = r
      /\ UNCHANGED <<jobs, selectedIndexes, json, tags, shown, shared, astray>>
  BY <1>1 DEF OpenDetails, JobsInv, PictureInv
<1>3. /\ imagePath' \in {f, Preview, NoFile}
      /\ NoFile \notin DOMAIN store' /\ DOMAIN store \subseteq DOMAIN store'
      /\ \A g : g # Preview => Shown(store', g) = Shown(store, g)
  BY <1>2, PageShown
<1>4. f = NoFile => imagePath' = NoFile
  BY <1>2 DEF PageShows, NoFile, File
<1>5. ASSUME NEW q \in DOMAIN jobs, q # r, jobs[q].file = imagePath', imagePath' # NoFile
      PROVE  imagePath' \in shared
  <2>1. imagePath' # Preview
    <3>1. imagePath'.of # <<"preview">>
      BY <1>5 DEF JobsInv, NameInv, Named
    <3> QED
      BY <3>1 DEF Preview, File
  <2>2. imagePath' = f
    BY <1>3, <1>5, <2>1
  <2>3. jobs[r].file \in NamedTwice(jobs)
    BY <1>1, <1>5, <2>2, NamedByTwo
  <2> QED
    BY <1>1, <2>2, <2>3 DEF JobsInv, PictureInv
<1>6. PageInv'
  BY <1>1, <1>2, <1>4, <1>5 DEF PageInv
<1> QED
  BY <1>2, <1>3, <1>6, PageTurned

LEMMA CloseDetailsKeeps == ASSUME JobsInv, CloseDetails PROVE JobsInv'
<1>1. /\ store' = WithoutPreview(store) /\ details' = 0 /\ NoFile \notin DOMAIN store
      /\ UNCHANGED <<jobs, selectedIndexes, json, tags, shown, shared, astray>>
  BY DEF CloseDetails, JobsInv, PictureInv
<1>2. /\ DOMAIN store' = DOMAIN store \ {Preview}
      /\ \A g : g # Preview => Shown(store', g) = Shown(store, g)
  BY <1>1 DEF WithoutPreview, Shown
<1>3. \A g \in DOMAIN store : IsImage(g) => g \in DOMAIN store'
  BY <1>2, ImageIsFile
<1>4. PageInv'
  BY <1>1 DEF PageInv
<1> QED
  BY <1>1, <1>2, <1>3, <1>4, PageTurned

-----------------------------------------------------------------------------
\* What changes neither the rows nor the files.
LEMMA SelectionKeeps ==
    ASSUME JobsInv, \E S : selectedIndexes' \in Seq(S),
           ToSet(selectedIndexes') \subseteq DOMAIN jobs,
           \E S : json' \in Seq(S), \A i \in DOMAIN json' : Named(json'[i].file), AtList,
           UNCHANGED <<jobs, store, tags, shown, shared, astray>>
    PROVE  JobsInv'
<1>1. PageInv'
  BY DEF AtList, PageInv
<1> QED
  BY <1>1 DEF JobsInv, ListInv, PictureInv, NameInv, FamilyInv

\* Selecting every row.
LEMMA SelectAllKeeps == ASSUME JobsInv, SelectAll PROVE JobsInv'
<1>1. PICK n \in Nat : DOMAIN jobs = 1..n
  BY DEF JobsInv, ListInv
<1>2. selectedIndexes' = [i \in 1..n |-> i]
  BY <1>1 DEF SelectAll
<1>3. selectedIndexes' \in [1..n -> 1..n]
  BY <1>2
<1>4. selectedIndexes' \in Seq(1..n)
  BY <1>3
<1>5. ToSet(selectedIndexes') \subseteq 1..n
  BY <1>2 DEF ToSet
<1>6. (\E S : json' \in Seq(S)) /\ \A i \in DOMAIN json' : Named(json'[i].file)
  BY DEF SelectAll, JobsInv, ListInv, NameInv
<1>7. UNCHANGED <<jobs, store, tags, shown, shared, astray>> /\ AtList
  BY DEF SelectAll
<1> QED
  BY <1>1, <1>4, <1>5, <1>6, <1>7, SelectionKeeps

\* Saving the selected rows.
LEMMA SaveToJsonKeeps == ASSUME JobsInv, SaveToJson PROVE JobsInv'
<1> DEFINE row(i) == LET j == jobs[selectedIndexes[i]]
                     IN  [id |-> j.id, file |-> j.file, data |-> Shown(store, j.file)]
<1>1. PICK n \in Nat : DOMAIN selectedIndexes = 1..n
  BY DEF JobsInv, ListInv
<1>2. json' = [i \in 1..n |-> row(i)] \/ json' = <<>>
  BY <1>1 DEF SaveToJson
<1>6. \A i \in DOMAIN json' : Named(json'[i].file)
  <2>1. ASSUME NEW i \in 1..n PROVE Named(row(i).file)
    <3>1. selectedIndexes[i] \in DOMAIN jobs
      BY <1>1 DEF JobsInv, ListInv, ToSet
    <3> QED
      BY <3>1 DEF JobsInv, NameInv
  <2> HIDE DEF row
  <2> QED
    BY <1>2, <2>1
<1> HIDE DEF row
<1>3. \E S : json' \in Seq(S)
  <2>1. CASE json' = [i \in 1..n |-> row(i)]
    <3>1. PICK T : \A i \in 1..n : row(i) \in T
      <4>1. \A i \in 1..n : row(i) \in {row(m) : m \in 1..n}
        OBVIOUS
      <4> QED
        BY <4>1
    <3>2. json' \in [1..n -> T]
      BY <2>1, <3>1
    <3>3. json' \in Seq(T)
      BY <1>1, <3>2
    <3> QED
      BY <3>3
  <2>2. CASE json' = <<>>
    <3>1. json' \in Seq({})
      BY <2>2
    <3> QED
      BY <3>1
  <2> QED
    BY <1>2, <2>1, <2>2
<1>4. UNCHANGED <<jobs, store, selectedIndexes, tags, shown, shared, astray>> /\ AtList
  BY DEF SaveToJson
<1>5. (\E S : selectedIndexes' \in Seq(S)) /\ ToSet(selectedIndexes') \subseteq DOMAIN jobs
  BY <1>4 DEF JobsInv, ListInv
<1> QED
  BY <1>3, <1>4, <1>5, <1>6, SelectionKeeps

\* A click on a row.
LEMMA ToggleSelectionKeeps ==
    ASSUME JobsInv, NEW r \in DOMAIN jobs, ToggleSelection(r) PROVE JobsInv'
<1>1. PICK S : selectedIndexes \in Seq(S)
  BY DEF JobsInv, ListInv
<1>2. PICK n \in Nat : n = Len(selectedIndexes) /\ DOMAIN selectedIndexes = 1..n
  BY <1>1
<1>3. UNCHANGED <<jobs, store, json, tags, shown, shared, astray>> /\ AtList
  BY DEF ToggleSelection
<1>4. (\E T : selectedIndexes' \in Seq(T)) /\ ToSet(selectedIndexes') \subseteq DOMAIN jobs
  <2>1. ASSUME NEW q \in Seq(S), \A i \in DOMAIN q : \E m \in 1..n : q[i] = selectedIndexes[m]
        PROVE  ToSet(q) \subseteq DOMAIN jobs
    BY <1>2, <2>1 DEF ToSet, JobsInv, ListInv
  <2>2. CASE Contains(selectedIndexes, r)
    <3>1. PICK m \in 1..n : selectedIndexes[m] = r
      BY <1>2, <2>2 DEF Contains
    <3> DEFINE I == {i \in 1..n : selectedIndexes[i] = r}
    <3>2. selectedIndexes' = RemoveAt(selectedIndexes, Min(I))
      BY <1>2, <2>2, <3>1 DEF ToggleSelection, RemoveFirst, SelectInSeq
    <3>3. Min(I) \in I
      <4>1. I \subseteq Nat /\ I # {}
        BY <3>1
      <4> HIDE DEF I
      <4>2. PICK l \in I : \A i \in I : l <= i
        BY <4>1, LeastNumber
      <4> QED
        BY <4>2 DEF Min
    <3>4. PICK a \in 1..n : a = Min(I)
      BY <3>3
    <3>5. selectedIndexes' = RemoveJob(selectedIndexes, a)
      BY <1>2, <3>2, <3>4 DEF RemoveJob
    <3>6. PICK q : q = selectedIndexes'
      OBVIOUS
    <3>7. /\ q \in Seq(S) /\ Len(q) = n - 1
          /\ \A i \in 1..(n - 1) : q[i] = IF i < a THEN selectedIndexes[i] ELSE selectedIndexes[i + 1]
      BY <1>1, <1>2, <3>4, <3>5, <3>6, WithoutRow
    <3>8. ASSUME NEW i \in DOMAIN q PROVE \E l \in 1..n : q[i] = selectedIndexes[l]
      <4>1. i \in 1..(n - 1) /\ i \in 1..n /\ i + 1 \in 1..n
        BY <1>2, <3>7
      <4> QED
        BY <3>7, <4>1
    <3>9. ToSet(q) \subseteq DOMAIN jobs
      BY <2>1, <3>7, <3>8
    <3> QED
      BY <3>6, <3>7, <3>9
  <2>3. CASE ~Contains(selectedIndexes, r)
    <3>1. selectedIndexes' = Append(selectedIndexes, r)
      BY <2>3 DEF ToggleSelection
    <3>2. PICK q : q = selectedIndexes'
      OBVIOUS
    <3>3. selectedIndexes \in [1..n -> S \union {r}]
      BY <1>1, <1>2
    <3>4. selectedIndexes \in Seq(S \union {r}) /\ r \in S \union {r}
      BY <1>2, <3>3
    <3>5. q \in Seq(S \union {r}) /\ Len(q) = n + 1 /\ q[n + 1] = r
          /\ \A i \in 1..n : q[i] = selectedIndexes[i]
      BY <1>2, <3>1, <3>2, <3>4, AppendProperties
    <3>6. ASSUME NEW i \in DOMAIN q PROVE q[i] \in DOMAIN jobs
      <4>1. i = n + 1 \/ i \in 1..n
        BY <1>2, <3>5
      <4>2. \A m \in 1..n : selectedIndexes[m] \in DOMAIN jobs
        BY <1>2 DEF ToSet, JobsInv, ListInv
      <4> QED
        BY <3>5, <4>1, <4>2
    <3>7. ToSet(q) \subseteq DOMAIN jobs
      BY <3>6 DEF ToSet
    <3> QED
      BY <3>2, <3>5, <3>7
  <2> QED
    BY <2>2, <2>3
<1>5. (\E T : json' \in Seq(T)) /\ \A i \in DOMAIN json' : Named(json'[i].file)
  BY <1>3 DEF JobsInv, ListInv, NameInv
<1> QED
  BY <1>3, <1>4, <1>5, SelectionKeeps

\* Removing the selected rows.
LEMMA RemoveSelectedKeeps == ASSUME JobsInv, RemoveSelectedJobs PROVE JobsInv'
<1>1. PICK R : jobs \in Seq(R)
  BY DEF JobsInv, ListInv
<1>2. PICK n \in Nat : n = Len(jobs) /\ DOMAIN jobs = 1..n
  BY <1>1
<1>3. PICK S : S = ToSet(selectedIndexes)
  OBVIOUS
<1>4. S \subseteq 1..n
  BY <1>2, <1>3 DEF JobsInv, ListInv
<1>5. PICK q : q = jobs'
  OBVIOUS
<1>6. q = RemoveJobs(jobs, Reverse(Ascending(S))) /\ shared' = shared \union NamedTwice(jobs')
      /\ shown' = shown \ {jobs[r].tag : r \in S} /\ selectedIndexes' = <<>>
      /\ UNCHANGED <<store, json, tags, astray>> /\ AtList
  BY <1>3, <1>5 DEF RemoveSelectedJobs, RemovalOrder, Listed
<1>7. q \in Seq(R) /\ \E e : Kept(q, jobs, S, e)
  BY <1>1, <1>2, <1>4, <1>6, OthersStay
<1>8. PICK k \in Nat : k = Len(q) /\ DOMAIN q = 1..k
  BY <1>7
<1>9. PICK e \in [1..k -> 1..n] :
        /\ \A i, j \in 1..k : i < j => e[i] < e[j]
        /\ \A i \in 1..k : q[i] = jobs[e[i]]
        /\ \A m \in 1..n : (\E i \in 1..k : e[i] = m) <=> m \notin S
  <2>1. PICK e : Kept(q, jobs, S, e)
    BY <1>7
  <2> QED
    BY <1>2, <1>8, <2>1 DEF Kept, Increasing
<1>10. \A i \in 1..k : e[i] \in DOMAIN jobs /\ q[i] = jobs[e[i]] /\ e[i] \notin S
  BY <1>2, <1>9
<1>11. \A i, j \in 1..k : i # j => e[i] # e[j]
  <2>1. \A i \in 1..k : e[i] \in Nat
    BY <1>9
  <2>2. \A i, j \in 1..k : i # j => i < j \/ j < i
    OBVIOUS
  <2> QED
    BY <1>9, <2>1, <2>2
<1>12. ListInv'
  <2>1. \A i \in DOMAIN q : IsRow(q[i]) /\ q[i].tag \in 1..tags
    BY <1>8, <1>10 DEF JobsInv, ListInv
  <2>2. \A i, j \in DOMAIN q : i < j => q[i].tag < q[j].tag
    BY <1>8, <1>9, <1>10 DEF JobsInv, ListInv
  <2>3. shown' = {q[i].tag : i \in DOMAIN q}
    <3>1. ASSUME NEW i \in 1..k PROVE q[i].tag \in shown'
      <4>1. q[i].tag \in shown
        BY <1>10 DEF JobsInv, ListInv
      <4>2. ASSUME NEW r \in S PROVE q[i].tag # jobs[r].tag
        <5>1. r \in 1..n /\ e[i] \in 1..n /\ r # e[i]
          BY <1>4, <1>9, <1>10
        <5>2. r < e[i] \/ e[i] < r
          BY <5>1
        <5>3. jobs[r].tag < jobs[e[i]].tag \/ jobs[e[i]].tag < jobs[r].tag
          BY <1>2, <5>1, <5>2 DEF JobsInv, ListInv
        <5>4. jobs[r].tag \in 1..tags /\ jobs[e[i]].tag \in 1..tags /\ tags \in Nat
          BY <1>2, <5>1 DEF JobsInv, ListInv
        <5>5. jobs[r].tag # jobs[e[i]].tag
          BY <5>3, <5>4
        <5> QED
          BY <1>10, <5>5
      <4> QED
        BY <1>6, <4>1, <4>2
    <3>2. ASSUME NEW t \in shown' PROVE \E i \in 1..k : t = q[i].tag
      <4>1. PICK m \in 1..n : t = jobs[m].tag
        BY <1>2, <1>6 DEF JobsInv, ListInv
      <4>2. m \notin S
        BY <1>6, <4>1
      <4>3. PICK i \in 1..k : e[i] = m
        BY <1>9, <4>2
      <4> QED
        BY <1>9, <4>1, <4>3
    <3> QED
      BY <1>8, <3>1, <3>2
  <2>4. selectedIndexes' \in Seq({}) /\ ToSet(selectedIndexes') \subseteq DOMAIN q
    BY <1>6 DEF ToSet
  <2>5. tags' \in Nat /\ (\E T : json' \in Seq(T)) /\ tags' = tags
    BY <1>6 DEF JobsInv, ListInv
  <2>6. \E T : jobs' \in Seq(T)
    BY <1>5, <1>7
  <2>7. \E T : selectedIndexes' \in Seq(T)
    BY <2>4
  <2> QED
    BY <1>5, <2>1, <2>2, <2>3, <2>4, <2>5, <2>6, <2>7 DEF ListInv
<1>13. PictureInv'
  <2>1. \A i \in DOMAIN q : q[i].file \notin shared' /\ q[i].tag \notin astray'
                            => Shown(store', q[i].file) = q[i].given
    BY <1>6, <1>8, <1>10 DEF JobsInv, PictureInv
  <2> QED
    BY <1>5, <1>6, <2>1 DEF JobsInv, PictureInv
<1>14. FamilyInv'
  <2>1. \A i \in DOMAIN q : ~q[i].json /\ q[i].file # NoFile => \E g : Family(q[i].file, g)
    BY <1>8, <1>10 DEF JobsInv, FamilyInv
  <2>2. \A i \in DOMAIN q : ~q[i].json => \A g : Family(q[i].file, g) => g \in DOMAIN store'
    BY <1>6, <1>8, <1>10 DEF JobsInv, FamilyInv
  <2>3. \A i, j \in DOMAIN q : i # j /\ ~q[i].json /\ ~q[j].json =>
           \A g : ~(Family(q[i].file, g) /\ Family(q[j].file, g))
    <3> SUFFICES ASSUME NEW i \in DOMAIN q, NEW j \in DOMAIN q, i # j, ~q[i].json, ~q[j].json
                 PROVE  \A g : ~(Family(q[i].file, g) /\ Family(q[j].file, g))
      OBVIOUS
    <3>1. e[i] # e[j] /\ e[i] \in DOMAIN jobs /\ e[j] \in DOMAIN jobs
          /\ q[i] = jobs[e[i]] /\ q[j] = jobs[e[j]]
      BY <1>8, <1>10, <1>11
    <3> QED
      BY <3>1 DEF JobsInv, FamilyInv
  <2> QED
    BY <1>5, <2>1, <2>2, <2>3 DEF FamilyInv
<1>15. NameInv'
  <2>1. \A i \in DOMAIN q : Named(q[i].file)
    BY <1>8, <1>10 DEF JobsInv, NameInv
  <2> QED
    BY <1>5, <1>6, <2>1 DEF JobsInv, NameInv
<1>16. PageInv'
  BY <1>6 DEF AtList, PageInv
<1> QED
  BY <1>12, <1>13, <1>14, <1>15, <1>16 DEF JobsInv

\* A loaded picture has a name.
LEMMA LoadedIsFile ==
    ASSUME NEW o
    PROVE  LoadedFile(o) # NoFile /\ Named(LoadedFile(o)) /\ ~IsImage(LoadedFile(o))
<1>1. LoadedFile(o).of[1] = "loaded"
  BY DEF LoadedFile, File
<1>2. <<"none">>[1] = "none" /\ <<"preview">>[1] = "preview" /\ NoFile.of = <<"none">>
  BY DEF NoFile, File
<1>3. IsImage(LoadedFile(o)) => LoadedFile(o).of[1] = "image"
  BY DEF IsImage, JobImage, File
<1> QED
  BY <1>1, <1>2, <1>3 DEF Named

\* Where the picture of row i is to be found.
Place(rows, i) == IF rows[i].data = NoPicture THEN json[i].file ELSE LoadedFile(json[i])

\* The rows of a JSON file, named as they may be, after those listed.
LEMMA RowsLoaded ==
    ASSUME JobsInv, AtList, NEW rows, NEW k \in Nat, DOMAIN json = 1..k,
           jobs' = jobs \o LoadedJobs(rows),
           shared' = shared \union NamedTwice(jobs'),
           tags' = tags + k, shown' = shown \union {tags + i : i \in 1..k},
           UNCHANGED <<selectedIndexes, json>>,
           DOMAIN store \subseteq DOMAIN store', NoFile \notin DOMAIN store',
           \A f : \/ Shown(store', f) = Shown(store, f)
                  \/ f # NoFile /\ \E i \in 1..k : Place(rows, i) = f,
           astray \subseteq astray',
           \A i \in 1..k :
             \/ tags + i \in astray'
             \/ Shown(store', Place(rows, i)) = json[i].data
             \/ /\ Place(rows, i) # NoFile
                /\ \E m \in 1..k \ {i} : Place(rows, m) = Place(rows, i)
    PROVE  JobsInv'
<1>1. PICK R : jobs \in Seq(R)
  BY DEF JobsInv, ListInv
<1>2. PICK n \in Nat : n = Len(jobs) /\ DOMAIN jobs = 1..n
  BY <1>1
<1> DEFINE row(i) == [tag |-> tags + i, id |-> json[i].id, file |-> Place(rows, i),
                      given |-> json[i].data, json |-> TRUE]
<1>3. PICK b : b = LoadedJobs(rows) /\ b = [i \in 1..k |-> row(i)]
  BY DEF LoadedJobs, Place
<1>4. \A i \in 1..k : /\ IsRow(b[i]) /\ b[i].tag = tags + i /\ b[i].json = TRUE
                      /\ b[i].file = Place(rows, i) /\ b[i].given = json[i].data
  <2> SUFFICES ASSUME NEW i \in 1..k
               PROVE  /\ IsRow(b[i]) /\ b[i].tag = tags + i /\ b[i].json = TRUE
                      /\ b[i].file = Place(rows, i) /\ b[i].given = json[i].data
    OBVIOUS
  <2>1. b[i] = row(i)
    BY <1>3
  <2>2. tags + i \in Nat
    BY DEF JobsInv, ListInv
  <2> QED
    BY <2>1, <2>2 DEF IsRow
<1> HIDE DEF row
<1>a. PICK S : R \subseteq S /\ \A i \in 1..k : row(i) \in S
  <2>1. /\ R \subseteq R \union {row(i) : i \in 1..k}
        /\ \A i \in 1..k : row(i) \in R \union {row(m) : m \in 1..k}
    OBVIOUS
  <2> QED
    BY <2>1
<1>5. jobs \in Seq(S) /\ b \in Seq(S) /\ Len(b) = k
  <2>1. jobs \in [1..n -> S]
    BY <1>1, <1>2, <1>a
  <2>2. b \in [1..k -> S]
    BY <1>3, <1>a
  <2>3. jobs \in Seq(S)
    BY <1>2, <2>1, FunctionIsSeq
  <2>4. b \in Seq(S) /\ Len(b) = k
    BY <2>2, FunctionIsSeq
  <2> QED
    BY <2>3, <2>4
<1>6. /\ jobs' \in Seq(S) /\ Len(jobs') = n + k
      /\ \A r \in 1..n : jobs'[r] = jobs[r]
      /\ \A i \in 1..k : jobs'[n + i] = b[i]
  <2>1. PICK q : q = jobs \o b
    OBVIOUS
  <2>2. /\ q \in Seq(S) /\ Len(q) = n + k
        /\ \A r \in 1..(n + k) : q[r] = IF r <= n THEN jobs[r] ELSE b[r - n]
    <3>1. /\ jobs \o b \in Seq(S) /\ Len(jobs \o b) = Len(jobs) + Len(b)
          /\ \A i \in 1..(Len(jobs) + Len(b)) :
               (jobs \o b)[i] = IF i <= Len(jobs) THEN jobs[i] ELSE b[i - Len(jobs)]
      <4>1. jobs \in Seq(S) /\ b \in Seq(S)
        BY <1>5
      <4> HIDE <1>1, <1>2, <1>3, <1>4, <1>5, <1>a, <2>1
      <4> QED
        BY ONLY <4>1, ConcatProperties
    <3> QED
      BY <1>2, <1>5, <2>1, <3>1
  <2>3. \A r \in 1..n : r \in 1..(n + k) /\ r <= n
    OBVIOUS
  <2>4. \A i \in 1..k : n + i \in 1..(n + k) /\ ~(n + i <= n) /\ (n + i) - n = i
    OBVIOUS
  <2>5. jobs' = q
    BY <1>3, <2>1
  <2>6. \A r \in 1..n : q[r] = jobs[r]
    BY <2>2, <2>3
  <2>7. \A i \in 1..k : q[n + i] = b[i]
    BY <2>2, <2>4
  <2> QED
    BY <2>2, <2>5, <2>6, <2>7
<1>7. ListInv'
  <2>1. \A i \in 1..k : IsRow(jobs'[n + i]) /\ jobs'[n + i].tag = tags + i
    BY <1>4, <1>6
  <2>2. \E T : json' \in Seq(T)
    BY DEF JobsInv, ListInv
  <2> QED
    BY <1>2, <1>6, <2>1, <2>2, ListGrows DEF JobsInv
<1>8. DOMAIN jobs' = 1..(n + k)
  BY <1>2, <1>6
<1>9. ASSUME NEW r \in DOMAIN jobs'
      PROVE  \/ r \in DOMAIN jobs /\ jobs'[r] = jobs[r]
             \/ /\ r \notin DOMAIN jobs
                /\ \E i \in 1..k : r = n + i /\ jobs'[r] = b[i]
  <2>1. CASE r <= n
    BY <1>2, <1>6, <1>8, <2>1
  <2>2. CASE r > n
    <3>1. PICK i \in 1..k : r = n + i
      <4>1. r - n \in 1..k /\ r = n + (r - n)
        BY <1>2, <1>8, <2>2
      <4> QED
        BY <4>1
    <3> QED
      BY <1>2, <1>6, <2>2, <3>1
  <2>3. r <= n \/ r > n
    BY <1>2, <1>8
  <2> QED
    BY <2>1, <2>2, <2>3
<1>10. ASSUME NEW f, f # NoFile, NEW i \in 1..k, Place(rows, i) = f,
              NEW r \in DOMAIN jobs', r # n + i, jobs'[r].file = f
       PROVE  f \in NamedTwice(jobs')
  <2>1. n + i \in DOMAIN jobs'
    BY <1>2, <1>8
  <2>2. jobs'[n + i] = b[i] /\ b[i].file = f
    BY <1>4, <1>6, <1>10
  <2>3. PICK p \in DOMAIN jobs' : p # r /\ jobs'[p].file = f
    BY <1>10, <2>1, <2>2
  <2>4. jobs'[r].file = f /\ jobs'[r].file # NoFile /\ jobs'[p].file = jobs'[r].file
    BY <1>10, <2>3
  <2>5. jobs'[r].file \in NamedTwice(jobs')
    BY <1>10, <2>3, <2>4, NamedByTwo
  <2> QED
    BY <2>4, <2>5
<1>11. PictureInv'
  <2>1. ASSUME NEW r \in DOMAIN jobs', jobs'[r].file \notin shared', jobs'[r].tag \notin astray'
        PROVE  Shown(store', jobs'[r].file) = jobs'[r].given
    <3>1. CASE r \in DOMAIN jobs /\ jobs'[r] = jobs[r]
      <4>1. Shown(store, jobs[r].file) = jobs[r].given
        BY <2>1, <3>1 DEF JobsInv, PictureInv
      <4>2. PICK f : f = jobs[r].file
        OBVIOUS
      <4>3. f \notin NamedTwice(jobs')
        BY <2>1, <3>1, <4>2
      <4>4. \A i \in 1..k : r # n + i
        BY <1>2, <3>1
      <4>5. Shown(store', f) = Shown(store, f)
        BY <1>10, <3>1, <4>2, <4>3, <4>4
      <4> QED
        BY <3>1, <4>1, <4>2, <4>5
    <3>2. CASE \E i \in 1..k : r = n + i /\ jobs'[r] = b[i]
      <4>1. PICK i \in 1..k : r = n + i /\ jobs'[r] = b[i]
        BY <3>2
      <4>2. /\ jobs'[r].tag = tags + i /\ jobs'[r].file = Place(rows, i)
            /\ jobs'[r].given = json[i].data
        BY <1>4, <4>1
      <4>3. CASE Shown(store', Place(rows, i)) = json[i].data
        BY <4>2, <4>3
      <4>4. ASSUME Place(rows, i) # NoFile, NEW m \in 1..k, m # i, Place(rows, m) = Place(rows, i)
            PROVE  FALSE
        <5>1. r # n + m
          BY <1>2, <4>1, <4>4
        <5>2. jobs'[r].file \in NamedTwice(jobs')
          BY <1>10, <4>2, <4>4, <5>1
        <5> QED
          BY <2>1, <5>2
      <4> QED
        BY <2>1, <4>2, <4>3, <4>4
    <3> QED
      BY <1>9, <3>1, <3>2
  <2> QED
    BY <2>1 DEF PictureInv
<1>13. NameInv'
  <2>1. ASSUME NEW i \in 1..k PROVE Named(b[i].file)
    BY <1>4, LoadedIsFile DEF Place, JobsInv, NameInv
  <2> QED
    BY <1>9, <2>1 DEF JobsInv, NameInv
<1>14. PageInv'
  BY DEF AtList, PageInv
<1>12. FamilyInv'
  <2>1. ASSUME NEW r \in DOMAIN jobs', ~jobs'[r].json
        PROVE  r \in DOMAIN jobs /\ jobs'[r] = jobs[r] /\ ~jobs[r].json
    BY <1>4, <1>9, <2>1
  <2>2. \A r \in DOMAIN jobs' : ~jobs'[r].json /\ jobs'[r].file # NoFile =>
          \E g : Family(jobs'[r].file, g)
    BY <2>1 DEF JobsInv, FamilyInv
  <2>3. \A r \in DOMAIN jobs' : ~jobs'[r].json =>
          \A g : Family(jobs'[r].file, g) => g \in DOMAIN store'
    BY <2>1 DEF JobsInv, FamilyInv
  <2>4. \A q, r \in DOMAIN jobs' : q # r /\ ~jobs'[q].json /\ ~jobs'[r].json =>
          \A g : ~(Family(jobs'[q].file, g) /\ Family(jobs'[r].file, g))
    BY <2>1 DEF JobsInv, FamilyInv
  <2> QED
    BY <2>2, <2>3, <2>4 DEF FamilyInv
<1> QED
  BY <1>7, <1>11, <1>12, <1>13, <1>14 DEF JobsInv

\* Loading, whichever pictures could be written.
LEMMA LoadFromJsonKeeps == ASSUME JobsInv, LoadFromJson PROVE JobsInv'
<1>1. PICK k \in Nat : DOMAIN json = 1..k /\ Len(json) = k
  BY DEF JobsInv, ListInv
<1>2. /\ tags' = tags + k /\ shown' = shown \union {tags + i : i \in 1..k}
      /\ UNCHANGED <<selectedIndexes, json>> /\ AtList
  BY <1>1 DEF LoadFromJson
<1>3. PICK outcome \in [1..k -> Outcomes] :
        LET rows == Arriving(outcome)
        IN  /\ store' = UnpackAll(store, rows) /\ Listed(jobs \o LoadedJobs(rows))
            /\ astray' = astray \union
                 {tags + i : i \in {i \in DOMAIN rows : rows[i].data \in {NoPicture, Broken}}}
  BY <1>1, Zenon DEF LoadFromJson
<1>4. PICK rows : rows = Arriving(outcome)
  OBVIOUS
<1>5. /\ store' = UnpackAll(store, rows) /\ jobs' = jobs \o LoadedJobs(rows)
      /\ shared' = shared \union NamedTwice(jobs')
      /\ astray' = astray \union
           {tags + i : i \in {i \in DOMAIN rows : rows[i].data \in {NoPicture, Broken}}}
  BY <1>3, <1>4 DEF Listed
<1>6. /\ DOMAIN rows = 1..k
      /\ \A i \in 1..k : /\ LoadedFile(rows[i]) = LoadedFile(json[i])
                         /\ rows[i].data \in {NoPicture, Broken, json[i].data}
  BY <1>1, <1>4 DEF Arriving, Arrived, LoadedFile
<1>7. /\ DOMAIN store \subseteq DOMAIN store'
      /\ \A f \in DOMAIN store' : f \in DOMAIN store \/ \E i \in 1..k : f = LoadedFile(rows[i])
      /\ \A f : (\A i \in 1..k : rows[i].data # NoPicture => f # LoadedFile(rows[i]))
                   => Shown(store', f) = Shown(store, f)
      /\ \A i \in 1..k : OnlyWriter(rows, k, i) => Shown(store', LoadedFile(rows[i])) = rows[i].data
  <2>1. PICK u : u = UnpackAll(store, rows)
    OBVIOUS
  <2>2. store' = u
    BY <1>5, <2>1
  <2>3. /\ DOMAIN store \subseteq DOMAIN u
        /\ \A f \in DOMAIN u : f \in DOMAIN store \/ \E i \in 1..k : f = LoadedFile(rows[i])
        /\ \A f : (\A i \in 1..k : rows[i].data # NoPicture => f # LoadedFile(rows[i]))
                     => Shown(u, f) = Shown(store, f)
        /\ \A i \in 1..k : OnlyWriter(rows, k, i) => Shown(u, LoadedFile(rows[i])) = rows[i].data
    <3>1. DOMAIN rows = 1..k
      BY <1>6
    <3> QED
      BY ONLY <2>1, <3>1, k \in Nat, OthersUntouched
  <2> QED
    BY <2>2, <2>3
<1>8. NoFile \notin DOMAIN store'
  BY <1>7, LoadedIsFile DEF JobsInv, PictureInv
<1>9. \A i \in 1..k : rows[i].data # NoPicture => Place(rows, i) = LoadedFile(rows[i])
  BY <1>6 DEF Place
<1>10. ASSUME NEW f
       PROVE  \/ Shown(store', f) = Shown(store, f)
              \/ f # NoFile /\ \E i \in 1..k : Place(rows, i) = f
  BY <1>7, <1>9, LoadedIsFile
<1>11. ASSUME NEW i \in 1..k
       PROVE  \/ tags + i \in astray'
              \/ Shown(store', Place(rows, i)) = json[i].data
              \/ /\ Place(rows, i) # NoFile
                 /\ \E m \in 1..k \ {i} : Place(rows, m) = Place(rows, i)
  <2>1. CASE rows[i].data \in {NoPicture, Broken}
    <3>1. tags + i \in astray'
      BY <1>5, <1>6, <2>1
    <3> QED
      BY <3>1
  <2>2. CASE rows[i].data \notin {NoPicture, Broken}
    <3>1. /\ rows[i].data # NoPicture /\ rows[i].data = json[i].data
          /\ Place(rows, i) = LoadedFile(rows[i]) /\ Place(rows, i) # NoFile
      BY <1>6, <1>9, <2>2, LoadedIsFile
    <3>2. CASE OnlyWriter(rows, k, i)
      BY <1>7, <3>1, <3>2
    <3>3. CASE ~OnlyWriter(rows, k, i)
      <4>1. PICK m \in 1..k \ {i} : rows[m].data # NoPicture /\ LoadedFile(rows[m]) = LoadedFile(rows[i])
        BY <3>1, <3>3 DEF OnlyWriter
      <4>2. Place(rows, m) = Place(rows, i)
        BY <1>9, <3>1, <4>1
      <4> QED
        BY <3>1, <4>1, <4>2
    <3> QED
      BY <3>2, <3>3
  <2> QED
    BY <2>1, <2>2
<1>12. astray \subseteq astray'
  BY <1>5
<1> QED
  BY <1>1, <1>2, <1>5, <1>7, <1>8, <1>10, <1>11, <1>12, RowsLoaded

\* The list is empty at first.
LEMMA InitialJobs == PInit => JobsInv
<1> SUFFICES ASSUME PInit PROVE JobsInv
  OBVIOUS
<1>1. jobs \in Seq({}) /\ selectedIndexes \in Seq({}) /\ json \in Seq({})
      /\ DOMAIN jobs = {} /\ DOMAIN selectedIndexes = {} /\ DOMAIN store = {}
  BY DEF PInit
<1>2. ToSet(selectedIndexes) = {} /\ NamedTwice(jobs) = {}
  BY <1>1 DEF ToSet, NamedTwice
<1>3. ListInv
  BY <1>1, <1>2 DEF PInit, ListInv
<1>4. PictureInv /\ NameInv /\ FamilyInv
  BY <1>1, <1>2 DEF PictureInv, NameInv, FamilyInv
<1>5. PageInv
  BY DEF PInit, PageInv
<1> QED
  BY <1>3, <1>4, <1>5 DEF JobsInv

\* Every gesture preserves the invariant.
LEMMA JobsStep == JobsInv /\ [PNext]_pvars => JobsInv'
<1> SUFFICES ASSUME JobsInv, [PNext]_pvars PROVE JobsInv'
  OBVIOUS
<1>1. CASE UNCHANGED pvars
  BY <1>1 DEF pvars, JobsInv, ListInv, PictureInv, NameInv, PageInv, FamilyInv
<1>2. CASE AddJob
  BY <1>2, AddJobKeeps
<1>3. CASE AddJobFromImage
  <2>1. PICK p \in Sources, b \in BaseNames : \E id : 
          AddOne(p, b, now + 1, id) /\ UNCHANGED <<selectedIndexes, json, astray>>
    BY <1>3 DEF AddJobFromImage
  <2>2. PICK id : AddOne(p, b, now + 1, id) /\ UNCHANGED <<selectedIndexes, json, astray>>
    BY <2>1
  <2> QED
    BY <2>2, AddOneKeeps
<1>4. CASE AddJobFromDrop
  <2>1. PICK p \in Sources, b \in BaseNames :
          AddOne(p, b, now, now) /\ UNCHANGED <<selectedIndexes, json, astray>>
    BY <1>4 DEF AddJobFromDrop
  <2> QED
    BY <2>1, AddOneKeeps
<1>5. CASE SelectAll \/ RemoveSelectedJobs \/ SaveToJson \/ LoadFromJson \/ CloseDetails
  BY <1>5, SelectAllKeeps, RemoveSelectedKeeps, SaveToJsonKeeps, LoadFromJsonKeeps,
     CloseDetailsKeeps
<1>6. ASSUME NEW r \in DOMAIN jobs,
             \/ ToggleSelection(r) \/ OpenDetails(r)
             \/ UpdateJobImage(r) \/ EditPicture(r) \/ ImposePicture(r)
      PROVE  JobsInv'
  BY <1>6, UpdateJobImageKeeps, EditPictureKeeps, ImposePictureKeeps, ToggleSelectionKeeps,
     OpenDetailsKeeps
<1> QED
  BY <1>1, <1>2, <1>3, <1>4, <1>5, <1>6 DEF PNext

\* The invariant is enough for the property.
LEMMA JobsHold == JobsInv => JobsKeepTheirPictures
<1> SUFFICES ASSUME JobsInv PROVE JobsKeepTheirPictures
  OBVIOUS
<1>1. PICK n \in Nat : DOMAIN jobs = 1..n
  BY DEF JobsInv, ListInv
<1>2. tags \in Nat /\ \A r \in 1..n : jobs[r].tag \in 1..tags
  BY <1>1 DEF JobsInv, ListInv
<1>3. shown \subseteq 1..tags
  BY <1>1, <1>2 DEF JobsInv, ListInv
<1> DEFINE a == [r \in DOMAIN jobs |-> jobs[r].tag]
<1>4. a = Ascending(shown)
  <2>1. a \in [1..n -> shown]
    BY <1>1 DEF JobsInv, ListInv
  <2>2. \A i, j \in 1..n : i < j => a[i] < a[j]
    BY <1>1 DEF JobsInv, ListInv
  <2>3. \A x \in shown : \E i \in 1..n : a[i] = x
    BY <1>1 DEF JobsInv, ListInv
  <2> HIDE DEF a
  <2>4. DOMAIN a = 1..n
    BY <2>1
  <2>5. \A i, j \in 1..n : i # j => a[i] # a[j]
    <3> SUFFICES ASSUME NEW i \in 1..n, NEW j \in 1..n, i # j PROVE a[i] # a[j]
      OBVIOUS
    <3>1. i < j \/ j < i
      BY <1>1
    <3>2. a[i] < a[j] \/ a[j] < a[i]
      BY <2>2, <3>1
    <3>3. a[i] \in 1..tags /\ a[j] \in 1..tags
      BY <1>3, <2>1
    <3> QED
      BY <1>2, <3>2, <3>3
  <2>6. Cardinality(shown) = n
    <3>1. a \in Bijection(1..n, shown)
      BY <2>1, <2>3, <2>5 DEF Bijection, Injection, Surjection, IsInjective
    <3>2. ExistsBijection(1..n, shown)
      BY <3>1 DEF ExistsBijection
    <3> QED
      BY <1>1, <3>2, FS_CountingElements
  <2>7. Enumerates(a, shown)
    BY <2>1, <2>2, <2>3, <2>4, <2>6 DEF Enumerates, Increasing
  <2>8. Enumerates(Ascending(shown), shown)
    BY <1>2, <1>3, AscendingEnumerates
  <2> QED
    BY <1>2, <1>3, <2>7, <2>8, OneEnumeration
<1>5. ASSUME NEW q \in DOMAIN jobs, NEW r \in DOMAIN jobs,
             q # r, jobs[q].file = jobs[r].file, jobs[q].file # NoFile
      PROVE  jobs[q].json \/ jobs[r].json
  <2>1. SUFFICES ASSUME ~jobs[q].json, ~jobs[r].json PROVE FALSE
    OBVIOUS
  <2>2. PICK g : Family(jobs[q].file, g)
    BY <1>5, <2>1 DEF JobsInv, FamilyInv
  <2> QED
    BY <1>5, <2>1, <2>2 DEF JobsInv, FamilyInv
<1>6. ToSet(selectedIndexes) \subseteq DOMAIN jobs
  BY DEF JobsInv, ListInv
<1>7. \A r \in DOMAIN jobs : jobs[r].file \notin shared /\ jobs[r].tag \notin astray
                              => Shown(store, jobs[r].file) = jobs[r].given
  BY DEF JobsInv, PictureInv
<1> QED
  BY <1>4, <1>5, <1>6, <1>7 DEF JobsKeepTheirPictures

-----------------------------------------------------------------------------
(* -------- the desk ----------------------------------------------------- *)
DeskInv ==
    /\ part \in {"editor", "jobs", "settings"}
    /\ SettingsInv /\ JobsInv
    /\ IF part = "editor" THEN EditorInv ELSE page = "off" /\ files = << >>

LEMMA InitialDesk == Init => DeskInv
<1> SUFFICES ASSUME Init PROVE DeskInv
  OBVIOUS
<1>1. SettingsOff => SettingsInv
  BY DefaultsInRange DEF SettingsOff, SettingsInv, FileInv, Absent
<1> QED
  BY <1>1, InitialSettings, InitialEditor, InitialJobs
     DEF Init, DeskInv, EditorOff, JobsOff

LEMMA DeskStep == DeskInv /\ [Next]_<<part, evars, pvars, cvars>> => DeskInv'
<1> SUFFICES ASSUME DeskInv, [Next]_<<part, evars, pvars, cvars>> PROVE DeskInv'
  OBVIOUS
<1>1. /\ UNCHANGED part /\ [CNext]_cvars /\ [PNext]_pvars
      /\ part = "editor" => [ENext]_evars
      /\ part # "editor" => UNCHANGED evars
  BY DEF Next
<1>2. SettingsInv' /\ JobsInv'
  BY <1>1, SettingsStep, JobsStep DEF DeskInv
<1>3. CASE part = "editor"
  BY <1>1, <1>2, <1>3, EditorStep DEF DeskInv
<1>4. CASE part # "editor"
  BY <1>1, <1>2, <1>4 DEF DeskInv, evars
<1> QED
  BY <1>3, <1>4

(* The invariant the two theorems below rest on.  *)
THEOREM DeskInvariance == Spec => []DeskInv
  BY InitialDesk, DeskStep, PTL DEF Spec

(* After a start the settings in force are those of the last complete save  *)
(* to the last value, and so are the profile and the curve every printer    *)
(* and mode resolves to; a setter that saves by itself is on disk; whatever *)
(* the printers, modes, paths and numbers and however many saves are cut    *)
(* short (ColorManagementManager.cpp:905-1144).                             *)
THEOREM SettingsAreRestored == Spec => []SettingsComeBack
<1>1. DeskInv => SettingsComeBack
  BY SettingsHold DEF DeskInv
<1> QED
  BY <1>1, DeskInvariance, PTL

(* However many pictures are edited, undone, imposed and saved, and however *)
(* long the histories grow, undo and redo walk one line of pictures of the  *)
(* job on the page and a file shows its own job, up to what the imposition  *)
(* page has drawn on (ImageEditor.cpp:22-36, 397-439).                      *)
THEOREM UndoIsOwn == Spec => []UndoStaysInThePicture
<1>1. DeskInv => UndoStaysInThePicture
  <2>1. CASE part = "editor"
    BY <2>1, EditorHolds DEF DeskInv
  <2>2. CASE part # "editor"
    BY <2>2 DEF DeskInv, UndoStaysInThePicture
  <2> QED
    BY <2>1, <2>2
<1> QED
  BY <1>1, DeskInvariance, PTL

(* However many pictures are imported, edited, imposed, saved and loaded,   *)
(* in whatever order rows are clicked and removed, the list holds the jobs  *)
(* it should in order and the selection names rows of it; a job shows the   *)
(* picture it was given last as long as no other job has named its file and *)
(* no edit, imposition or unpacking missed it, whatever the details page    *)
(* holds meanwhile;                                                         *)
(* and two jobs name one file only if one of them was loaded from JSON      *)
(* (PrintJobModel.cpp:101-141, 224-274, 313-464, JobListView.qml:256-261).  *)
THEOREM JobsKeepPictures == Spec => []JobsKeepTheirPictures
<1>1. DeskInv => JobsKeepTheirPictures
  BY JobsHold DEF DeskInv
<1> QED
  BY <1>1, DeskInvariance, PTL
====
