---- MODULE ColorManagement ----
(***************************************************************************)
(* The settings file (core/ColorManagementManager.cpp): what the pages     *)
(* set, what each setter normalises and which of them save at once, the    *)
(* write of the whole file, and what a restart makes of the file it finds. *)
(* The file is truncated and then written, so a crash or a full disk       *)
(* leaves a torn one.                                                      *)
(*                                                                         *)
(* A profile or curve is a path, "" for none.  Of the many numbers, one of *)
(* each kind stands for its kind: a dot threshold, a floor, the feathering *)
(* grade, the head voltage, and of a mode's parameters the white mode and  *)
(* the white density.                                                      *)
(***************************************************************************)
EXTENDS Integers

CONSTANTS Names,       \* printer names as a page or an old file writes them
          Paths,       \* what may be chosen as profile or curve, with ""
          Numbers,     \* the numbers typed in
          Modes,       \* the ink modes in use
          MaxChanges   \* gestures of the user in one behaviour

VARIABLES
    settings,   \* the manager's members
    file,       \* color_management.json: [state, held]
    phase,      \* "running", "writing", "down"
    lastSaved,  \* the settings of the last complete save
    fresh,      \* nothing was changed since the start
    behind,     \* a reset or a failed write is not on disk yet
    changes

cvars == <<settings, file, phase, lastSaved, fresh, behind, changes>>

SupportedInkModes == {4, 5, 6, 7, 8, 10}
ASSUME ModesAssumption == Modes \subseteq SupportedInkModes
ASSUME NumbersAssumption == Numbers \subseteq Int

Kinds == {"profile", "curve"}
Between(lo, hi, v) == IF v < lo THEN lo ELSE IF v > hi THEN hi ELSE v

(* normalizedPrinterName(): three spellings are one printer.  *)
NormalizedPrinterName(name) ==
    IF name \in {"X-36NC", "X-36NC (Photo Printer)"} THEN "X-36 Studio" ELSE name
Printers == {NormalizedPrinterName(n) : n \in Names}

FamilyKeyForInkMode(mode) ==
    CASE mode \in {4, 5} -> "A" [] mode \in {6, 7} -> "B" [] mode \in {8, 10} -> "C"
Families == {FamilyKeyForInkMode(m) : m \in Modes}

(* normalizedDirectPrintSettings(): grade 0, the old "off", becomes 2.     *)
NormalizedDirect(d) ==
    [grade |-> IF d.grade <= 0 THEN 2 ELSE Between(1, 3, d.grade),
     voltage |-> Between(400, 600, d.voltage)]
DefaultDirect == [grade |-> 2, voltage |-> 512]

(* clampMapU8()  *)
ClampParams(m) ==
    [whiteMode |-> Between(0, 3, m.whiteMode), density |-> Between(0, 255, m.density)]
DefaultParams(mode) ==
    [whiteMode |-> IF mode \in {5, 7, 10} THEN 1 ELSE 0, density |-> 255]
(* Given keys over the defaults, then clamped.  *)
Merged(mode, m) ==
    ClampParams([k \in {"whiteMode", "density"} |->
        IF k \in DOMAIN m THEN m[k] ELSE DefaultParams(mode)[k]])

NoPaths == [k \in Kinds |-> [f \in Families |-> ""]]
Defaults ==
    [printer |-> "X-33", input |-> "", threshold |-> 8, floorMax |-> 2, curve |-> "",
     output |-> "prn", direct |-> DefaultDirect, families |-> NoPaths,
     overrides |-> [k \in Kinds |-> [x \in Printers \X Families |-> ""]],
     params |-> [m \in Modes |-> DefaultParams(m)]]

(* What the setters with the page's Save button, and those that save.      *)
Deferred == {"printer", "input", "threshold", "floorMax", "curve"}
Immediate == DOMAIN Defaults \ Deferred

-----------------------------------------------------------------------------
(* save() and load() as functions of the settings and of the file.         *)
StoredWithoutOverrides(s) == [s EXCEPT !.overrides = Defaults.overrides]
Stored(s) ==
    [s EXCEPT !.direct = NormalizedDirect(s.direct),
              !.params = [m \in Modes |-> ClampParams(s.params[m])]]
Loaded(o) ==
    [o EXCEPT !.printer = NormalizedPrinterName(o.printer),
              !.threshold = Between(0, 255, o.threshold),
              !.floorMax = Between(0, 8, o.floorMax),
              !.output = IF o.output = "direct" THEN "direct" ELSE "prn",
              !.direct = NormalizedDirect(o.direct),
              !.params = [m \in Modes |-> Merged(m, o.params[m])]]

(* A file of an earlier version: an old printer name, grade 0, numbers out *)
(* of range and a mode whose parameters lack a key.                        *)
Legacy ==
    [Defaults EXCEPT !.printer = "X-36NC", !.threshold = 300,
                     !.direct = [grade |-> 0, voltage |-> 0],
                     !.params = [m \in Modes |-> [whiteMode |-> 4]]]

Absent == [state |-> "absent", held |-> Defaults]
Torn == [state |-> "torn", held |-> Defaults]
Whole(o) == [state |-> "whole", held |-> o]

(* The constructor: load(), or the defaults if there is nothing to load.   *)
AtStart(f) == IF f.state = "whole" THEN Loaded(f.held) ELSE Defaults

CInit ==
    /\ file \in {Absent, Whole(Legacy)} /\ settings = AtStart(file)
    /\ phase = "running" /\ lastSaved = settings /\ fresh = TRUE
    /\ behind = TRUE /\ changes = 0

-----------------------------------------------------------------------------
Gesture ==
    /\ phase = "running" /\ changes < MaxChanges /\ changes' = changes + 1
    /\ fresh' = FALSE
(* A setter returns early when nothing changes.  *)
Keeps(s) == s # settings /\ settings' = s /\ UNCHANGED <<phase, file, lastSaved, behind>>
(* save() truncates the file; the bytes follow.  It may not open.          *)
Save ==
    \/ phase' = "writing" /\ file' = Torn /\ UNCHANGED <<lastSaved, behind>>
    \/ behind' = TRUE /\ UNCHANGED <<phase, file, lastSaved>>
Saves(s) == s # settings /\ settings' = s /\ Save

SetSelectedPrinter(n) ==
    Gesture /\ Keeps([settings EXCEPT !.printer = NormalizedPrinterName(n)])
SetDefaultInputProfile(p) == Gesture /\ Keeps([settings EXCEPT !.input = p])
SetDotStrategy(v) ==
    /\ Gesture
    /\ \/ Keeps([settings EXCEPT !.threshold = Between(0, 255, v)])
       \/ Keeps([settings EXCEPT !.floorMax = Between(0, 8, v)])
SetLinearizationDataPath(p) == Gesture /\ Keeps([settings EXCEPT !.curve = p])

SetMultiInkOutputMode(mode) == Gesture /\ Saves([settings EXCEPT !.output = mode])
SetDirectPrintSettings(v) ==
    /\ Gesture
    /\ \/ Saves([settings EXCEPT !.direct = NormalizedDirect([@ EXCEPT !.grade = v])])
       \/ Saves([settings EXCEPT !.direct = NormalizedDirect([@ EXCEPT !.voltage = v])])
SetFamilyDefault(k, f, p) ==
    Gesture /\ Saves([settings EXCEPT !.families[k][f] = p])
SetPrinterFamily(k, n, f, p) ==
    Gesture /\ Saves([settings EXCEPT
        !.overrides[k][<<NormalizedPrinterName(n), f>>] = p])
(* setMultiInkParams() saves even what has not changed.  *)
SetMultiInkParams(m, v) ==
    /\ Gesture /\ Save
    /\ \/ settings' = [settings EXCEPT !.params[m] = Merged(m, [@ EXCEPT !.whiteMode = v])]
       \/ settings' = [settings EXCEPT !.params[m] = Merged(m, [@ EXCEPT !.density = v])]

ClickSave == Gesture /\ Save /\ UNCHANGED settings
(* resetToDefaults() changes the members and saves nothing.  *)
ResetToDefaults ==
    /\ Gesture /\ settings' = Defaults /\ behind' = TRUE
    /\ UNCHANGED <<file, phase, lastSaved>>

(* The rest of save(): all the bytes, or fewer.  *)
WriteSettings ==
    /\ phase = "writing" /\ phase' = "running"
    /\ \/ /\ file' = Whole(Stored(settings)) /\ lastSaved' = settings
          /\ behind' = FALSE
       \/ behind' = TRUE /\ UNCHANGED <<file, lastSaved>>
    /\ UNCHANGED <<settings, fresh, changes>>

Quit ==
    /\ phase # "down" /\ phase' = "down"
    /\ UNCHANGED <<settings, file, lastSaved, fresh, behind, changes>>

Start ==
    /\ phase = "down" /\ phase' = "running"
    /\ settings' = AtStart(file) /\ fresh' = TRUE
    /\ behind' = (file.state # "whole")
    /\ UNCHANGED <<file, lastSaved, changes>>

CNext ==
    \/ \E n \in Names : SetSelectedPrinter(n)
    \/ \E p \in Paths : SetDefaultInputProfile(p) \/ SetLinearizationDataPath(p)
    \/ \E v \in Numbers : SetDotStrategy(v) \/ SetDirectPrintSettings(v)
    \/ \E mode \in {"prn", "direct"} : SetMultiInkOutputMode(mode)
    \/ \E k \in Kinds, f \in Families, p \in Paths :
         SetFamilyDefault(k, f, p) \/ \E n \in Names : SetPrinterFamily(k, n, f, p)
    \/ \E m \in Modes, v \in Numbers : SetMultiInkParams(m, v)
    \/ ClickSave \/ ResetToDefaults \/ WriteSettings \/ Quit \/ Start

-----------------------------------------------------------------------------
(* effectiveOutputProfileForPrinterAndInkMode() and the same for curves:   *)
(* the printer's own, the family's, and for curves the old single path.    *)
Effective(s, k, printer, mode) ==
    LET f == FamilyKeyForInkMode(mode)
    IN  IF s.overrides[k][<<printer, f>>] # "" THEN s.overrides[k][<<printer, f>>]
        ELSE IF s.families[k][f] # "" THEN s.families[k][f]
        ELSE IF k = "curve" THEN s.curve ELSE ""

(* After a start the settings in force are those of the last complete save *)
(* to the last value, with the profile and curve every printer and mode    *)
(* resolves to, or all the defaults when the last write was cut short;     *)
(* while the program runs, what a setter saves by itself is on disk unless *)
(* a write failed or the page was reset; and every value stays in its      *)
(* range (ColorManagementManager.cpp:113-235, 905-1144).                   *)
SettingsComeBack ==
    /\ phase = "running" /\ fresh =>
         IF file.state = "whole"
         THEN /\ settings = lastSaved
              /\ \A k \in Kinds, p \in Printers, m \in Modes :
                   Effective(settings, k, p, m) = Effective(lastSaved, k, p, m)
         ELSE settings = Defaults
    /\ phase = "running" /\ ~behind =>
         /\ file.state = "whole"
         /\ \A key \in Immediate : Loaded(file.held)[key] = settings[key]
    /\ settings.threshold \in 0..255 /\ settings.floorMax \in 0..8
    /\ settings.direct.grade \in 1..3 /\ settings.direct.voltage \in 400..600
    /\ \A m \in Modes : settings.params[m].whiteMode \in 0..3
====
