---- MODULE Desk ----
(***************************************************************************)
(* What the user works with between two prints, for TLC: the image editor, *)
(* the job list and the settings file.  The three share no state here, so  *)
(* a behaviour exercises one of them and the others stay off.              *)
(***************************************************************************)
EXTENDS ImageEditor, PrintJobModel, ColorManagement

EditorOff ==
    /\ image = Blank /\ loaded = FALSE /\ undo = <<>> /\ redo = <<>>
    /\ files = << >> /\ path = << >> /\ page = "off"
    /\ open = CHOOSE j \in Artworks : TRUE
    /\ held = 0
    /\ dirty = FALSE /\ drawn = FALSE /\ made = 0 /\ stray = FALSE /\ spoiled = {}
JobsOff == PInit
SettingsOff ==
    /\ file = Absent /\ settings = Defaults /\ phase = "off" /\ lastSaved = Defaults
    /\ fresh = FALSE /\ behind = TRUE /\ changes = 0

VARIABLE part
Init ==
    \/ part = "editor" /\ EInit /\ JobsOff /\ SettingsOff
    \/ part = "jobs" /\ PInit /\ EditorOff /\ SettingsOff
    \/ part = "settings" /\ CInit /\ EditorOff /\ JobsOff

Next ==
    /\ UNCHANGED part
    /\ \/ part = "editor" /\ ENext /\ UNCHANGED <<pvars, cvars>>
       \/ part = "jobs" /\ PNext /\ UNCHANGED <<evars, cvars>>
       \/ part = "settings" /\ CNext /\ UNCHANGED <<evars, pvars>>

Spec == Init /\ [][Next]_<<part, evars, pvars, cvars>>

(* Below and above the range of the small numbers; both below the voltage. *)
MCNumbers == {-1, 300}
====
