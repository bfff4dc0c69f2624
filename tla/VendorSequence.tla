--------------------------- MODULE VendorSequence ---------------------------
(***************************************************************************)
(* The order of calls the vendor's print library asks of its one user:     *)
(* search, select, connect; then, per job, InitPrinter, StartPrint, lines, *)
(* EndPrint, ClosePrint.  The print origin never changes under a running   *)
(* job, and on the strict build nothing at all comes between InitPrinter   *)
(* and StartPrint.                                                         *)
(***************************************************************************)
CONSTANTS
    Printers,   \* what a search can find
    NoPrinter,
    Origins     \* values of the persistent print origin

VARIABLES
    strict,     \* the aarch64 library
    chosen,     \* the printer selected since the last search
    session,    \* the printer a control session was opened to
    job,        \* how far the open job is
    origin      \* the print origin the controller keeps

sequenceVars == <<strict, chosen, session, job, origin>>

Init ==
    /\ strict \in BOOLEAN
    /\ chosen = NoPrinter /\ session = NoPrinter
    /\ job = "none"
    /\ origin \in Origins

Search ==
    /\ job = "none"
    /\ chosen' = NoPrinter
    /\ UNCHANGED <<strict, session, job, origin>>

Select ==
    /\ job = "none"
    /\ chosen' \in Printers
    /\ UNCHANGED <<strict, session, job, origin>>

\* A connection that fails may also cost the session there was.
Connect ==
    /\ job = "none" /\ chosen /= NoPrinter
    /\ session' \in {chosen, NoPrinter}
    /\ UNCHANGED <<strict, chosen, job, origin>>

SetOrigin ==
    /\ job = "none" \/ (job = "inited" /\ ~strict)
    /\ origin' \in Origins
    /\ UNCHANGED <<strict, chosen, session, job>>

InitPrinter ==
    /\ job = "none"
    /\ chosen /= NoPrinter /\ session = chosen
    /\ job' = "inited"
    /\ UNCHANGED <<strict, chosen, session, origin>>

StartPrint ==
    /\ job = "inited"
    /\ job' \in {"started", "none"}
    /\ UNCHANGED <<strict, chosen, session, origin>>

EndPrint ==
    /\ job = "started"
    /\ job' = "ended"
    /\ UNCHANGED <<strict, chosen, session, origin>>

ClosePrint ==
    /\ job \in {"started", "ended"}
    /\ job' = "none"
    /\ UNCHANGED <<strict, chosen, session, origin>>

\* The library is unloaded, or its process ends.
Leave ==
    /\ chosen' = NoPrinter /\ session' = NoPrinter /\ job' = "none"
    /\ UNCHANGED <<strict, origin>>

Next ==
    \/ Search \/ Select \/ Connect \/ SetOrigin
    \/ InitPrinter \/ StartPrint \/ EndPrint \/ ClosePrint
    \/ Leave

Spec == Init /\ [][Next]_sequenceVars

=============================================================================
