----------------------- MODULE PrinterServiceDelivery -----------------------
(* The printer service keeps the promise of RasterDelivery: the refinement  *)
(* mapping from its table, its call stack and its history.                 *)
EXTENDS PrinterServiceServer

PhaseOf(u) ==
    IF u \in table THEN "receiving"
    ELSE IF Printing(u) THEN "printing"
    ELSE IF outcome[u] /= "none" THEN outcome[u]
    ELSE IF u \in minted THEN "dropped" ELSE "unborn"

ContentOf(u) == IF u \in table \/ Printing(u) THEN body[u] ELSE <<>>

Delivery == INSTANCE RasterDelivery WITH
    phase <- [u \in Uploads |-> PhaseOf(u)],
    content <- [u \in Uploads |-> ContentOf(u)]

\* Why the mapping is one: what a job ended with is recorded for ids that were drawn
\* and that are neither in the table nor printing, so no phase is ever left behind.
EndedInv ==
    \A u \in Uploads : outcome[u] /= "none" =>
        u \in minted /\ u \notin table /\ ~Printing(u)

\* Every behaviour of the service is one of RasterDelivery: no upload is printed
\* in part, beside another, twice, or after it was dropped or answered for.
DeliversRasters == Delivery!Spec

=============================================================================
