--------------------------- MODULE RasterDelivery ---------------------------
(***************************************************************************)
(* What the printer service promises about a raster upload, without its    *)
(* connections, files, processes and clock: an upload is received chunk by *)
(* chunk, may be dropped at any time before its print ends, is printed     *)
(* whole or not at all, one at a time, and ends once.                      *)
(***************************************************************************)
EXTENDS Naturals, Sequences

CONSTANTS Uploads, Chunks

VARIABLES
    phase,    \* where an upload stands
    content   \* the chunks accepted for it, while it is received or printed

deliveryVars == <<phase, content>>

Ended == {"printed", "canceled", "failed", "dropped"}
Phase == {"unborn", "receiving", "printing"} \cup Ended
Whole == [i \in 1 .. Chunks |-> i]

Init ==
    /\ phase = [u \in Uploads |-> "unborn"]
    /\ content = [u \in Uploads |-> <<>>]

Begin(u) ==
    /\ phase[u] = "unborn"
    /\ phase' = [phase EXCEPT ![u] = "receiving"]
    /\ UNCHANGED content

Take(u, c) ==
    /\ phase[u] = "receiving"
    /\ Len(content[u]) < Chunks
    /\ content' = [content EXCEPT ![u] = Append(@, c)]
    /\ UNCHANGED phase

Start(u) ==
    /\ phase[u] = "receiving"
    /\ content[u] = Whole
    /\ \A v \in Uploads : phase[v] /= "printing"
    /\ phase' = [phase EXCEPT ![u] = "printing"]
    /\ UNCHANGED content

End(u) ==
    /\ phase[u] = "printing"
    /\ \E why \in Ended : phase' = [phase EXCEPT ![u] = why]
    /\ content' = [content EXCEPT ![u] = <<>>]

\* Canceled, refused or expired uploads, or all that a dead process held.
Drop(S) ==
    /\ \A u \in S : phase[u] \in {"receiving", "printing"}
    /\ phase' = [u \in Uploads |-> IF u \in S THEN "dropped" ELSE phase[u]]
    /\ content' = [u \in Uploads |-> IF u \in S THEN <<>> ELSE content[u]]

Next ==
    \/ \E u \in Uploads : \/ Begin(u) \/ Start(u) \/ End(u)
                          \/ \E c \in 0 .. Chunks : Take(u, c)
    \/ \E S \in SUBSET Uploads : Drop(S)

Spec == Init /\ [][Next]_deliveryVars

=============================================================================
