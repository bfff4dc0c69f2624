-------------------------- MODULE MCPrinterService --------------------------
(* Small instances of PrinterServiceServer for TLC.                        *)
EXTENDS PrinterServiceDelivery, TLC

\* Connections and uploads are interchangeable: only equality is asked of them.
Symmetry == Permutations(Conns) \cup Permutations(Uploads)

=============================================================================
