-------------------------- MODULE MCPrinterSystem --------------------------
(* Small instances of PrinterServiceSystem for TLC.                        *)
EXTENDS PrinterServiceSystem, TLC

\* Connections, clients and uploads are interchangeable.
SystemSymmetry == Permutations(Conns) \cup Permutations(Clients) \cup Permutations(Uploads)

=============================================================================
