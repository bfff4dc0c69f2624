SPECIFICATION Spec
CONSTANTS
    Conns = {k1, k2, k3}
    Uploads = {u1}
    NoUpload = NoUpload
    Chunks = 2
    PlaneLines = 2
    EventStride = 2
    InProcess = TRUE
    Legacy = TRUE
    MaxCrashes = 0
SYMMETRY Symmetry
INVARIANTS
    GateGuardsThePrint
    CancelHitsItsOwnJob
    AbortStopsTheStream
