SPECIFICATION Spec
CONSTANTS
    Conns = {k1, k2}
    Uploads = {u1, u2}
    NoUpload = NoUpload
    Chunks = 1
    PlaneLines = 2
    EventStride = 2
    InProcess = FALSE
    Legacy = TRUE
    MaxCrashes = 1
SYMMETRY Symmetry
INVARIANTS
    TypeOK
    UploadFilesMatchTable
    FinalsArePrintedOrAbandoned
    PrintsOnlyComplete
    GateGuardsThePrint
    SdkExclusive
    CancelHitsItsOwnJob
    AbortStopsTheStream
PROPERTIES
    VendorCallsSerialized
    OutcomeIsFinal
    DeliversRasters
