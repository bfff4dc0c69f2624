SPECIFICATION FairSysSpec
CONSTANTS
    Conns = {k1, k2}
    Uploads = {u1}
    NoUpload = NoUpload
    Chunks = 1
    PlaneLines = 1
    EventStride = 1
    InProcess = FALSE
    Legacy = TRUE
    MaxCrashes = 0
    Clients = {c1}
    NoConn = NoConn
    MaxTimeouts = 1
    MaxClicks = 1
    MaxForeign = 1
INVARIANTS
    NothingLeftBehind
PROPERTIES
    SubmissionsEnd
    ClicksReturn
CHECK_DEADLOCK FALSE
