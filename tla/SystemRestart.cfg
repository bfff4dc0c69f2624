SPECIFICATION SysSpec
CONSTANTS
    Conns = {k1, k2, k3}
    Uploads = {u1}
    NoUpload = NoUpload
    Chunks = 1
    PlaneLines = 1
    EventStride = 1
    InProcess = FALSE
    Legacy = TRUE
    MaxCrashes = 1
    Clients = {c1}
    NoConn = NoConn
    MaxTimeouts = 1
    MaxClicks = 0
    MaxForeign = 1
SYMMETRY SystemSymmetry
INVARIANTS
    OneSdkOwner
CHECK_DEADLOCK FALSE
