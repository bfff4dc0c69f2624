SPECIFICATION SysSpec
CONSTANTS
    Conns = {k1, k2}
    Uploads = {u1}
    NoUpload = NoUpload
    Chunks = 1
    PlaneLines = 1
    EventStride = 1
    InProcess = FALSE
    Legacy = FALSE
    MaxCrashes = 0
    Clients = {c1}
    NoConn = NoConn
    MaxTimeouts = 0
    MaxClicks = 1
    MaxForeign = 0
SYMMETRY SystemSymmetry
INVARIANTS
    CanceledNotPrinted
CHECK_DEADLOCK FALSE
