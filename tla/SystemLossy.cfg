SPECIFICATION SysSpec
CONSTANTS
    Conns = {k1, k2, k3}
    Uploads = {u1, u2}
    NoUpload = NoUpload
    Chunks = 1
    PlaneLines = 1
    EventStride = 1
    InProcess = FALSE
    Legacy = FALSE
    MaxCrashes = 1
    Clients = {c1, c2}
    NoConn = NoConn
    MaxTimeouts = 1
    MaxClicks = 1
    MaxForeign = 0
SYMMETRY SystemSymmetry
INVARIANTS
    SysTypeOK
    SuccessMeansPrinted
    FailureIsFinal
CHECK_DEADLOCK FALSE
