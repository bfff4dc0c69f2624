SPECIFICATION Spec
CONSTANTS
    Conns = {k1, k2}
    Uploads = {u1}
    NoUpload = NoUpload
    Chunks = 1
    PlaneLines = 2
    EventStride = 2
    InProcess = TRUE
    Legacy = TRUE
    MaxCrashes = 0
PROPERTIES
    VendorCallsSerialized
