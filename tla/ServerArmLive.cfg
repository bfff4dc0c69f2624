SPECIFICATION FairSpec
CONSTANTS
    Conns = {k1, k2}
    Uploads = {u1}
    NoUpload = NoUpload
    Chunks = 1
    PlaneLines = 1
    EventStride = 1
    InProcess = TRUE
    Legacy = FALSE
    MaxCrashes = 0
PROPERTIES
    UploadsEnd
    RequestsAreAnswered
    VendorCallsSerialized
