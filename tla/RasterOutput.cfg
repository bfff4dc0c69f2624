SPECIFICATION Spec
CONSTANTS
    Runs = {r1, r2}
    MaxTone = 15
    Pixels <- MCPixels
    Thresholds = {1}
    Densities = {15}
    Alphas = {5, 15}
    Gcrs <- MCGcrs
    Windows <- MCWindows
    Curves <- MCCurves
    Plates = {"none", "A", "B"}
    IntMax = 127
    WordMax = 65535
    HeaderBytes = 16
    Channels = {0, 1}
    Config <- MCConfig
    Promo <- MCPromo
    Draw <- MCDraw
    Patterns <- MCPatterns
    Width = 5
    Height = 5
    Requests <- MCRequests
    MaxCrashes = 1
INVARIANTS
    StreamMatchesFrame
    PublishedIsComplete
    TonesConserveInk
    EveryPlaneIsItsInk
    OwnPicture
    NothingLeftInScratch
    CancelHonoured
CHECK_DEADLOCK FALSE
