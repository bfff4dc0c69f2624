SPECIFICATION FairSpec
CONSTANTS
    Builds = {TRUE, FALSE}
    MaxPrinters = 2
    Lines = 1
    MaxOffset = 1
    MaxHeight = 1
    MaxCrashes = 1
INVARIANTS
    TypeOK
    ViewIsTrue
    StartsAtItsOwnOrigin
    RemembersItsSession
PROPERTIES
    PrintedLeavesNoOffset
    FollowsVendorSequence
    OperationsEnd
