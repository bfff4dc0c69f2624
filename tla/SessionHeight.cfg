SPECIFICATION Spec
CONSTANTS
    Builds = {TRUE, FALSE}
    MaxPrinters = 1
    Lines = 1
    MaxOffset = 0
    MaxHeight = 1
    MaxCrashes = 0
PROPERTIES
    NoStartWhileTableMoves
