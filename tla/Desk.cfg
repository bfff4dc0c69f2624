SPECIFICATION Spec
CONSTANTS
    Artworks = {a, b}
    MaxEdits = 2
    MaxImposed = 1
    Sources = {1, 2}
    Pdfs = {2}
    BaseNames = {x}
    MaxTime = 4
    MaxJobs = 2
    Modes = {5, 8}
    Names = {"X-33", "X-36NC"}
    Paths = {"", "p"}
    Numbers <- MCNumbers
    MaxChanges = 3
INVARIANTS
    UndoStaysInThePicture
    JobsKeepTheirPictures
    SettingsComeBack
CHECK_DEADLOCK FALSE
