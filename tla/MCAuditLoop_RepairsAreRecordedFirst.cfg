\* One file is enough for a commit in the middle of a repair pass.
SPECIFICATION Spec
CONSTANTS
    NumFiles = 1
    Ungated = {}
    BatchSize = 1
    CycleCap = 2
    MaxFixAttempts = 1
    ZeroBatches = 3
    LastRound = 3
    MaxRestarts = 1
PROPERTIES
    RepairsAreRecordedFirst
CHECK_DEADLOCK FALSE
