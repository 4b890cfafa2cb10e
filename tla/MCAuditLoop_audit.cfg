\* Two files in batches of one, so that the repair of one batch can reach into a
\* file another batch has reviewed; two passes and one restart.  States that differ
\* only in the numbers standing for bytes count as one.
SPECIFICATION Spec
CONSTANTS
    NumFiles = 2
    Ungated = {2}
    BatchSize = 1
    CycleCap = 2
    MaxFixAttempts = 1
    ZeroBatches = 2
    LastRound = 3
    MaxRestarts = 1
VIEW UpToNumbers
INVARIANTS
    TypeOK
    ConvergedMeansReviewed
    DeltaScopeCoversChanges
CHECK_DEADLOCK FALSE
