\* One file is enough for a refused rollback and the commit of a later phase.
SPECIFICATION FairSpec
CONSTANTS
    NumFiles = 1
    MaxFixTries = 2
    AdversarialRounds = 2
    PrefetchWorkers = 0
    CommitEvery = 2
    StructuralMax = 1
PROPERTIES
    DirtyTreeNeverCommitted
CHECK_DEADLOCK FALSE
