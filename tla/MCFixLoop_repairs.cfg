\* Three files, so that the third one's generation is in flight while a
\* structural attempt for the first rewrites it and a commit may reset the
\* tree; two tries of a broken build, one round of the verifier.
SPECIFICATION FairSpec
CONSTANTS
    NumFiles = 3
    MaxFixTries = 2
    AdversarialRounds = 1
    PrefetchWorkers = 2
    CommitEvery = 2
    StructuralMax = 1
INVARIANTS
    NothingUnjudgedLeftOnDisk
PROPERTIES
    CommitsOnlyAccepted
    CandidateReplacesWhatItSaw
    PassEnds
CHECK_DEADLOCK FALSE
