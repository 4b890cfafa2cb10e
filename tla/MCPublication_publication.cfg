\* Two runs: the second finds the commits, branches and requests of the first.
SPECIFICATION Spec
CONSTANTS
    MaxRuns = 2
INVARIANTS
    TypeOK
    CompleteMeansLanded
PROPERTIES
    PublishedIsVerified
CHECK_DEADLOCK FALSE
