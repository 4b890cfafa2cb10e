\* One target of a one-file repository, three passes and a worker that calls
\* anything: the scopes of the passes and what a verdict of success rests on.
SPECIFICATION Spec
CONSTANTS
    NTargets = 1
    Files <- OneFile
    MaxPasses = 3
    Mode = "audit"
    Flags <- Either
    MaxCrashes = 0
    MaxFaults = 0
INVARIANTS
    TypeOK
    ExactDeltaScopes
    SuccessIsProven
CHECK_DEADLOCK FALSE
