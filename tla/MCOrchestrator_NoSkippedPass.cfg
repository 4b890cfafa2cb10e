\* One target, three passes, no failures: NoSkippedPass is refuted.
SPECIFICATION Spec
CONSTANTS
    NTargets = 1
    Files <- OneFile
    MaxPasses = 3
    Mode = "audit"
    Flags <- Always
    MaxCrashes = 0
    MaxFaults = 0
INVARIANTS
    NoSkippedPass
CHECK_DEADLOCK FALSE
