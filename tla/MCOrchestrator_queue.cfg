\* Two targets, one death of the process and one failed save anywhere: order,
\* verdicts, restarts and the end of a queue.  The scopes are empty here.
SPECIFICATION FairSpec
CONSTANTS
    NTargets = 2
    Files <- NoFile
    MaxPasses = 1
    Mode = "audit"
    Flags <- Always
    MaxCrashes = 1
    MaxFaults = 1
INVARIANTS
    OneTargetInOrder
    ReturnMatchesReceipt
PROPERTIES
    VerdictIsFinal
    EvidenceIsNeverLost
    ImplementsQueue
    QueueSettles
CHECK_DEADLOCK FALSE
