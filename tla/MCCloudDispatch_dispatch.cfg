\* Two retries of dispatch and one status poll at a time, three claims, two
\* takeovers, and two faults anywhere.  Nothing is promised once a race has been
\* lost (Undisturbed), so the run does not go on from there.
SPECIFICATION FairSpec
CONSTANTS
    a = a
    b = b
    s = s
    Dispatchers <- Retries
    Pollers <- OnePoller
    MaxClaims = 3
    MaxTakeovers = 2
    MaxFaults = 2
CONSTRAINT Undisturbed
INVARIANTS
    TypeOK
    OneRunUnlessRaced
    OwnerKeepsUnlessRaced
    NothingLeftBehind
    ActiveRunKeepsItsMailbox
PROPERTIES
    AcceptedRunIsRecovered
    CompletedRunIsCleanedUp
CHECK_DEADLOCK FALSE
