\* Two retries, no fault, and a run that ends while the other retry, which has
\* searched the history before, has not claimed yet: AtMostOneRun is refuted.
SPECIFICATION Spec
CONSTANTS
    a = a
    b = b
    s = s
    Dispatchers <- Retries
    Pollers <- OnePoller
    MaxClaims = 2
    MaxTakeovers = 0
    MaxFaults = 0
INVARIANTS
    AtMostOneRun
CHECK_DEADLOCK FALSE
