\* Two retries that both take over the claim of a killed invocation, and no run
\* that ends early: the slower one deletes the claim under which the faster one
\* has dispatched, and dispatches the request again.
SPECIFICATION Spec
CONSTANTS
    a = a
    b = b
    s = s
    Dispatchers <- Retries
    Pollers <- Nobody
    MaxClaims = 3
    MaxTakeovers = 2
    MaxFaults = 1
INVARIANTS
    AtMostOneRun
CHECK_DEADLOCK FALSE
