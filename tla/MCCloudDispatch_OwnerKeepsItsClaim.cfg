\* Two retries that both take over the claim of a killed invocation:
\* OwnerKeepsItsClaim is refuted.
SPECIFICATION Spec
CONSTANTS
    a = a
    b = b
    s = s
    Dispatchers <- Retries
    Pollers <- Nobody
    MaxClaims = 3
    MaxTakeovers = 2
    MaxFaults = 1
INVARIANTS
    OwnerKeepsItsClaim
CHECK_DEADLOCK FALSE
