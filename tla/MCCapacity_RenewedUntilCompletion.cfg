\* Three calls, one failed update: RenewedUntilCompletion is refuted.
SPECIFICATION Spec
CONSTANTS
    p = p
    q = q
    r = r
    free = free
    here = here
    there = there
    Procs <- Apps
    Calls <- Apps
    Allowances <- Ledgers
    Owner <- Owners
    AllowanceOf <- OneLedger
    Host <- Hosts
    Limit <- OneAtATime
    LeaseTTL = 2
    RenewEvery = 1
    WaiterStale = 1
    PollEvery = 1
    MaxLag = 0
    Cooldowns <- Nobody
    Sleepers <- Nobody
    Mortals <- Nobody
    MaxFaults = 1
INVARIANTS
    RenewedUntilCompletion
CHECK_DEADLOCK FALSE
