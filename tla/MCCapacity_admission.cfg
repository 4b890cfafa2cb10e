\* Three calls on one allowance with limit 1, clock readings that lag, a process
\* that is suspended or killed, and one failed update or unreadable file.
SPECIFICATION Spec
CONSTANTS
    p = p
    q = q
    r = r
    free = free
    here = here
    there = there
    Procs <- Apps
    Calls <- Apps
    Allowances <- Ledgers
    Owner <- Owners
    AllowanceOf <- OneLedger
    Host <- Hosts
    Limit <- OneAtATime
    LeaseTTL = 4
    RenewEvery = 1
    WaiterStale = 3
    PollEvery = 1
    MaxLag = 1
    Cooldowns <- Nobody
    Sleepers <- OnlyP
    Mortals <- OnlyP
    MaxFaults = 1
INVARIANTS
    TypeOK
    LeasesWithinLimit
    CallsWithinLimit
PROPERTIES
    NoOvertaking
    NoLeaseAfterRelease
CHECK_DEADLOCK FALSE
