\* Three calls on one allowance with limit 1, account cooldowns, one process that
\* may be killed on another host and one that may be suspended; updates succeed.
SPECIFICATION FairSpec
CONSTANTS
    p = p
    q = q
    r = r
    free = free
    here = here
    there = there
    Procs <- Apps
    Calls <- Apps
    Allowances <- Ledgers
    Owner <- Owners
    AllowanceOf <- OneLedger
    Host <- Hosts
    Limit <- OneAtATime
    LeaseTTL = 2
    RenewEvery = 1
    WaiterStale = 1
    PollEvery = 1
    MaxLag = 0
    Cooldowns <- Pauses
    Sleepers <- OnlyP
    Mortals <- OnlyR
    MaxFaults = 0
PROPERTIES
    CooldownHolds
    WaiterIsServed
CHECK_DEADLOCK FALSE
