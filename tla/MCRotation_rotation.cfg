\* Two threads that author, review and ask at the same time, on three routes in two pools;
\* failures of route b1; a lock file of a dead process, and any that grows old.
SPECIFICATION Spec
CONSTANTS
    Workers = {v, w}
    v = v
    w = w
    Routes = {a1, b1, b2}
    Pools = {a, b}
    Families = {x, y}
    a = a
    b = b
    a1 = a1
    b1 = b1
    b2 = b2
    x = x
    y = y
    PoolOf <- PoolOfRoute
    FamilyOf <- FamilyOfRoute
    Coolable = {b1}
    None = None
SYMMETRY AnyThread
CONSTRAINT UntilBroken
INVARIANTS
    TypeOK
    ReviewerIsIndependent
PROPERTIES
    NoLostUpdate
    NextCallLandsElsewhere
CHECK_DEADLOCK FALSE
