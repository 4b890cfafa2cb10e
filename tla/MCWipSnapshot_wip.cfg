\* Two paths, one of which a failing command may reach and the other not; a second
\* run that meets what the first has left behind.
SPECIFICATION Spec
CONSTANTS
    Paths = {p1, p2}
    MaxRuns = 2
SYMMETRY Symmetry
INVARIANTS
    OwnerWorkSurvives
    OwnerWorkIsNotCommitted
    RestoreKeepsRepairs
CHECK_DEADLOCK FALSE
