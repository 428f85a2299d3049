\* What the user guide says of a revocation.
CONSTANTS
    Rows = {x1}
    Serials = {s1}
    Requests = {q1}
    MaxCrls = 2
    MaxTime = 3
    None = None
SPECIFICATION FairSpec
INVARIANT
    AddedToCrl
CHECK_DEADLOCK FALSE
