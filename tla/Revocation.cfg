\* Two rows that are revoked, held, renewed and deleted while CRLs are made.
CONSTANTS
    Rows = {x1, x2}
    Serials = {s1, s2, s3}
    Requests = {q1, q2}
    MaxCrls = 3
    MaxTime = 4
    None = None
SYMMETRY Symmetric
SPECIFICATION Spec
INVARIANTS
    NumbersOrdered
    FullCrlsListRevoked
    DeltaLeavesNoGap
    RevocationPublished
CHECK_DEADLOCK FALSE
