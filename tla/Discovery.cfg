\* Overlapping scans of one endpoint whose certificate changes.
CONSTANTS
    Profiles = {}
    Endpoints = {e1}
    Fingerprints = {f1, f2}
    Scans = {x1, x2}
    MaxScans = 2
    Interval = 1
    CacheTtl = 1
    MaxTime = 2
    None = None
SYMMETRY Symmetric
SPECIFICATION Spec
INVARIANTS
    LastSeenBacked
CHECK_DEADLOCK FALSE
