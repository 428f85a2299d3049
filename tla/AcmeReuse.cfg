\* Authorizations carried from order to order, two accounts, while the clock runs.
CONSTANTS
    Accounts = {a1, a2}
    Identifiers = {i1}
    OtherNames = {}
    Orders = {o1, o2, o3}
    Certificates = {}
    ChallengeTypes = {"http-01"}
    Requests = {r1}
    AuthzLifetime = 1
    MaxTime = 1
    None = None
SYMMETRY Symmetric
SPECIFICATION Spec
INVARIANTS
    AuthorizationBackedByProof
PROPERTIES
    ReuseIsFresh
CHECK_DEADLOCK FALSE
