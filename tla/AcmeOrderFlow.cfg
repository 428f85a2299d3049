\* The order life cycle that models/acme_models.py documents.
CONSTANTS
    Accounts = {a1}
    Identifiers = {i1}
    OtherNames = {n1}
    Orders = {o1}
    Certificates = {1}
    ChallengeTypes = {"http-01"}
    Requests = {r1, r2}
    AuthzLifetime = 1
    MaxTime = 0
    None = None
SPECIFICATION FairSpec
PROPERTY
    OrderStatusFlow
CHECK_DEADLOCK FALSE
