\* Two orders of two names: races of challenges and finalizations, certificates
\* that are signed with further names, renewed, deleted and replaced.
CONSTANTS
    Accounts = {a1}
    Identifiers = {i1, i2}
    OtherNames = {n1}
    Orders = {o1, o2}
    Certificates = {1}
    ChallengeTypes = {"http-01"}
    Requests = {r1, r2}
    AuthzLifetime = 1
    MaxTime = 0
    None = None
SYMMETRY Symmetric
SPECIFICATION Spec
INVARIANTS
    OrderMatchesAuthorizations
    DownloadsOwnCertificate
PROPERTIES
    ImplementsPolicy
CHECK_DEADLOCK FALSE
