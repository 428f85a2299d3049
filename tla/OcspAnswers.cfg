\* What the change log says of the OCSP responder.
SPECIFICATION OcspSpec
CONSTANTS
  Issuers = {"ca1"}
  Serials = {1}
  Lifetime = 1
  MaxTime = 2
INVARIANT AnsweredWithStatus
CHECK_DEADLOCK FALSE
