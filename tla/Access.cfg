SPECIFICATION AccessSpec
CONSTANTS
  w1 = w1
  w2 = w2
  u1 = u1
  u2 = u2
  Worker = {w1, w2}
  MaxAttempts = 2
  LockoutTime = 1
  Horizon = 4
  Session = {s1}
  Challenge = {1, 2}
  ChallengeLife = 1
  SessionTimeout = 1
  SessionMaxLifetime = 2
  MaxCounter = 3
  Mixes <- MCMixes
  SsoKinds <- MCSsoKinds
  Settings <- MCSettings
  MaxStates = 1
  MaxProviderId = 2
  User = {u1, u2}
  Owner = u1
  CustomRole = {r1}
  Group = {g1}
  KeyId = {1, 2, 3}
  MaxKeys = 1
  Cert = {c1}
  Person = {adm, bob}
  Admin = {adm}
  Operator = {bob}
  OddSerial = {c1}
  MaxRowId = 2
  MaxRevocations = 1
  Path = {p1, p2}
  Limits <- MCLimits
  DefaultLimit <- MCDefaultLimit
  Window = 4
  MaxIdle = 6
INVARIANTS AccessTypeOK GuessesBounded ProofsTaken TablesConsistent EnrolmentsSound RateLimitKept
PROPERTY AccessKept
SYMMETRY AccessSymmetry
CHECK_DEADLOCK FALSE
