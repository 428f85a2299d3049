\* The ACME client, SCEP enrollment, the audit log and the expiry mails.
SPECIFICATION SystemSpec
CONSTANTS
  Order = {"o1", "o2"}
  Worker = {w1, w2}
  MaxDisturbances = 2
  Crowded <- MCCrowded
  Hosted <- MCHosted
  LookAlike <- MCLookAlike
  OtherName <- MCOtherName
  Requests <- MCRequests
  Transactions = {1, 2}
  Keys = {k1, k2}
  Certificates = {1, 2, 3}
  Passwords = {p1, p2}
  None = None
  Contents = {x1, x2}
  MaxId = 5
  FirstQuarters = {32, 35, 61}
  AlertDays <- MCAlertDays
  Late = 1
  MaxMailFaults = 4
  MaxNonces = 4
  NonceLife = 1
  MaxTicks = 2
SYMMETRY SystemSymmetry
INVARIANTS
  SystemTypeOK IssuedWithItsKey ZoneKept SuccessMeansPublished
  EnrolledOnce RejectedHasNothing RepliesAreRecorded
  OnlyFirstReportedFalsely WholeLogVerifies ChangesReported
  WarnedInTime NonceOnce
CHECK_DEADLOCK FALSE
