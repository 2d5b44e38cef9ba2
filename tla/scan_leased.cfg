SPECIFICATION Spec
CONSTANTS
  a1 = a1
  a2 = a2
  u1 = u1
  d1 = d1
  d2 = d2
  None = None
  Attempt = {a1, a2}
  Unleased = {}
  Doc = {d1, d2}
  LeaseDuration = 1
  MaxDelay = 0
  Keep = 1
  CleanupMayFail = FALSE
SYMMETRY Symmetric
INVARIANT TypeOK
INVARIANT RunningScanIsRecoverable
INVARIANT CompletedScansAreWhole
PROPERTY ExpiredLeaseStaysDead
PROPERTY WritesAreFenced
PROPERTY ReleaseRecordsOwnScan
PROPERTY LedgerSpec
