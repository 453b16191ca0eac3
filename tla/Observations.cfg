SPECIFICATION CornerSpec
CONSTANTS
  Targets = {"t1"}
  Keys = {"k1"}
  Commands = {"activate", "retire", "revoke"}
  Reports <- MCReports
  MaxWaiting = 2
  MaxArrivals = 3
  Sequences = {1, 2}
  MaxAttempts = 2
  MaxTime = 2
  Lifetimes = {1, 2}
  None = None
CHECK_DEADLOCK FALSE
INVARIANTS
  HighWaterIsNewestTrusted
  ObservedIsNewestAccepted
  DecidedOnce
  TrustedWithinAuthority
PROPERTIES
  ProjectionOnlyAdvances
  RevocationStopsAdmission
