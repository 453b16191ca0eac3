SPECIFICATION Spec
CONSTANTS
  Targets = {t1}
  Plans = {p1}
  Descriptors = {d1}
  Executions = {e1}
  Policies = {c1}
  ProposedPurposes = {"foundation_execution"}
  ProposedOperations = {"deploy"}
  ApprovalModes = {TRUE, FALSE}
  MaxRevision = 1
  None = None
  Rollouts = {r1, r2}
  ReportedOutcomes = {"succeeded", "failed", "cancelled"}
  MaxAttempts = 2
SYMMETRY Names
CHECK_DEADLOCK FALSE
INVARIANTS
  TypeOK
  OneAttemptInFlight
  SuccessIsTheLastSettlement
PROPERTIES
  RevocationCutsOff
  EvidenceIsAppendOnly
  LaunchesAreAuthorized
