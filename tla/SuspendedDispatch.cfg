SPECIFICATION Spec
CONSTANTS
  Targets = {t1}
  Plans = {p1}
  Descriptors = {d1}
  Executions = {e1}
  Policies = {c1}
  ProposedPurposes = {"foundation_execution"}
  ProposedOperations = {"deploy"}
  ApprovalModes = {TRUE}
  MaxRevision = 1
  None = None
  Rollouts = {r1}
  ReportedOutcomes = {"failed"}
  MaxAttempts = 1
SYMMETRY Names
CHECK_DEADLOCK FALSE
PROPERTIES
  NoAttemptOnExcludedTarget
