SPECIFICATION LookupSpec
CONSTANTS
  Targets = {t1}
  Plans = {p1, p2}
  Descriptors = {d1}
  Executions = {e1, e2}
  Policies = {c1}
  ProposedPurposes = {"foundation_execution", "rehearsal_issuer_operation"}
  ProposedOperations = {"deploy", "recover"}
  ApprovalModes = {TRUE, FALSE}
  MaxRevision = 2
  None = None
  Rollouts = {r1}
  ReportedOutcomes = {"failed"}
  MaxAttempts = 1
SYMMETRY Names
CHECK_DEADLOCK FALSE
INVARIANTS
  RolloutRestsOnItsPlan
  EnvelopeSaysWhatWasFrozen
  LaunchedUnderAnApproval
  OrderedPerTarget
  LookupStands
