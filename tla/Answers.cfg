CONSTANTS
    Subjects = {s1, s2}
    Components = {c1, c2}
    MaxInstant = 2
    MaxSigned = 1
    None = None
    RecoveryIds = {"g1", "g2"}
    Recoveries <- MCRecoveries
    Windows <- MCWindows
    Inserted <- MCInserted
    MaxGrantClock = 3
    AbsentKey = "absent key"
    RehearsalIds = {"g1"}
    Artifacts = {"w1"}
    Digests = {"d1", "d2"}
    Steps = {"verify", "reticulate"}
    Published = {"verify"}
    Executors = {"x1", "x2"}
    MaxRehearsalClock = 2
    Rollouts <- MCRollouts
    Releases = {"old", "new"}
    Specs = {"a", "b"}
    PlanOf <- MCPlanOf
    MaxDriftClock = 4
    Refs <- MCRefs
    PageSize = 2
    MaxChanges = 3
SYMMETRY Interchangeable
SPECIFICATION AnswersSpec
CHECK_DEADLOCK FALSE
INVARIANTS AcceptedWithinEvidence RecoveryIsEarned RehearsalIsEvidenced FleetIsReported
