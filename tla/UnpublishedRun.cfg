CONSTANTS
    Versions = {1}
    Releases = {r1, r2}
    Verifications = {v1}
    Builds = {b1}
    MaxCommits = 2
    None = None
    w1 = w1
    w2 = w2
    w3 = w3
    Writers <- MCWriters
    Keys <- MCKeys
    ControllerOf <- MCControllerOf
    Mixes <- MCReleasesOnly
SPECIFICATION OperationSpec
CHECK_DEADLOCK FALSE
INVARIANTS VerifiedRunPublishedIt
