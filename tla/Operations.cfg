CONSTANTS
    Versions = {1, 2}
    Releases = {r1, r2}
    Verifications = {v1, v2}
    Builds = {b1, b2}
    MaxCommits = 3
    None = None
    w1 = w1
    w2 = w2
    w3 = w3
    Writers <- MCWriters
    Keys <- MCKeys
    ControllerOf <- MCControllerOf
    Mixes <- MCMixes
SYMMETRY Interchangeable
SPECIFICATION OperationSpec
CHECK_DEADLOCK FALSE
INVARIANTS ReleasesAreTrue SchemaHolds
PROPERTY EvidenceKept
