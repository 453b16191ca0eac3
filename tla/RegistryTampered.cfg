CONSTANTS
  Subjects = {host1, signer}
  Hosts = {host1}
  Fingerprints = {f1, f2, f3}
  CommitsRefused = TRUE
  MaxRawWrites = 2
  MaxSigned = 1
  None = None
SPECIFICATION EnrolmentSpec
CHECK_DEADLOCK FALSE
SYMMETRY Symmetric
INVARIANTS ResolutionIsTruth AnswersWereUndisputed AdmissionsAgree
PROPERTIES SuccessionStaysWithin
