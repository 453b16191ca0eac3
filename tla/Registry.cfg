CONSTANTS
  Subjects = {host1, host2}
  Hosts = {host1, host2}
  Fingerprints = {f1, f2, f3, f4}
  CommitsRefused = FALSE
  MaxRawWrites = 0
  MaxSigned = 4
  None = None
SPECIFICATION EnrolmentSpec
CHECK_DEADLOCK FALSE
SYMMETRY Symmetric
INVARIANTS EnrolmentsAgree
PROPERTIES KeepsOneRoot
