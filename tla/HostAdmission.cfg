CONSTANTS
  h2 = h2
  Hosts = {h1, h2}
  Signers = {s1}
  k1 = k1
  k2 = k2
  k3 = k3
  Keys = {k1, k2, k3}
  p1 = p1
  p2 = p2
  d1 = d1
  Dispatches = {d1}
  Presentations = {p1, p2}
  Named <- OneDispatch
  c1 = c1
  c2 = c2
  Calls = {c1, c2}
  MayLapse <- Deadline
  MaxRows = 2
  None = None
SPECIFICATION CornerSpec
SYMMETRY Alike
CHECK_DEADLOCK FALSE
INVARIANTS PolicyBindsConsumedHost AnswersAreTrue
PROPERTIES ConsumedOnStanding HistoriesAreRegisters
