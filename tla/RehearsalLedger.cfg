CONSTANTS
  t1 = t1
  t2 = t2
  p1 = p1
  p2 = p2
  l1 = l1
  l2 = l2
  k1 = k1
  m2 = m2
  g1 = g1
  Ids = {i1, i2}
  Grants = {g1}
  Commands = {m1, m2}
  Plans = {p1, p2}
  Targets = {t1, t2}
  TargetOf <- PlanTarget
  Leases = {l1, l2}
  Controllers = {k1}
  Evidence <- Presented
  Lifetime = 3
  Ttl = 2
  MaxClock = 2
  Calls = {c1, c2}
  None = None
SPECIFICATION CornerSpec
SYMMETRY Alike
CHECK_DEADLOCK FALSE
INVARIANTS OnePresentationOneUse ValidWasTrue
PROPERTIES SpentOnStandingTerms KeepsAuthority
