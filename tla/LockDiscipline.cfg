\* Two transactions over two targets whose hosts and signers may be shared.
SPECIFICATION Spec
CONSTANTS
  Sessions = {s1, s2}
  Commands = {k1, k2}
  t1 = t1 t2 = t2 c1 = c1 c2 = c2 p1 = p1 p2 = p2
  r1 = r1 r2 = r2 l1 = l1 l2 = l2
  Targets = {t1, t2}
  Credentials = {c1, c2}
  Plans = {p1, p2}
  Rollouts = {r1, r2}
  Ledger = {l1, l2}
  Signers = {g1}
  Hosts = {h1, h2}
  CredentialTarget <- TargetOfCredential
  PlanTarget <- TargetOfPlan
  RolloutPlan <- PlanOfRollout
  LedgerPlan <- PlanOfLedger
INVARIANT NoCircularWait
PROPERTY EveryCommandEnds
