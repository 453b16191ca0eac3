--------------------------- MODULE MCLockDiscipline ---------------------------
(***************************************************************************)
(* Two targets, each with a credential, a plan, a rollout and a ledger row.*)
(***************************************************************************)
EXTENDS LockDiscipline, TLC

CONSTANTS t1, t2, c1, c2, p1, p2, r1, r2, l1, l2

TargetOfCredential == (c1 :> t1) @@ (c2 :> t2)
TargetOfPlan == (p1 :> t1) @@ (p2 :> t2)
PlanOfRollout == (r1 :> p1) @@ (r2 :> p2)
PlanOfLedger == (l1 :> p1) @@ (l2 :> p2)

Symmetric == Permutations(Sessions) \cup Permutations(Commands)
===============================================================================
