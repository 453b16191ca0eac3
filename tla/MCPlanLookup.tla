----------------------------- MODULE MCPlanLookup -----------------------------
(***************************************************************************)
(* Small instances of PlanLookup.  Plan ids, rollout references and        *)
(* execution digests are interchangeable names.                            *)
(***************************************************************************)
EXTENDS PlanLookup, TLC

Names ==
  Permutations(Plans) \cup Permutations(Rollouts) \cup Permutations(Executions)
=============================================================================
