--------------------------- MODULE MCRolloutControl ---------------------------
(***************************************************************************)
(* Small instances of RolloutControl.  Rollout references and plan ids are *)
(* interchangeable names: no action tells two of them apart.               *)
(***************************************************************************)
EXTENDS RolloutControl, TLC

Names == Permutations(Plans) \cup Permutations(Rollouts) \cup Permutations(Targets) \cup Permutations(Executions)
=============================================================================
