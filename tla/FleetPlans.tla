------------------------------- MODULE FleetPlans -------------------------------
(***************************************************************************)
(* Deployment targets and the plans frozen for them: the first half of    *)
(* src/dotmac_deployment_control/service.py.                              *)
(*                                                                         *)
(* Every handler takes the target row FOR UPDATE, then the plan row, and   *)
(* commits once, so one handler is one atomic action here.  The optional   *)
(* expected_status and expected_version arguments can only refuse a call;  *)
(* a caller may leave them out, so they are not modelled.  A refused call  *)
(* rolls back and changes nothing: it is a stuttering step.                *)
(*                                                                         *)
(* A digest is an injective value built from what it is computed over.     *)
(***************************************************************************)
EXTENDS Naturals, FiniteSets

CONSTANTS
  Targets,              \* target_ref of every deployment target
  Plans,                \* ids of the plans that can be proposed
  Descriptors,          \* Foundation descriptor digests a proposal may carry
  Executions,           \* Foundation execution-plan digests
  Policies,             \* approval policies, a code together with its version
  ProposedPurposes,     \* the purposes callers propose plans for
  ProposedOperations,   \* the operations callers propose
  ApprovalModes,        \* values of requires_approval callers propose
  MaxRevision,          \* bound on desired_revision
  None                  \* a NULL column

Operations == {"deploy", "rollback", "recover"}
ExecutorOperations == {"deploy", "rollback"}
Purposes == {"foundation_execution", "rehearsal_issuer_operation"}
DecisionStatuses == {"granted", "revoked"}

TargetStatuses == {"registered", "active", "suspended", "decommissioned"}
PlanStatuses == {"draft", "proposed", "approved", "superseded", "cancelled"}

ASSUME NoneIsNoValue ==
  None \notin Operations \cup DecisionStatuses \cup Executions \cup Policies

ASSUME ProposalInputs ==
  /\ ProposedPurposes \subseteq Purposes
  /\ ProposedOperations \subseteq Operations
  /\ ApprovalModes \subseteq BOOLEAN
  /\ MaxRevision \in Nat

VARIABLES
  target,   \* the deployment_targets rows
  plan      \* the deployment_plans rows

planVars == <<target, plan>>

\* What a plan freezes.  The desired content is fixed by the revision number,
\* because set_desired_state increments it on every write.
Snapshots ==
  [purpose: Purposes, target: Targets, revision: Nat, descriptor: Descriptors]

PlanDigest(snapshot) == [algorithm |-> "sha256", over |-> snapshot]

TargetRows == [status: TargetStatuses, revision: Nat]
PlanRows ==
  [status: PlanStatuses, sequence: Nat \ {0}, snapshot: Snapshots,
   operation: Operations, execution: Executions,
   requiresApproval: BOOLEAN, policy: Policies \cup {None},
   authorizedOperation: Operations \cup {None},
   authorizedExecution: Executions \cup {None},
   decision: DecisionStatuses \cup {None}]

\* A target or plan that has not been written yet.
NoTarget == [status |-> "absent", revision |-> 0]
NoPlan == [status |-> "absent"]

PlanTypeOK ==
  /\ target \in [Targets -> TargetRows \cup {NoTarget}]
  /\ plan \in [Plans -> PlanRows \cup {NoPlan}]

Proposed == {p \in Plans : plan[p] # NoPlan}
PlansOf(t) == {p \in Proposed : plan[p].snapshot.target = t}

\* The values max(used) + 1 can take: exactly one, when used is finite.
Following(used) ==
  {s \in {u + 1 : u \in used \cup {0}} : \A u \in used : u < s}

-----------------------------------------------------------------------------
PlanInit ==
  /\ target = [t \in Targets |-> NoTarget]
  /\ plan = [p \in Plans |-> NoPlan]

\* register_target is get-or-create: a second registration changes nothing.
RegisterTarget(t) ==
  /\ target[t] = NoTarget
  /\ target' = [target EXCEPT ![t] = [status |-> "registered", revision |-> 0]]
  /\ UNCHANGED plan

\* set_desired_state refuses a decommissioned target, bumps the revision even
\* when nothing differs, and activates a target that was only registered.  A
\* suspended target takes a new desired state and stays suspended.
SetDesiredState(t) ==
  /\ target[t] # NoTarget
  /\ target[t].status # "decommissioned"
  /\ target[t].revision < MaxRevision
  /\ target' = [target EXCEPT
       ![t] = [status |-> IF @.status = "registered" THEN "active" ELSE @.status,
               revision |-> @.revision + 1]]
  /\ UNCHANGED plan

\* _target_transition, shared by suspend_target and decommission_target.
TargetTransition(t, allowed, to) ==
  /\ target[t].status \in allowed
  /\ target' = [target EXCEPT ![t].status = to]
  /\ UNCHANGED plan

SuspendTarget(t) == TargetTransition(t, {"active"}, "suspended")
DecommissionTarget(t) ==
  TargetTransition(t, {"registered", "active", "suspended"}, "decommissioned")

-----------------------------------------------------------------------------
\* What propose_plan freezes: the target's current desired state, the purpose
\* and the descriptor digest.
SnapshotOf(t, purpose, descriptor) ==
  [purpose |-> purpose, target |-> t, revision |-> target[t].revision,
   descriptor |-> descriptor]

\* uq_plans_digest: no two plans share a digest, whatever their status.
DigestIsUnused(snapshot) ==
  \A p \in Proposed : PlanDigest(plan[p].snapshot) # PlanDigest(snapshot)

\* Faulty variant: only drafts give way to a new proposal.
SupersededDraft(row, t) ==
  row # NoPlan /\ row.snapshot.target = t /\ row.status = "draft"

\* Every other draft or proposed plan of the target is superseded in the same
\* transaction; an approved plan is left standing.
Superseded(row, t) ==
  /\ row # NoPlan
  /\ row.snapshot.target = t
  /\ row.status \in {"draft", "proposed"}

ProposePlan(p, t, purpose, descriptor, operation, execution, needs, policy) ==
  LET snapshot == SnapshotOf(t, purpose, descriptor)
  IN
  /\ plan[p] = NoPlan
  /\ target[t].status = "active"
  /\ needs => policy # None
  /\ DigestIsUnused(snapshot)
  /\ \E s \in Following({plan[q].sequence : q \in PlansOf(t)}) :
       plan' = [q \in Plans |->
         IF q = p
           THEN [status |-> "proposed", sequence |-> s, snapshot |-> snapshot,
                 operation |-> operation, execution |-> execution,
                 requiresApproval |-> needs, policy |-> policy,
                 authorizedOperation |-> None, authorizedExecution |-> None,
                 decision |-> None]
           ELSE IF Superseded(plan[q], t)
                  THEN [plan[q] EXCEPT !.status = "superseded"]
                  ELSE plan[q]]
  /\ UNCHANGED target

\* The approval evidence must name the frozen digest, the policy it was
\* proposed under, and both halves of the execution binding.
EvidenceBinds(row, digest, policy, execution, operation) ==
  /\ digest = PlanDigest(row.snapshot)
  /\ policy = row.policy
  /\ execution = row.execution
  /\ operation = row.operation

ApprovePlan(p, digest, policy, execution, operation, decision) ==
  /\ plan[p] # NoPlan
  /\ plan[p].status = "proposed"
  /\ plan[p].requiresApproval
  /\ decision = "granted"
  /\ EvidenceBinds(plan[p], digest, policy, execution, operation)
  /\ operation \in ExecutorOperations
  /\ plan' = [plan EXCEPT ![p] =
       [@ EXCEPT !.status = "approved", !.decision = decision,
                 !.authorizedOperation = operation, !.authorizedExecution = execution]]
  /\ UNCHANGED target

\* A revoked plan keeps the status approved: only the decision changes.
RevokePlanApproval(p) ==
  /\ plan[p].status = "approved"
  /\ plan[p].decision # "revoked"
  /\ plan' = [plan EXCEPT ![p].decision = "revoked"]
  /\ UNCHANGED target

\* Faulty variant: the existence of a rollout is not looked at, or is looked at
\* before the plan is locked.
CancelPlanUnlocked(p, hasRollout) ==
  /\ plan[p].status \in {"draft", "proposed", "approved"}
  /\ plan' = [plan EXCEPT ![p].status = "cancelled"]
  /\ UNCHANGED target

\* An approved plan can be cancelled as long as nothing was rolled out from it.
CancelPlan(p, hasRollout) ==
  /\ plan[p].status \in {"draft", "proposed", "approved"}
  /\ ~hasRollout
  /\ plan' = [plan EXCEPT ![p].status = "cancelled"]
  /\ UNCHANGED target

\* Everything that writes a target or a plan, given which plans are rolled out.
PlanNext(rolledOut) ==
  \/ \E t \in Targets :
       \/ RegisterTarget(t)
       \/ SetDesiredState(t)
       \/ SuspendTarget(t)
       \/ DecommissionTarget(t)
       \/ \E p \in Plans, purpose \in ProposedPurposes, descriptor \in Descriptors,
             operation \in ProposedOperations, execution \in Executions,
             needs \in ApprovalModes, policy \in Policies \cup {None} :
            ProposePlan(p, t, purpose, descriptor, operation, execution, needs, policy)
  \/ \E p \in Plans :
       \/ \E q \in Proposed, policy \in Policies \cup {None},
             execution \in Executions, operation \in Operations,
             decision \in DecisionStatuses :
            ApprovePlan(p, PlanDigest(plan[q].snapshot), policy, execution,
                        operation, decision)
       \/ RevokePlanApproval(p)
       \/ CancelPlan(p, p \in rolledOut)
=============================================================================
