-------------------------- MODULE RolloutControlProofs --------------------------
(***************************************************************************)
(* Theorems about RolloutControl and about PlanLookup, which runs beside   *)
(* it, for every value of their constants.                                 *)
(***************************************************************************)
EXTENDS PlanLookup, TLAPS

-----------------------------------------------------------------------------
(***************************************************************************)
(* Type correctness.                                                       *)
(***************************************************************************)

\* A plan whose status is one a row can have is a row.
LEMMA PlanIsRow ==
  ASSUME PlanTypeOK, NEW p \in Plans, plan[p].status # "absent"
  PROVE  plan[p] \in PlanRows
BY DEF PlanTypeOK, NoPlan

\* A rollout that was requested is a row.
LEMMA RolloutIsRow ==
  ASSUME RolloutTypeOK, NEW r \in Rollouts, rollout[r] # NoRollout
  PROVE  rollout[r] \in RolloutRows
BY DEF RolloutTypeOK

\* Following(used) is made of positive numbers above everything used.
LEMMA FollowingAbove ==
  ASSUME NEW used, used \subseteq Nat, NEW s \in Following(used)
  PROVE  /\ s \in Nat \ {0}
         /\ \A u \in used : u < s
<1>1. /\ s \in {u + 1 : u \in used \cup {0}}
      /\ \A u \in used : u < s
  BY DEF Following
<1>2. PICK u \in used \cup {0} : s = u + 1
  BY <1>1
<1>3. u \in Nat
  OBVIOUS
<1>4. QED
  BY <1>1, <1>2, <1>3

\* A row changed in its mutable columns is a row.
LEMMA PlanUpdate ==
  ASSUME PlanTypeOK, NEW p \in Plans, NEW row \in PlanRows,
         plan' = [plan EXCEPT ![p] = row], UNCHANGED target
  PROVE  PlanTypeOK'
BY DEF PlanTypeOK

LEMMA TargetUpdate ==
  ASSUME PlanTypeOK, NEW t \in Targets, NEW row \in TargetRows,
         target' = [target EXCEPT ![t] = row], UNCHANGED plan
  PROVE  PlanTypeOK'
BY DEF PlanTypeOK

\* Every handler of FleetPlans writes rows of its tables.
LEMMA PlanStepTyped ==
  ASSUME PlanTypeOK, NEW used, PlanNext(used)
  PROVE  PlanTypeOK'
<1>1. ASSUME NEW t \in Targets, RegisterTarget(t)
      PROVE  PlanTypeOK'
  BY <1>1, TargetUpdate DEF RegisterTarget, TargetRows, TargetStatuses
<1>2. ASSUME NEW t \in Targets, SetDesiredState(t)
      PROVE  PlanTypeOK'
  <2>1. target[t] \in TargetRows
    BY <1>2 DEF SetDesiredState, PlanTypeOK
  <2>2. [status |-> IF target[t].status = "registered" THEN "active" ELSE target[t].status,
         revision |-> target[t].revision + 1] \in TargetRows
    BY <2>1 DEF TargetRows, TargetStatuses
  <2>3. QED
    BY <1>2, <2>2, TargetUpdate DEF SetDesiredState
<1>3. ASSUME NEW t \in Targets, NEW allowed, NEW to \in TargetStatuses,
             TargetTransition(t, allowed, to), "absent" \notin allowed
      PROVE  PlanTypeOK'
  <2>1. target[t] \in TargetRows
    BY <1>3 DEF TargetTransition, PlanTypeOK, NoTarget
  <2>2. [target[t] EXCEPT !.status = to] \in TargetRows
    BY <2>1, <1>3 DEF TargetRows
  <2>3. QED
    BY <1>3, <2>2, TargetUpdate DEF TargetTransition
<1>4. ASSUME NEW p \in Plans, NEW t \in Targets, NEW purpose \in ProposedPurposes,
             NEW descriptor \in Descriptors, NEW operation \in ProposedOperations,
             NEW execution \in Executions, NEW needs \in ApprovalModes,
             NEW policy \in Policies \cup {None},
             ProposePlan(p, t, purpose, descriptor, operation, execution, needs, policy)
      PROVE  PlanTypeOK'
  <2>1. target[t] \in TargetRows
    BY <1>4 DEF ProposePlan, PlanTypeOK, NoTarget
  <2>2. SnapshotOf(t, purpose, descriptor) \in Snapshots
    BY <2>1, ProposalInputs DEF SnapshotOf, Snapshots, TargetRows
  <2>3. {plan[q].sequence : q \in PlansOf(t)} \subseteq Nat
    BY DEF PlanTypeOK, PlansOf, Proposed, PlanRows
  <2>4. \A q \in Plans : plan'[q] \in PlanRows \cup {NoPlan}
    <3> SUFFICES ASSUME NEW q \in Plans PROVE plan'[q] \in PlanRows \cup {NoPlan}
      OBVIOUS
    <3>1. CASE q = p
      BY <3>1, <1>4, <2>2, <2>3, FollowingAbove, ProposalInputs
      DEF ProposePlan, PlanRows, PlanStatuses, Operations
    <3>2. CASE q # p /\ Superseded(plan[q], t)
      <4>1. plan[q] \in PlanRows
        BY <3>2 DEF Superseded, PlanTypeOK
      <4>2. plan'[q] = [plan[q] EXCEPT !.status = "superseded"]
        BY <3>2, <1>4 DEF ProposePlan
      <4>3. QED
        BY <4>1, <4>2 DEF PlanRows, PlanStatuses
    <3>3. CASE q # p /\ ~Superseded(plan[q], t)
      BY <3>3, <1>4 DEF ProposePlan, PlanTypeOK
    <3>4. QED
      BY <3>1, <3>2, <3>3
  <2>5. QED
    BY <1>4, <2>4 DEF ProposePlan, PlanTypeOK
<1>5. ASSUME NEW p \in Plans, NEW digest, NEW policy, NEW execution \in Executions,
             NEW operation \in Operations, NEW decision \in DecisionStatuses,
             ApprovePlan(p, digest, policy, execution, operation, decision)
      PROVE  PlanTypeOK'
  <2>1. plan[p] \in PlanRows
    BY <1>5 DEF ApprovePlan, PlanTypeOK
  <2>2. [plan[p] EXCEPT !.status = "approved", !.decision = decision,
                        !.authorizedOperation = operation,
                        !.authorizedExecution = execution] \in PlanRows
    BY <1>5, <2>1 DEF PlanRows, PlanStatuses
  <2>3. QED
    BY <1>5, <2>2, PlanUpdate DEF ApprovePlan
<1>6. ASSUME NEW p \in Plans, RevokePlanApproval(p)
      PROVE  PlanTypeOK'
  <2>1. plan[p] \in PlanRows
    BY <1>6, PlanIsRow DEF RevokePlanApproval
  <2>2. [plan[p] EXCEPT !.decision = "revoked"] \in PlanRows
    BY <2>1 DEF PlanRows, DecisionStatuses
  <2>3. QED
    BY <1>6, <2>2, PlanUpdate DEF RevokePlanApproval
<1>7. ASSUME NEW p \in Plans, CancelPlan(p, p \in used)
      PROVE  PlanTypeOK'
  <2>1. plan[p] \in PlanRows
    BY <1>7, PlanIsRow DEF CancelPlan
  <2>2. [plan[p] EXCEPT !.status = "cancelled"] \in PlanRows
    BY <2>1 DEF PlanRows, PlanStatuses
  <2>3. QED
    BY <1>7, <2>2, PlanUpdate DEF CancelPlan
<1>8. QED
  BY <1>1, <1>2, <1>3, <1>4, <1>5, <1>6, <1>7
  DEF PlanNext, SuspendTarget, DecommissionTarget, TargetStatuses

\* What a rollout signs of a plan it may be requested for is a row of an
\* envelope.
LEMMA EnvelopeTyped ==
  ASSUME PlanTypeOK, NEW p \in Plans, plan[p] # NoPlan,
         DecisionFor(plan[p]) \in {"granted", "approval_exempt"}
  PROVE  EnvelopeFor(p) \in Envelopes
<1>1. plan[p] \in PlanRows
  BY DEF PlanTypeOK
<1>2. OperationFor(plan[p]) \in Operations /\ ExecutionFor(plan[p]) \in Executions
  BY <1>1 DEF PlanRows, OperationFor, ExecutionFor
<1>3. plan[p].snapshot \in Snapshots
  BY <1>1 DEF PlanRows
<1>4. QED
  BY <1>2, <1>3 DEF EnvelopeFor, Envelopes

\* A rollout that changes its status only is a row.
LEMMA RolloutUpdate ==
  ASSUME RolloutTypeOK, NEW r \in Rollouts, rollout[r] # NoRollout,
         NEW to \in RolloutStatuses, rollout' = [rollout EXCEPT ![r].status = to]
  PROVE  rollout' \in [Rollouts -> RolloutRows \cup {NoRollout}]
<1>1. [rollout[r] EXCEPT !.status = to] \in RolloutRows
  BY RolloutIsRow DEF RolloutRows
<1>2. QED
  BY <1>1 DEF RolloutTypeOK

\* Every step of RolloutNext writes rows of its tables.
LEMMA RolloutStepTyped ==
  ASSUME TypeOK, RolloutNext
  PROVE  TypeOK'
<1> USE DEF TypeOK
<1>1. PICK r \in Rollouts :
        \/ \E p \in Plans : RequestRollout(r, p)
        \/ DispatchAttempt(r)
        \/ ExpireAuthorization(r)
        \/ \E n \in AttemptNumbers, outcome \in ReportedOutcomes : SettleAttempt(r, n, outcome)
        \/ CancelRollout(r)
        \/ RequireManualRepair(r)
        \/ \E n \in AttemptNumbers : ConsumeDispatch(r, n)
  BY DEF RolloutNext
<1>2. PlanTypeOK'
  BY <1>1 DEF RequestRollout, DispatchAttempt, ExpireAuthorization, SettleAttempt,
    CancelRollout, RequireManualRepair, ConsumeDispatch, planVars, PlanTypeOK
<1>3. ASSUME NEW p \in Plans, RequestRollout(r, p)
      PROVE  RolloutTypeOK'
  <2> DEFINE t == plan[p].snapshot.target
             used == {rollout[q].sequence : q \in {x \in Requested : rollout[x].target = t}}
  <2>1. t \in Targets
    BY <1>3, PlanIsRow DEF RequestRollout, PlanTypeOK, PlanRows, Snapshots
  <2>2. EnvelopeFor(p) \in Envelopes
    BY <1>3, EnvelopeTyped DEF RequestRollout
  <2>3. used \subseteq Nat
    BY DEF Requested, RolloutTypeOK, RolloutRows
  <2>4. PICK s \in Following(used) : rollout' = [rollout EXCEPT
          ![r] = [status |-> "requested", plan |-> p, target |-> t,
                  sequence |-> s, envelope |-> EnvelopeFor(p)]]
    BY <1>3 DEF RequestRollout
  <2>5. s \in Nat \ {0}
    BY <2>3, FollowingAbove
  <2>6. QED
    BY <1>3, <2>1, <2>2, <2>4, <2>5
    DEF RequestRollout, RolloutTypeOK, RolloutRows, RolloutStatuses
<1>4. ASSUME DispatchAttempt(r) PROVE RolloutTypeOK'
  <2>1. attempts' \in [Rollouts -> 0..MaxAttempts]
    BY <1>4, RolloutInputs DEF DispatchAttempt, RolloutTypeOK
  <2>2. (IF rollout[r].status = "requested" THEN "dispatched" ELSE rollout[r].status)
          \in RolloutStatuses
    BY <1>4, RolloutIsRow DEF DispatchAttempt, RolloutStatuses, RolloutRows
  <2>3. lifetime' \in [Rollouts -> Lifetimes]
    BY <1>4 DEF DispatchAttempt, RolloutTypeOK, Lifetimes
  <2>4. QED
    BY <1>4, <2>1, <2>2, <2>3, RolloutUpdate DEF DispatchAttempt, RolloutTypeOK
<1>5. ASSUME ExpireAuthorization(r) PROVE RolloutTypeOK'
  <2>1. lifetime' \in [Rollouts -> Lifetimes]
    BY <1>5 DEF ExpireAuthorization, RolloutTypeOK, Lifetimes
  <2>2. QED
    BY <1>5, <2>1 DEF ExpireAuthorization, RolloutTypeOK
<1>6. ASSUME NEW n \in AttemptNumbers, NEW outcome \in ReportedOutcomes,
             SettleAttempt(r, n, outcome)
      PROVE  RolloutTypeOK'
  <2>1. outcome \in SettledOutcomes
    BY RolloutInputs
  <2>2. settlement' \in [Rollouts -> [AttemptNumbers -> SettledOutcomes \cup {"pending"}]]
    BY <1>6, <2>1 DEF SettleAttempt, RolloutTypeOK
  <2>3. StatusAfter(rollout[r].status, outcome) \in RolloutStatuses
    BY <1>6, <2>1, RolloutIsRow
    DEF SettleAttempt, StatusAfter, RolloutStatuses, SettledOutcomes, RolloutRows
  <2>4. QED
    BY <1>6, <2>2, <2>3, RolloutUpdate DEF SettleAttempt, RolloutTypeOK
<1>7. ASSUME CancelRollout(r) PROVE RolloutTypeOK'
  <2>1. settlement' \in [Rollouts -> [AttemptNumbers -> SettledOutcomes \cup {"pending"}]]
    BY <1>7 DEF CancelRollout, RolloutTypeOK, SettledOutcomes
  <2>2. "cancelled" \in RolloutStatuses
    BY DEF RolloutStatuses
  <2>3. QED
    BY <1>7, <2>1, <2>2, RolloutUpdate DEF CancelRollout, RolloutTypeOK
<1>8. ASSUME RequireManualRepair(r) PROVE RolloutTypeOK'
  <2>1. "manual_repair" \in RolloutStatuses
    BY DEF RolloutStatuses
  <2>2. QED
    BY <1>8, <2>1, RolloutUpdate DEF RequireManualRepair, RolloutTypeOK
<1>9. ASSUME NEW n \in AttemptNumbers, ConsumeDispatch(r, n)
      PROVE  RolloutTypeOK'
  BY <1>9 DEF ConsumeDispatch, RolloutTypeOK
<1>10. QED
  BY <1>1, <1>2, <1>3, <1>4, <1>5, <1>6, <1>7, <1>8, <1>9

\* Whatever a step does, every variable keeps holding rows of its table.
LEMMA StepTyped ==
  ASSUME TypeOK, [Next]_vars
  PROVE  TypeOK'
<1>1. CASE PlanNext(RolledOut) /\ UNCHANGED rolloutVars
  BY <1>1, PlanStepTyped DEF TypeOK, RolloutTypeOK, rolloutVars
<1>2. CASE RolloutNext
  BY <1>2, RolloutStepTyped
<1>3. CASE UNCHANGED vars
  BY <1>3 DEF vars, planVars, rolloutVars, TypeOK, PlanTypeOK, RolloutTypeOK
<1>4. QED
  BY <1>1, <1>2, <1>3 DEF Next

\* The columns of every table hold what the tables allow: the base of every
\* other proof.
THEOREM TypeCorrect == Spec => []TypeOK
<1>1. Init => TypeOK
  BY RolloutInputs DEF Init, PlanInit, RolloutInit, TypeOK, PlanTypeOK, RolloutTypeOK, Lifetimes
<1>2. TypeOK /\ [Next]_vars => TypeOK'
  BY StepTyped
<1>3. QED
  BY <1>1, <1>2, PTL DEF Spec

-----------------------------------------------------------------------------
(***************************************************************************)
(* The life of a frozen plan.                                              *)
(***************************************************************************)

\* The authorization columns are written by an approval, together, and say
\* what was proposed; a decision is never lost, and only its revocation or a
\* cancellation of the plan follows it.
DecisionRecorded(row) ==
  IF row.decision = None
    THEN /\ row.authorizedOperation = None /\ row.authorizedExecution = None
         /\ row.status # "approved"
    ELSE /\ row.requiresApproval
         /\ row.authorizedOperation = row.operation
         /\ row.authorizedExecution = row.execution
         /\ row.operation \in ExecutorOperations
         /\ row.status \in {"approved", "cancelled"}

PlanInv == PlanTypeOK /\ \A p \in Proposed : DecisionRecorded(plan[p])

\* What a step can make of a plan that was proposed: nothing but its status and
\* its decision is ever written, and only in these five ways.
PlanMove(row, next, rolledOut) ==
  \/ next = row
  \/ /\ row.status \in {"draft", "proposed"}
     /\ next = [row EXCEPT !.status = "superseded"]
  \/ /\ row.status = "proposed" /\ row.requiresApproval
     /\ row.operation \in ExecutorOperations
     /\ next = [row EXCEPT !.status = "approved", !.decision = "granted",
                           !.authorizedOperation = row.operation,
                           !.authorizedExecution = row.execution]
  \/ /\ row.status = "approved"
     /\ next = [row EXCEPT !.decision = "revoked"]
  \/ /\ ~rolledOut
     /\ row.status \in {"draft", "proposed", "approved"}
     /\ next = [row EXCEPT !.status = "cancelled"]

\* A plan that appears was just proposed.
PlanArrives(p) ==
  /\ plan[p] = NoPlan
  /\ plan'[p] \in PlanRows
  /\ plan'[p].status = "proposed" /\ plan'[p].decision = None
  /\ plan'[p].authorizedOperation = None /\ plan'[p].authorizedExecution = None
  /\ target[plan'[p].snapshot.target].status = "active"
  /\ \A q \in PlansOf(plan'[p].snapshot.target) :
       /\ plan[q].sequence < plan'[p].sequence
       /\ plan'[q].status # "proposed"

\* No two plans are proposed in one step.
OneArrives ==
  \A p, q \in Plans : plan[p] = NoPlan /\ plan[q] = NoPlan /\ p # q =>
    plan'[p] = NoPlan \/ plan'[q] = NoPlan

PlanStep(rolledOut) ==
  /\ \A p \in Plans :
       IF plan[p] = NoPlan
         THEN plan'[p] = NoPlan \/ PlanArrives(p)
         ELSE PlanMove(plan[p], plan'[p], p \in rolledOut)
  /\ OneArrives

\* A handler that writes one row by a permitted move makes a permitted step.
LEMMA OneRowMoves ==
  ASSUME PlanTypeOK, NEW used, NEW p \in Plans, NEW row, plan[p] # NoPlan,
         PlanMove(plan[p], row, p \in used), plan' = [plan EXCEPT ![p] = row]
  PROVE  PlanStep(used)
<1>1. \A q \in Plans : plan'[q] = IF q = p THEN row ELSE plan[q]
  BY DEF PlanTypeOK
<1>2. OneArrives
  BY <1>1 DEF OneArrives
<1>3. QED
  BY <1>1, <1>2 DEF PlanStep, PlanMove

LEMMA PlansAreUntouched ==
  ASSUME NEW used, UNCHANGED plan
  PROVE  PlanStep(used)
BY DEF PlanStep, PlanMove, OneArrives

\* Every handler of FleetPlans moves plans only as PlanMove says.
LEMMA PlansMove ==
  ASSUME PlanTypeOK, NEW used, PlanNext(used)
  PROVE  PlanStep(used)
<1>1. ASSUME NEW t \in Targets,
             RegisterTarget(t) \/ SetDesiredState(t) \/ SuspendTarget(t) \/ DecommissionTarget(t)
      PROVE  PlanStep(used)
  BY <1>1, PlansAreUntouched
  DEF RegisterTarget, SetDesiredState, SuspendTarget, DecommissionTarget, TargetTransition
<1>2. ASSUME NEW p \in Plans, NEW t \in Targets, NEW purpose \in ProposedPurposes,
             NEW descriptor \in Descriptors, NEW operation \in ProposedOperations,
             NEW execution \in Executions, NEW needs \in ApprovalModes,
             NEW policy \in Policies \cup {None},
             ProposePlan(p, t, purpose, descriptor, operation, execution, needs, policy)
      PROVE  PlanStep(used)
  <2> DEFINE numbers == {plan[q].sequence : q \in PlansOf(t)}
             fresh(s) == [status |-> "proposed", sequence |-> s,
                          snapshot |-> SnapshotOf(t, purpose, descriptor),
                          operation |-> operation, execution |-> execution,
                          requiresApproval |-> needs, policy |-> policy,
                          authorizedOperation |-> None, authorizedExecution |-> None,
                          decision |-> None]
  <2>1. PICK s \in Following(numbers) : plan' = [q \in Plans |->
          IF q = p THEN fresh(s)
          ELSE IF Superseded(plan[q], t) THEN [plan[q] EXCEPT !.status = "superseded"]
          ELSE plan[q]]
    BY <1>2 DEF ProposePlan
  <2>2. numbers \subseteq Nat
    BY DEF PlanTypeOK, PlansOf, Proposed, PlanRows
  <2>3. s \in Nat \ {0} /\ \A n \in numbers : n < s
    BY <2>2, FollowingAbove
  <2>4. plan[p] = NoPlan /\ target[t].status = "active"
    BY <1>2 DEF ProposePlan
  <2>5. plan'[p] = fresh(s)
    BY <2>1
  <2>6. plan'[p].snapshot.target = t
    BY <2>5 DEF SnapshotOf
  <2>7. plan'[p] \in PlanRows
    <3>1. PlanTypeOK'
      BY <1>2, PlanStepTyped DEF PlanNext
    <3>2. QED
      BY <3>1, <2>5 DEF PlanTypeOK, NoPlan
  <2>8. \A q \in PlansOf(t) : plan'[q].status # "proposed"
    <3> SUFFICES ASSUME NEW q \in PlansOf(t) PROVE plan'[q].status # "proposed"
      OBVIOUS
    <3>1. q \in Plans /\ q # p /\ plan[q] \in PlanRows /\ plan[q].snapshot.target = t
      BY <2>4 DEF PlansOf, Proposed, PlanTypeOK
    <3>2. plan'[q] = IF Superseded(plan[q], t) THEN [plan[q] EXCEPT !.status = "superseded"]
                     ELSE plan[q]
      BY <3>1, <2>1
    <3>3. QED
      BY <3>1, <3>2 DEF Superseded, PlanRows, PlansOf, Proposed
  <2>9. PlanArrives(p)
    <3>1. \A q \in PlansOf(t) : plan[q].sequence < s
      BY <2>3
    <3>2. plan'[p].sequence = s
      BY <2>5
    <3>3. QED
      BY <2>4, <2>5, <2>6, <2>7, <2>8, <3>1, <3>2 DEF PlanArrives
  <2>10. ASSUME NEW q \in Plans, q # p
         PROVE  IF plan[q] = NoPlan THEN plan'[q] = NoPlan
                ELSE PlanMove(plan[q], plan'[q], q \in used)
    BY <2>10, <2>1 DEF PlanMove, Superseded
  <2>11. QED
    BY <2>4, <2>9, <2>10 DEF PlanStep, OneArrives
<1>3. ASSUME NEW p \in Plans, NEW digest, NEW policy, NEW execution, NEW operation, NEW decision,
             ApprovePlan(p, digest, policy, execution, operation, decision)
      PROVE  PlanStep(used)
  <2> DEFINE row == [plan[p] EXCEPT !.status = "approved", !.decision = "granted",
                                    !.authorizedOperation = plan[p].operation,
                                    !.authorizedExecution = plan[p].execution]
  <2>1. PlanMove(plan[p], row, p \in used)
    BY <1>3 DEF PlanMove, ApprovePlan, EvidenceBinds
  <2>2. plan' = [plan EXCEPT ![p] = row] /\ plan[p] # NoPlan
    BY <1>3 DEF ApprovePlan, EvidenceBinds
  <2>3. QED
    BY <2>1, <2>2, OneRowMoves
<1>4. ASSUME NEW p \in Plans, RevokePlanApproval(p)
      PROVE  PlanStep(used)
  <2>1. PlanMove(plan[p], [plan[p] EXCEPT !.decision = "revoked"], p \in used)
    BY <1>4 DEF PlanMove, RevokePlanApproval
  <2>2. plan' = [plan EXCEPT ![p] = [plan[p] EXCEPT !.decision = "revoked"]] /\ plan[p] # NoPlan
    BY <1>4 DEF RevokePlanApproval, NoPlan
  <2>3. QED
    BY <2>1, <2>2, OneRowMoves
<1>5. ASSUME NEW p \in Plans, CancelPlan(p, p \in used)
      PROVE  PlanStep(used)
  <2>1. PlanMove(plan[p], [plan[p] EXCEPT !.status = "cancelled"], p \in used)
    BY <1>5 DEF PlanMove, CancelPlan
  <2>2. plan' = [plan EXCEPT ![p] = [plan[p] EXCEPT !.status = "cancelled"]] /\ plan[p] # NoPlan
    BY <1>5 DEF CancelPlan, NoPlan
  <2>3. QED
    BY <2>1, <2>2, OneRowMoves
<1>6. QED
  BY <1>1, <1>2, <1>3, <1>4, <1>5 DEF PlanNext

\* A step of RolloutNext writes no plan and no target.
LEMMA RolloutsKeepPlans ==
  ASSUME RolloutNext
  PROVE  UNCHANGED planVars
BY DEF RolloutNext, RequestRollout, DispatchAttempt, ExpireAuthorization, SettleAttempt,
  CancelRollout, RequireManualRepair, ConsumeDispatch

\* Any step moves plans as PlanMove says.
LEMMA StepMovesPlans ==
  ASSUME TypeOK, [Next]_vars
  PROVE  PlanStep(RolledOut)
<1>1. CASE PlanNext(RolledOut)
  BY <1>1, PlansMove DEF TypeOK
<1>2. CASE RolloutNext
  BY <1>2, RolloutsKeepPlans, PlansAreUntouched DEF planVars
<1>3. CASE UNCHANGED vars
  BY <1>3, PlansAreUntouched DEF vars, planVars
<1>4. QED
  BY <1>1, <1>2, <1>3 DEF Next

\* A permitted move leaves the frozen columns alone and proposes nothing.
LEMMA MoveFreezes ==
  ASSUME NEW row \in PlanRows, NEW next, NEW rolledOut, PlanMove(row, next, rolledOut)
  PROVE  /\ next.snapshot = row.snapshot /\ next.sequence = row.sequence
         /\ next.operation = row.operation /\ next.execution = row.execution
         /\ next.requiresApproval = row.requiresApproval
         /\ next.status = "proposed" => row.status = "proposed"
         /\ next # NoPlan
<1>1. next.status # "absent"
  BY DEF PlanMove, PlanRows, PlanStatuses
<1>2. next # NoPlan
  BY <1>1 DEF NoPlan
<1>3. QED
  BY <1>2 DEF PlanMove, PlanRows

\* A permitted move of a recorded row leaves it recorded.
LEMMA MoveKeepsRecord ==
  ASSUME NEW row \in PlanRows, DecisionRecorded(row), NEW next, NEW rolledOut,
         PlanMove(row, next, rolledOut)
  PROVE  DecisionRecorded(next)
<1>1. None \notin DecisionStatuses
  BY NoneIsNoValue
<1>2. CASE next = row
  BY <1>2
<1>3. CASE row.status \in {"draft", "proposed"} /\ next = [row EXCEPT !.status = "superseded"]
  BY <1>3 DEF DecisionRecorded, PlanRows
<1>4. CASE /\ row.status = "proposed" /\ row.requiresApproval
           /\ row.operation \in ExecutorOperations
           /\ next = [row EXCEPT !.status = "approved", !.decision = "granted",
                                 !.authorizedOperation = row.operation,
                                 !.authorizedExecution = row.execution]
  BY <1>1, <1>4 DEF DecisionRecorded, PlanRows, DecisionStatuses
<1>5. CASE row.status = "approved" /\ next = [row EXCEPT !.decision = "revoked"]
  BY <1>1, <1>5 DEF DecisionRecorded, PlanRows, DecisionStatuses
<1>6. CASE /\ row.status \in {"draft", "proposed", "approved"}
           /\ next = [row EXCEPT !.status = "cancelled"]
  BY <1>6 DEF DecisionRecorded, PlanRows
<1>7. QED
  BY <1>2, <1>3, <1>4, <1>5, <1>6 DEF PlanMove

LEMMA PlanInvStep ==
  ASSUME TypeOK, PlanInv, [Next]_vars
  PROVE  PlanInv'
<1>1. PlanTypeOK'
  BY StepTyped DEF TypeOK
<1>2. PlanStep(RolledOut)
  BY StepMovesPlans
<1>3. ASSUME NEW p \in Plans, plan'[p] # NoPlan
      PROVE  DecisionRecorded(plan'[p])
  <2>1. CASE plan[p] = NoPlan
    BY <1>2, <1>3, <2>1 DEF PlanStep, PlanArrives, DecisionRecorded
  <2>2. CASE plan[p] # NoPlan
    BY <1>2, <2>2, MoveKeepsRecord DEF PlanStep, PlanInv, Proposed, TypeOK, PlanTypeOK
  <2>3. QED
    BY <2>1, <2>2
<1>4. QED
  BY <1>1, <1>3 DEF PlanInv, Proposed

-----------------------------------------------------------------------------
(***************************************************************************)
(* What a rollout rests on.                                                *)
(***************************************************************************)

RestInv == RolloutRestsOnItsPlan /\ EnvelopeSaysWhatWasFrozen

\* Between two states that agree on the rollouts but for their status, a move
\* of the plans keeps RestInv.
LEMMA PlanMoveKeepsRest ==
  ASSUME TypeOK, PlanInv, RestInv, PlanStep(RolledOut),
         NEW r \in Requested, r \in Requested',
         rollout'[r] = [rollout[r] EXCEPT !.status = rollout'[r].status]
  PROVE  /\ LET row == plan'[rollout'[r].plan]
            IN /\ row # NoPlan
               /\ row.snapshot.purpose = "foundation_execution"
               /\ IF row.requiresApproval
                    THEN row.status = "approved" /\ row.decision \in DecisionStatuses
                    ELSE row.status \in {"proposed", "superseded"} /\ row.decision = None
         /\ LET row == plan'[rollout'[r].plan]
                signed == rollout'[r].envelope
            IN /\ signed.snapshot = row.snapshot
               /\ rollout'[r].target = row.snapshot.target
               /\ signed.operation = row.operation
               /\ signed.execution = row.execution
               /\ signed.decision =
                    (IF row.requiresApproval THEN "granted" ELSE "approval_exempt")
<1> DEFINE p == rollout[r].plan
           row == plan[p]
           next == plan'[p]
<1>1. rollout[r] \in RolloutRows /\ rollout[r] # NoRollout
  BY RolloutIsRow DEF Requested, TypeOK
<1>2. /\ rollout'[r].plan = p /\ rollout'[r].target = rollout[r].target
      /\ rollout'[r].envelope = rollout[r].envelope
  BY <1>1 DEF RolloutRows
<1>3. p \in Plans /\ p \in RolledOut /\ row # NoPlan /\ row \in PlanRows
  BY <1>1 DEF RolloutRows, RolledOut, RestInv, RolloutRestsOnItsPlan, TypeOK, PlanTypeOK
<1>4. PlanMove(row, next, TRUE)
  BY <1>3 DEF PlanStep
<1>5. next # NoPlan /\ next.snapshot = row.snapshot /\ next.operation = row.operation
      /\ next.execution = row.execution /\ next.requiresApproval = row.requiresApproval
  BY <1>3, <1>4, MoveFreezes
<1>6. IF row.requiresApproval
        THEN row.status = "approved" /\ row.decision \in DecisionStatuses
        ELSE row.status \in {"proposed", "superseded"} /\ row.decision = None
  BY DEF RestInv, RolloutRestsOnItsPlan
<1>7. IF next.requiresApproval
        THEN next.status = "approved" /\ next.decision \in DecisionStatuses
        ELSE next.status \in {"proposed", "superseded"} /\ next.decision = None
  BY <1>3, <1>4, <1>6 DEF PlanMove, PlanRows, DecisionStatuses
<1>8. row.snapshot.purpose = "foundation_execution"
  BY DEF RestInv, RolloutRestsOnItsPlan
<1>9. /\ rollout[r].envelope.snapshot = row.snapshot
      /\ rollout[r].target = row.snapshot.target
      /\ rollout[r].envelope.operation = row.operation
      /\ rollout[r].envelope.execution = row.execution
      /\ rollout[r].envelope.decision =
           (IF row.requiresApproval THEN "granted" ELSE "approval_exempt")
  BY DEF RestInv, EnvelopeSaysWhatWasFrozen
<1>10. QED
  BY <1>2, <1>5, <1>7, <1>8, <1>9

\* What is left of a rollout by any step: at most its status changes, and an
\* absent one that appears was just requested for a plan that may be rolled out.
LEMMA RolloutMoves ==
  ASSUME TypeOK, [Next]_vars
  PROVE  \A r \in Rollouts :
           IF rollout[r] = NoRollout
             THEN \/ rollout'[r] = NoRollout
                  \/ \E p \in Plans : RequestRollout(r, p)
             ELSE /\ rollout'[r] # NoRollout
                  /\ rollout'[r] = [rollout[r] EXCEPT !.status = rollout'[r].status]
<1> USE DEF TypeOK
<1> SUFFICES ASSUME NEW r \in Rollouts
             PROVE  IF rollout[r] = NoRollout
                      THEN \/ rollout'[r] = NoRollout
                           \/ \E p \in Plans : RequestRollout(r, p)
                      ELSE /\ rollout'[r] # NoRollout
                           /\ rollout'[r] = [rollout[r] EXCEPT !.status = rollout'[r].status]
  OBVIOUS
<1>1. ASSUME rollout[r] # NoRollout,
             \/ rollout'[r] = rollout[r]
             \/ \E to \in RolloutStatuses : rollout'[r] = [rollout[r] EXCEPT !.status = to]
      PROVE  /\ rollout'[r] # NoRollout
             /\ rollout'[r] = [rollout[r] EXCEPT !.status = rollout'[r].status]
  <2>1. rollout[r] \in RolloutRows
    BY <1>1, RolloutIsRow
  <2>2. rollout'[r].status \in RolloutStatuses
    BY <1>1, <2>1 DEF RolloutRows
  <2>3. rollout'[r].status # "absent"
    BY <2>2 DEF RolloutStatuses
  <2>4. QED
    BY <1>1, <2>1, <2>3 DEF RolloutRows, NoRollout
<1>2. CASE UNCHANGED rollout
  BY <1>1, <1>2
<1>3. ASSUME NEW x \in Rollouts, NEW p \in Plans, RequestRollout(x, p)
      PROVE  \/ x = r
             \/ rollout'[r] = rollout[r]
  BY <1>3 DEF RequestRollout, RolloutTypeOK
<1>4. ASSUME NEW p \in Plans, RequestRollout(r, p)
      PROVE  rollout[r] = NoRollout
  BY <1>4 DEF RequestRollout
<1>5. ASSUME NEW x \in Rollouts, rollout[x] # NoRollout, NEW to \in RolloutStatuses,
             rollout' = [rollout EXCEPT ![x].status = to]
      PROVE  \/ rollout'[r] = rollout[r]
             \/ rollout[r] # NoRollout /\ rollout'[r] = [rollout[r] EXCEPT !.status = to]
  BY <1>5 DEF RolloutTypeOK
<1>6. ASSUME NEW x \in Rollouts, DispatchAttempt(x)
      PROVE  \E to \in RolloutStatuses : rollout' = [rollout EXCEPT ![x].status = to]
  BY <1>6, RolloutIsRow DEF DispatchAttempt, RolloutStatuses, RolloutRows
<1>7. ASSUME NEW x \in Rollouts, NEW n \in AttemptNumbers, NEW outcome \in ReportedOutcomes,
             SettleAttempt(x, n, outcome)
      PROVE  \E to \in RolloutStatuses : rollout' = [rollout EXCEPT ![x].status = to]
  BY <1>7, RolloutIsRow, RolloutInputs
  DEF SettleAttempt, StatusAfter, RolloutStatuses, SettledOutcomes, RolloutRows
<1>8. ASSUME NEW x \in Rollouts, CancelRollout(x) \/ RequireManualRepair(x)
      PROVE  \E to \in RolloutStatuses : rollout' = [rollout EXCEPT ![x].status = to]
  BY <1>8 DEF CancelRollout, RequireManualRepair, RolloutStatuses
<1>9. CASE \E x \in Rollouts : rollout[x] # NoRollout /\
             \E to \in RolloutStatuses : rollout' = [rollout EXCEPT ![x].status = to]
  BY <1>1, <1>5, <1>9
<1>10. CASE \E x \in Rollouts, p \in Plans : RequestRollout(x, p)
  BY <1>1, <1>3, <1>4, <1>10
<1>11. CASE RolloutNext
  <2>1. PICK x \in Rollouts :
          \/ \E p \in Plans : RequestRollout(x, p)
          \/ DispatchAttempt(x)
          \/ ExpireAuthorization(x)
          \/ \E n \in AttemptNumbers, outcome \in ReportedOutcomes : SettleAttempt(x, n, outcome)
          \/ CancelRollout(x)
          \/ RequireManualRepair(x)
          \/ \E n \in AttemptNumbers : ConsumeDispatch(x, n)
    BY <1>11 DEF RolloutNext
  <2>2. CASE ExpireAuthorization(x) \/ \E n \in AttemptNumbers : ConsumeDispatch(x, n)
    BY <1>2, <2>2 DEF ExpireAuthorization, ConsumeDispatch
  <2>3. rollout[x] # NoRollout \/ \E p \in Plans : RequestRollout(x, p)
    BY <2>1 DEF DispatchAttempt, ExpireAuthorization, SettleAttempt, CancelRollout,
      RequireManualRepair, ConsumeDispatch
  <2>4. QED
    BY <1>6, <1>7, <1>8, <1>9, <1>10, <2>1, <2>2, <2>3
<1>12. QED
  BY <1>2, <1>11 DEF Next, vars, rolloutVars

\* What RequestRollout writes rests on its plan and says what was frozen.
LEMMA RequestRests ==
  ASSUME TypeOK, PlanInv, NEW r \in Rollouts, NEW p \in Plans, RequestRollout(r, p)
  PROVE  /\ rollout'[r].plan = p /\ rollout'[r].target = plan[p].snapshot.target
         /\ plan'[p] = plan[p] /\ plan[p] # NoPlan
         /\ plan[p].snapshot.purpose = "foundation_execution"
         /\ IF plan[p].requiresApproval
              THEN plan[p].status = "approved" /\ plan[p].decision \in DecisionStatuses
              ELSE plan[p].status \in {"proposed", "superseded"} /\ plan[p].decision = None
         /\ rollout'[r].envelope.snapshot = plan[p].snapshot
         /\ rollout'[r].envelope.operation = plan[p].operation
         /\ rollout'[r].envelope.execution = plan[p].execution
         /\ rollout'[r].envelope.decision =
              (IF plan[p].requiresApproval THEN "granted" ELSE "approval_exempt")
<1>1. plan[p] # NoPlan /\ plan[p] \in PlanRows /\ DecisionRecorded(plan[p]) /\ MayRollOut(plan[p])
  BY DEF RequestRollout, TypeOK, PlanTypeOK, PlanInv, Proposed
<1>2. UNCHANGED plan
  BY DEF RequestRollout, planVars
<1>3. \E s : rollout'[r] = [status |-> "requested", plan |-> p,
                            target |-> plan[p].snapshot.target,
                            sequence |-> s, envelope |-> EnvelopeFor(p)]
  BY DEF RequestRollout, TypeOK, RolloutTypeOK
<1>4. IF plan[p].requiresApproval
        THEN plan[p].status = "approved" /\ plan[p].decision = "granted"
        ELSE plan[p].status \in {"proposed", "superseded"} /\ plan[p].decision = None
  BY <1>1 DEF MayRollOut, DecisionRecorded, PlanRows, DecisionStatuses
<1>5. OperationFor(plan[p]) = plan[p].operation /\ ExecutionFor(plan[p]) = plan[p].execution
  BY <1>1 DEF OperationFor, ExecutionFor, DecisionRecorded
<1>6. DecisionFor(plan[p]) = (IF plan[p].requiresApproval THEN "granted" ELSE "approval_exempt")
  BY <1>4 DEF DecisionFor
<1>7. /\ rollout'[r].plan = p /\ rollout'[r].target = plan[p].snapshot.target
      /\ rollout'[r].envelope = EnvelopeFor(p)
  BY <1>3
<1>8. plan[p].snapshot.purpose = "foundation_execution"
  BY <1>1 DEF MayRollOut
<1>9. QED
  BY <1>1, <1>2, <1>4, <1>5, <1>6, <1>7, <1>8 DEF EnvelopeFor, DecisionStatuses

LEMMA RestInvStep ==
  ASSUME TypeOK, PlanInv, RestInv, [Next]_vars
  PROVE  RestInv'
<1>1. PlanStep(RolledOut)
  BY StepMovesPlans
<1>2. ASSUME NEW r \in Rollouts, rollout'[r] # NoRollout
      PROVE  LET row == plan'[rollout'[r].plan]
                 signed == rollout'[r].envelope
             IN /\ row # NoPlan
                /\ row.snapshot.purpose = "foundation_execution"
                /\ IF row.requiresApproval
                     THEN row.status = "approved" /\ row.decision \in DecisionStatuses
                     ELSE row.status \in {"proposed", "superseded"} /\ row.decision = None
                /\ signed.snapshot = row.snapshot
                /\ rollout'[r].target = row.snapshot.target
                /\ signed.operation = row.operation
                /\ signed.execution = row.execution
                /\ signed.decision =
                     (IF row.requiresApproval THEN "granted" ELSE "approval_exempt")
  <2>1. CASE rollout[r] = NoRollout
    <3>1. PICK p \in Plans : RequestRollout(r, p)
      BY <1>2, <2>1, RolloutMoves
    <3>2. QED
      BY <3>1, RequestRests
  <2>2. CASE rollout[r] # NoRollout
    <3>1. /\ r \in Requested /\ r \in Requested'
          /\ rollout'[r] = [rollout[r] EXCEPT !.status = rollout'[r].status]
      BY <1>2, <2>2, RolloutMoves DEF Requested
    <3>2. QED
      BY <1>1, <3>1, PlanMoveKeepsRest
  <2>3. QED
    BY <2>1, <2>2
<1>3. QED
  BY <1>2 DEF RestInv, RolloutRestsOnItsPlan, EnvelopeSaysWhatWasFrozen, Requested

\* The plan part of the inductive invariant.
FrozenInv == TypeOK /\ PlanInv /\ RestInv

LEMMA FrozenInvariant == Spec => []FrozenInv
<1>1. Init => FrozenInv
  <2>1. Init => TypeOK
    BY RolloutInputs DEF Init, PlanInit, RolloutInit, TypeOK, PlanTypeOK, RolloutTypeOK, Lifetimes
  <2>2. Init => Proposed = {} /\ Requested = {}
    BY DEF Init, PlanInit, RolloutInit, Proposed, Requested
  <2>3. QED
    BY <2>1, <2>2 DEF FrozenInv, PlanInv, TypeOK, RestInv, RolloutRestsOnItsPlan,
      EnvelopeSaysWhatWasFrozen
<1>2. FrozenInv /\ [Next]_vars => FrozenInv'
  BY StepTyped, PlanInvStep, RestInvStep DEF FrozenInv
<1>3. QED
  BY <1>1, <1>2, PTL DEF Spec

\* cancel_plan can never take the plan from under a rollout, and an approval
\* that carried a rollout stays on record.
THEOREM RolloutsRestOnTheirPlans == Spec => []RolloutRestsOnItsPlan
<1>1. FrozenInv => RolloutRestsOnItsPlan
  BY DEF FrozenInv, RestInv
<1>2. QED
  BY <1>1, FrozenInvariant, PTL

\* What is dispatched is the plan that was frozen, however the desired state
\* and the plans move on.
THEOREM EnvelopesSayWhatWasFrozen == Spec => []EnvelopeSaysWhatWasFrozen
<1>1. FrozenInv => EnvelopeSaysWhatWasFrozen
  BY DEF FrozenInv, RestInv
<1>2. QED
  BY <1>1, FrozenInvariant, PTL

\* Revoking an approval cuts off rollouts, attempts and launches for good.
THEOREM RevocationsCutOff == Spec => RevocationCutsOff
<1> DEFINE Cut(p) ==
      /\ plan'[p].decision = "revoked"
      /\ \A r \in Rollouts :
           /\ rollout'[r] # NoRollout /\ rollout'[r].plan = p => rollout[r] # NoRollout
           /\ rollout[r] # NoRollout /\ rollout[r].plan = p =>
                /\ attempts'[r] = attempts[r]
                /\ \A n \in AttemptNumbers : <<r, n>> \in consumed' => <<r, n>> \in consumed
<1>1. ASSUME FrozenInv, [Next]_vars, NEW p \in Proposed, plan[p].decision = "revoked"
      PROVE  Cut(p)
  <2>1. p \in Plans /\ plan[p] \in PlanRows /\ plan[p] # NoPlan /\ DecisionRecorded(plan[p])
    BY <1>1 DEF FrozenInv, PlanInv, Proposed, PlanTypeOK
  <2>2. plan[p].requiresApproval /\ plan[p].status \in {"approved", "cancelled"}
    BY <1>1, <2>1, NoneIsNoValue DEF DecisionRecorded, DecisionStatuses
  <2>3. PlanMove(plan[p], plan'[p], p \in RolledOut)
    BY <1>1, <2>1, StepMovesPlans DEF PlanStep, FrozenInv
  <2>4. plan'[p].decision = "revoked"
    BY <1>1, <2>1, <2>2, <2>3 DEF PlanMove, PlanRows
  <2>5. ASSUME NEW r \in Rollouts, rollout[r] = NoRollout,
               rollout'[r] # NoRollout, rollout'[r].plan = p
        PROVE  FALSE
    <3>1. PICK q \in Plans : RequestRollout(r, q)
      BY <1>1, <2>5, RolloutMoves DEF FrozenInv
    <3>2. q = p
      BY <1>1, <2>5, <3>1, RequestRests DEF FrozenInv
    <3>3. QED
      BY <1>1, <3>1, <3>2 DEF RequestRollout, MayRollOut
  <2>6. ASSUME NEW r \in Rollouts, rollout[r] # NoRollout, rollout[r].plan = p
        PROVE  /\ attempts'[r] = attempts[r]
               /\ \A n \in AttemptNumbers : <<r, n>> \in consumed' => <<r, n>> \in consumed
    <3>1. ~DispatchAttempt(r)
      BY <1>1, <2>6 DEF DispatchAttempt
    <3>2. \A n \in AttemptNumbers : ~ConsumeDispatch(r, n)
      BY <1>1, <2>2, <2>6 DEF ConsumeDispatch, ApprovalStands
    <3>3. CASE UNCHANGED <<attempts, consumed>>
      BY <3>3
    <3>4. ASSUME NEW x \in Rollouts, DispatchAttempt(x)
          PROVE  UNCHANGED consumed /\ attempts'[r] = attempts[r]
      BY <1>1, <3>1, <3>4 DEF DispatchAttempt, FrozenInv, TypeOK, RolloutTypeOK
    <3>5. ASSUME NEW x \in Rollouts, NEW n \in AttemptNumbers, ConsumeDispatch(x, n)
          PROVE  UNCHANGED attempts /\ x # r /\ consumed' = consumed \cup {<<x, n>>}
      BY <3>2, <3>5 DEF ConsumeDispatch
    <3>6. QED
      BY <1>1, <3>3, <3>4, <3>5
      DEF Next, RolloutNext, vars, rolloutVars, RequestRollout, ExpireAuthorization,
        SettleAttempt, CancelRollout, RequireManualRepair
  <2>7. QED
    BY <2>4, <2>5, <2>6
<1>2. FrozenInv /\ [Next]_vars =>
        \A p \in Proposed : plan[p].decision = "revoked" => Cut(p)
  BY <1>1
<1>3. QED
  BY <1>2, FrozenInvariant, PTL DEF Spec, RevocationCutsOff

-----------------------------------------------------------------------------
(***************************************************************************)
(* The line of attempts.                                                   *)
(***************************************************************************)

\* The line of attempts of one rollout.  Beyond what the invariants say of it:
\* an attempt that was not opened has no settlement, and a rollout that was not
\* requested has no attempt, without which neither invariant is inductive.
Line(r) ==
  /\ rollout[r] = NoRollout => attempts[r] = 0
  /\ \A n \in AttemptNumbers : attempts[r] < n => settlement[r][n] = "pending"
  /\ Pending(r) \subseteq {attempts[r]}
  /\ Terminal(r) => Pending(r) = {}
  /\ rollout[r].status = "succeeded" <=>
       attempts[r] > 0 /\ settlement[r][attempts[r]] = "succeeded"
  /\ \A n \in 1..attempts[r] : settlement[r][n] = "succeeded" => n = attempts[r]

AttemptInv == \A r \in Rollouts : Line(r)

LEMMA LineUntouched ==
  ASSUME NEW r \in Rollouts, Line(r),
         UNCHANGED <<rollout[r], attempts[r], settlement[r]>>
  PROVE  Line(r)'
BY DEF Line, Pending, Terminal

LEMMA AttemptInvStep ==
  ASSUME TypeOK, AttemptInv, [Next]_vars
  PROVE  AttemptInv'
<1> SUFFICES ASSUME NEW r \in Rollouts PROVE Line(r)'
  BY DEF AttemptInv
<1>0. Line(r)
  BY DEF AttemptInv
<1>t. /\ attempts[r] \in 0..MaxAttempts /\ MaxAttempts \in Nat
      /\ settlement[r] \in [AttemptNumbers -> SettledOutcomes \cup {"pending"}]
      /\ rollout[r] # NoRollout => rollout[r] \in RolloutRows
  BY RolloutInputs DEF TypeOK, RolloutTypeOK
<1>1. ASSUME NEW x \in Rollouts, NEW p \in Plans, RequestRollout(x, p)
      PROVE  Line(r)'
  <2>1. CASE x = r
    <3>1. /\ rollout[r] = NoRollout /\ attempts[r] = 0
          /\ attempts'[r] = 0 /\ settlement'[r] = settlement[r]
          /\ rollout'[r].status = "requested"
      BY <1>0, <1>1, <2>1 DEF RequestRollout, Line, TypeOK, RolloutTypeOK
    <3>2. \A n \in AttemptNumbers : settlement[r][n] = "pending"
      BY <1>0, <3>1 DEF Line, AttemptNumbers
    <3>3. QED
      BY <3>1, <3>2 DEF Line, Pending, Terminal, TerminalRolloutStatuses
  <2>2. CASE x # r
    BY <1>0, <1>1, <2>2, LineUntouched DEF RequestRollout, TypeOK, RolloutTypeOK
  <2>3. QED
    BY <2>1, <2>2
<1>2. ASSUME NEW x \in Rollouts, DispatchAttempt(x)
      PROVE  Line(r)'
  <2>1. CASE x = r
    <3>1. /\ rollout[r] # NoRollout /\ Pending(r) = {} /\ ~Terminal(r)
          /\ attempts[r] < MaxAttempts /\ attempts'[r] = attempts[r] + 1
          /\ settlement'[r] = settlement[r]
          /\ rollout'[r].status = IF rollout[r].status = "requested" THEN "dispatched"
                                  ELSE rollout[r].status
      BY <1>2, <2>1, <1>t DEF DispatchAttempt, TypeOK, RolloutTypeOK, RolloutRows
    <3>2. rollout'[r] # NoRollout /\ rollout'[r].status # "succeeded" /\ ~Terminal(r)'
      BY <3>1, <1>2, <2>1, RolloutMoves
      DEF Terminal, TerminalRolloutStatuses, Next, RolloutNext
    <3>3. attempts'[r] \in AttemptNumbers /\ settlement[r][attempts'[r]] = "pending"
      BY <3>1, <1>0, <1>t DEF Line, AttemptNumbers
    <3>4. \A n \in 1..attempts[r] : settlement[r][n] # "pending" /\ settlement[r][n] # "succeeded"
      BY <3>1, <1>0, <1>t DEF Line, Pending, Terminal, TerminalRolloutStatuses
    <3>5. Pending(r)' \subseteq {attempts'[r]}
      BY <3>1, <3>4, <1>t DEF Pending
    <3>6. \A n \in 1..attempts'[r] : settlement'[r][n] # "succeeded"
      BY <3>1, <3>3, <3>4, <1>t
    <3>7. \A n \in AttemptNumbers : attempts'[r] < n => settlement'[r][n] = "pending"
      BY <3>1, <1>0, <1>t DEF Line, AttemptNumbers
    <3>8. QED
      BY <3>2, <3>5, <3>6, <3>7, <3>3, <3>1 DEF Line
  <2>2. CASE x # r
    BY <1>0, <1>2, <2>2, LineUntouched DEF DispatchAttempt, TypeOK, RolloutTypeOK
  <2>3. QED
    BY <2>1, <2>2
<1>3. ASSUME NEW x \in Rollouts, NEW n \in AttemptNumbers, NEW outcome \in ReportedOutcomes,
             SettleAttempt(x, n, outcome)
      PROVE  Line(r)'
  <2>1. CASE x = r
    <3>1. /\ rollout[r] # NoRollout /\ n \in Pending(r)
          /\ attempts'[r] = attempts[r]
          /\ settlement'[r] = [settlement[r] EXCEPT ![n] = outcome]
          /\ rollout'[r] = [rollout[r] EXCEPT !.status = StatusAfter(rollout[r].status, outcome)]
      BY <1>3, <2>1 DEF SettleAttempt, TypeOK, RolloutTypeOK
    <3>2. n = attempts[r] /\ n \in 1..attempts[r] /\ ~Terminal(r) /\ settlement[r][n] = "pending"
      BY <1>0, <3>1 DEF Line, Pending
    <3>3. \A m \in 1..attempts[r] : m # n => settlement[r][m] # "succeeded"
      BY <1>0, <3>2 DEF Line
    <3>4. outcome \in SettledOutcomes /\ outcome # "pending"
      BY RolloutInputs DEF SettledOutcomes
    <3>5. Pending(r)' = {}
      <4>1. \A m \in 1..attempts[r] : m # n => settlement[r][m] # "pending"
        BY <1>0, <3>2 DEF Line, Pending
      <4>2. \A m \in 1..attempts[r] : m \in AttemptNumbers
        BY <1>t DEF AttemptNumbers
      <4>3. QED
        BY <3>1, <3>4, <4>1, <4>2, <1>t DEF Pending
    <3>6. rollout'[r].status = StatusAfter(rollout[r].status, outcome)
      BY <3>1, <1>t DEF RolloutRows
    <3>7. rollout'[r] # NoRollout
      BY <3>1, <1>3, <2>1, RolloutMoves DEF Next, RolloutNext
    <3>8. settlement'[r][n] = outcome /\ \A m \in AttemptNumbers : m # n => settlement'[r][m] = settlement[r][m]
      BY <3>1, <1>t
    <3>9. rollout'[r].status = "succeeded" <=> outcome = "succeeded"
      BY <3>2, <3>6 DEF StatusAfter, Terminal, TerminalRolloutStatuses
    <3>10. \A m \in 1..attempts[r] : settlement'[r][m] = "succeeded" => m = attempts[r]
      BY <3>2, <3>3, <3>8, <1>t DEF AttemptNumbers
    <3>11. \A m \in AttemptNumbers : attempts[r] < m => settlement'[r][m] = "pending"
      BY <1>0, <3>2, <3>8, <1>t DEF Line, AttemptNumbers
    <3>12. attempts'[r] > 0 /\ settlement'[r][attempts'[r]] = outcome
      BY <3>1, <3>2, <3>8
    <3>13. QED
      BY <3>1, <3>5, <3>7, <3>9, <3>10, <3>11, <3>12 DEF Line
  <2>2. CASE x # r
    BY <1>0, <1>3, <2>2, LineUntouched DEF SettleAttempt, TypeOK, RolloutTypeOK
  <2>3. QED
    BY <2>1, <2>2
<1>4. ASSUME NEW x \in Rollouts, CancelRollout(x)
      PROVE  Line(r)'
  <2>1. CASE x = r
    <3>1. /\ rollout[r] # NoRollout /\ ~Terminal(r)
          /\ attempts'[r] = attempts[r]
          /\ settlement'[r] = [n \in AttemptNumbers |->
               IF n \in Pending(r) THEN "cancelled" ELSE settlement[r][n]]
          /\ rollout'[r] = [rollout[r] EXCEPT !.status = "cancelled"]
      BY <1>4, <2>1 DEF CancelRollout, TypeOK, RolloutTypeOK
    <3>2. rollout'[r].status = "cancelled" /\ rollout'[r] # NoRollout
      BY <3>1, <1>t, <1>4, <2>1, RolloutMoves DEF RolloutRows, Next, RolloutNext
    <3>3. \A n \in 1..attempts[r] : n \in AttemptNumbers
      BY <1>t DEF AttemptNumbers
    <3>4. Pending(r)' = {}
      BY <3>1, <3>3 DEF Pending
    <3>5. \A n \in 1..attempts[r] : settlement'[r][n] # "succeeded"
      BY <1>0, <3>1, <3>3, <1>t DEF Line, Terminal, TerminalRolloutStatuses
    <3>6. \A n \in AttemptNumbers : attempts[r] < n => settlement'[r][n] = "pending"
      BY <1>0, <3>1, <1>t DEF Line, Pending, AttemptNumbers
    <3>7. QED
      BY <3>1, <3>2, <3>4, <3>5, <3>6, <1>t DEF Line
  <2>2. CASE x # r
    BY <1>0, <1>4, <2>2, LineUntouched DEF CancelRollout, TypeOK, RolloutTypeOK
  <2>3. QED
    BY <2>1, <2>2
<1>5. ASSUME NEW x \in Rollouts, RequireManualRepair(x)
      PROVE  Line(r)'
  <2>1. CASE x = r
    <3>1. /\ rollout[r] # NoRollout /\ ~Terminal(r)
          /\ attempts'[r] = attempts[r] /\ settlement'[r] = settlement[r]
          /\ rollout'[r] = [rollout[r] EXCEPT !.status = "manual_repair"]
      BY <1>5, <2>1 DEF RequireManualRepair, TypeOK, RolloutTypeOK
    <3>2. rollout'[r].status = "manual_repair" /\ rollout'[r] # NoRollout
      BY <3>1, <1>t, <1>5, <2>1, RolloutMoves DEF RolloutRows, Next, RolloutNext
    <3>3. QED
      BY <1>0, <3>1, <3>2 DEF Line, Pending, Terminal, TerminalRolloutStatuses
  <2>2. CASE x # r
    BY <1>0, <1>5, <2>2, LineUntouched DEF RequireManualRepair, TypeOK, RolloutTypeOK
  <2>3. QED
    BY <2>1, <2>2
<1>6. CASE UNCHANGED <<rollout, attempts, settlement>>
  BY <1>0, <1>6, LineUntouched
<1>7. QED
  BY <1>1, <1>2, <1>3, <1>4, <1>5, <1>6
  DEF Next, RolloutNext, vars, rolloutVars, ExpireAuthorization, ConsumeDispatch

LineInv == TypeOK /\ AttemptInv

LEMMA LineInvariant == Spec => []LineInv
<1>1. Init => TypeOK
  BY RolloutInputs DEF Init, PlanInit, RolloutInit, TypeOK, PlanTypeOK, RolloutTypeOK, Lifetimes
<1>2. Init => AttemptInv
  BY DEF Init, RolloutInit, AttemptInv, Line, Pending, Terminal, TerminalRolloutStatuses, NoRollout
<1>3. LineInv /\ [Next]_vars => LineInv'
  BY StepTyped, AttemptInvStep DEF LineInv
<1>4. QED
  BY <1>1, <1>2, <1>3, PTL DEF Spec, LineInv

\* A rollout never has two attempts in flight, nor any once it is settled.
THEOREM AttemptsAreSequential == Spec => []OneAttemptInFlight
<1>1. LineInv => OneAttemptInFlight
  BY DEF LineInv, AttemptInv, Line, OneAttemptInFlight, Requested
<1>2. QED
  BY <1>1, LineInvariant, PTL

\* Success is the last settlement of a rollout, and the only success of it.
THEOREM SuccessIsFinal == Spec => []SuccessIsTheLastSettlement
<1>1. LineInv => SuccessIsTheLastSettlement
  BY DEF LineInv, AttemptInv, Line, SuccessIsTheLastSettlement, Requested
<1>2. QED
  BY <1>1, LineInvariant, PTL

\* Settlements, attempts, spent dispatches and signed envelopes are never
\* rewritten or withdrawn.
THEOREM EvidenceOnlyGrows == Spec => EvidenceIsAppendOnly
<1> DEFINE Grows(r) ==
      /\ attempts[r] =< attempts'[r]
      /\ rollout[r] # NoRollout => rollout'[r] = [rollout[r] EXCEPT !.status = rollout'[r].status]
      /\ \A n \in AttemptNumbers :
           settlement[r][n] # "pending" => settlement'[r][n] = settlement[r][n]
<1>1. ASSUME LineInv, [Next]_vars
      PROVE  consumed \subseteq consumed'
  BY <1>1 DEF Next, RolloutNext, vars, rolloutVars, RequestRollout, DispatchAttempt,
    ExpireAuthorization, SettleAttempt, CancelRollout, RequireManualRepair, ConsumeDispatch
<1>2. ASSUME LineInv, [Next]_vars, NEW r \in Rollouts
      PROVE  Grows(r)
  <2>1. rollout[r] # NoRollout => rollout'[r] = [rollout[r] EXCEPT !.status = rollout'[r].status]
    BY <1>2, RolloutMoves DEF LineInv
  <2>2. attempts \in [Rollouts -> 0..MaxAttempts] /\ MaxAttempts \in Nat
    BY <1>2, RolloutInputs DEF LineInv, TypeOK, RolloutTypeOK
  <2>3. settlement \in [Rollouts -> [AttemptNumbers -> SettledOutcomes \cup {"pending"}]]
    BY <1>2 DEF LineInv, TypeOK, RolloutTypeOK
  <2>4. CASE UNCHANGED <<attempts, settlement>>
    BY <2>1, <2>2, <2>4
  <2>5. ASSUME NEW x \in Rollouts, DispatchAttempt(x)
        PROVE  Grows(r)
    BY <2>1, <2>2, <2>5 DEF DispatchAttempt
  <2>6. ASSUME NEW x \in Rollouts, NEW n \in AttemptNumbers, NEW outcome \in ReportedOutcomes,
               SettleAttempt(x, n, outcome)
        PROVE  Grows(r)
    <3>1. settlement[x][n] = "pending" /\ settlement' = [settlement EXCEPT ![x][n] = outcome]
      BY <2>6 DEF SettleAttempt, Pending
    <3>2. \A m \in AttemptNumbers :
            settlement[r][m] # "pending" => settlement'[r][m] = settlement[r][m]
      BY <3>1, <2>3
    <3>3. QED
      BY <2>1, <2>2, <2>6, <3>2 DEF SettleAttempt
  <2>7. ASSUME NEW x \in Rollouts, CancelRollout(x)
        PROVE  Grows(r)
    <3>1. \A m \in AttemptNumbers :
            settlement[r][m] # "pending" => settlement'[r][m] = settlement[r][m]
      BY <2>3, <2>7 DEF CancelRollout, Pending
    <3>2. QED
      BY <2>1, <2>2, <2>7, <3>1 DEF CancelRollout
  <2>8. QED
    BY <1>2, <2>4, <2>5, <2>6, <2>7
    DEF Next, RolloutNext, vars, rolloutVars, RequestRollout, ExpireAuthorization,
      RequireManualRepair, ConsumeDispatch
<1>3. LineInv /\ [Next]_vars => consumed \subseteq consumed' /\ \A r \in Rollouts : Grows(r)
  BY <1>1, <1>2
<1>4. QED
  BY <1>3, LineInvariant, PTL DEF Spec, EvidenceIsAppendOnly

-----------------------------------------------------------------------------
(***************************************************************************)
(* What is launched, in which order, and what a reader is told of it       *)
(* meanwhile: what rests on both inductive invariants above.               *)
(***************************************************************************)

\* A consumed dispatch is an attempt of a rollout that was requested.
ConsumedInv ==
  /\ \A c \in consumed : rollout[c[1]] # NoRollout
  /\ LaunchedUnderAnApproval

\* What a consumption checks is what LaunchedUnderAnApproval says of it.
LEMMA ConsumptionIsApproved ==
  ASSUME FrozenInv, NEW r \in Rollouts, NEW n \in AttemptNumbers, ConsumeDispatch(r, n)
  PROVE  LET row == plan[rollout[r].plan]
         IN /\ n \in 1..attempts[r]
            /\ row.requiresApproval /\ row.decision \in DecisionStatuses
            /\ row.authorizedOperation = row.operation
            /\ row.authorizedExecution = row.execution
            /\ row.operation \in ExecutorOperations
<1> DEFINE row == plan[rollout[r].plan]
<1>1. r \in Requested /\ rollout[r] \in RolloutRows
  BY RolloutIsRow DEF ConsumeDispatch, FrozenInv, TypeOK, Requested
<1>2. rollout[r].plan \in Plans /\ row # NoPlan
  BY <1>1 DEF FrozenInv, RestInv, RolloutRestsOnItsPlan, RolloutRows
<1>3. row \in PlanRows /\ DecisionRecorded(row)
  BY <1>2 DEF FrozenInv, PlanInv, Proposed, PlanTypeOK
<1>4. row.authorizedOperation = row.operation /\ row.operation \in Operations
  BY <1>3 DEF ConsumeDispatch, ConsumptionTermsAgree, PlanRows
<1>5. row.decision # None
  BY <1>3, <1>4, NoneIsNoValue DEF DecisionRecorded
<1>6. n \in 1..attempts[r]
  BY DEF ConsumeDispatch, AttemptIsOpen, Pending
<1>7. QED
  BY <1>3, <1>5, <1>6 DEF DecisionRecorded, PlanRows

LEMMA ConsumedInvStep ==
  ASSUME FrozenInv, LineInv, ConsumedInv, [Next]_vars
  PROVE  ConsumedInv'
<1> SUFFICES ASSUME NEW c \in consumed'
             PROVE  /\ rollout'[c[1]] # NoRollout
                    /\ c[2] \in 1..attempts'[c[1]]
                    /\ LET row == plan'[rollout'[c[1]].plan]
                       IN /\ row.requiresApproval /\ row.decision \in DecisionStatuses
                          /\ row.authorizedOperation = row.operation
                          /\ row.authorizedExecution = row.execution
                          /\ row.operation \in ExecutorOperations
  BY DEF ConsumedInv, LaunchedUnderAnApproval
<1> DEFINE r == c[1]
           n == c[2]
           row == plan[rollout[r].plan]
           next == plan'[rollout'[r].plan]
<1>1. r \in Rollouts /\ n \in AttemptNumbers
  BY StepTyped DEF FrozenInv, TypeOK, RolloutTypeOK
<1>2. /\ rollout[r] # NoRollout /\ n \in 1..attempts[r]
      /\ row.requiresApproval /\ row.decision \in DecisionStatuses
      /\ row.authorizedOperation = row.operation
      /\ row.authorizedExecution = row.execution
      /\ row.operation \in ExecutorOperations
  <2>1. CASE c \in consumed
    BY <2>1 DEF ConsumedInv, LaunchedUnderAnApproval
  <2>2. CASE c \notin consumed
    <3>1. PICK x \in Rollouts, m \in AttemptNumbers : ConsumeDispatch(x, m) /\ c = <<x, m>>
      BY <2>2 DEF Next, RolloutNext, vars, rolloutVars, RequestRollout, DispatchAttempt,
        ExpireAuthorization, SettleAttempt, CancelRollout, RequireManualRepair, ConsumeDispatch
    <3>2. x = r /\ m = n
      BY <3>1
    <3>3. QED
      BY <3>1, <3>2, <1>1, ConsumptionIsApproved DEF ConsumeDispatch
  <2>3. QED
    BY <2>1, <2>2
<1>3. rollout[r] \in RolloutRows
  BY <1>1, <1>2, RolloutIsRow DEF FrozenInv, TypeOK
<1>4. rollout'[r] # NoRollout /\ rollout'[r].plan = rollout[r].plan
  BY <1>1, <1>2, <1>3, RolloutMoves DEF FrozenInv, RolloutRows
<1>5. /\ rollout[r].plan \in Plans /\ rollout[r].plan \in RolledOut
      /\ row # NoPlan /\ row \in PlanRows
  BY <1>1, <1>2, <1>3
  DEF FrozenInv, RestInv, RolloutRestsOnItsPlan, RolloutRows, RolledOut, Requested, PlanInv, PlanTypeOK
<1>6. PlanMove(row, next, TRUE)
  BY <1>4, <1>5, StepMovesPlans DEF FrozenInv, PlanStep
<1>7. DecisionRecorded(row) /\ row.decision # None
  BY <1>2, <1>5, NoneIsNoValue DEF FrozenInv, PlanInv, Proposed
<1>8. /\ next.requiresApproval /\ next.decision \in DecisionStatuses
      /\ next.authorizedOperation = next.operation
      /\ next.authorizedExecution = next.execution
      /\ next.operation \in ExecutorOperations
  BY <1>2, <1>5, <1>6, <1>7 DEF PlanMove, DecisionRecorded, PlanRows, DecisionStatuses
<1>9. attempts[r] =< attempts'[r]
  BY <1>1, RolloutInputs
  DEF FrozenInv, TypeOK, RolloutTypeOK, Next, RolloutNext, vars, rolloutVars, RequestRollout,
    DispatchAttempt, ExpireAuthorization, SettleAttempt, CancelRollout, RequireManualRepair,
    ConsumeDispatch
<1>10. attempts[r] \in Nat /\ attempts'[r] \in Nat /\ n \in Nat
  BY <1>1, StepTyped, RolloutInputs DEF FrozenInv, TypeOK, RolloutTypeOK, AttemptNumbers
<1>11. QED
  BY <1>2, <1>4, <1>8, <1>9, <1>10

\* Nothing is launched that no decision authorized, over exactly what it froze.
THEOREM LaunchesAreApproved == Spec => []LaunchedUnderAnApproval
<1>1. Init => ConsumedInv
  BY DEF Init, RolloutInit, ConsumedInv, LaunchedUnderAnApproval
<1>2. FrozenInv /\ LineInv /\ ConsumedInv /\ [Next]_vars => ConsumedInv'
  BY ConsumedInvStep
<1>3. ConsumedInv => LaunchedUnderAnApproval
  BY DEF ConsumedInv
<1>4. QED
  BY <1>1, <1>2, <1>3, FrozenInvariant, LineInvariant, PTL DEF Spec

-----------------------------------------------------------------------------
(***************************************************************************)
(* Order, and the end of a target.                                         *)
(***************************************************************************)

\* A rollout that appears takes a number above those of its target.
LEMMA NewRolloutIsLast ==
  ASSUME TypeOK, NEW r \in Rollouts, NEW p \in Plans, RequestRollout(r, p)
  PROVE  /\ rollout[r] = NoRollout
         /\ \A x \in Rollouts : x # r => rollout'[x] = rollout[x]
         /\ \A x \in Requested :
              rollout[x].target = rollout'[r].target => rollout[x].sequence < rollout'[r].sequence
<1> DEFINE t == plan[p].snapshot.target
           used == {rollout[q].sequence : q \in {x \in Requested : rollout[x].target = t}}
<1>1. PICK s \in Following(used) : rollout' = [rollout EXCEPT
        ![r] = [status |-> "requested", plan |-> p, target |-> t,
                sequence |-> s, envelope |-> EnvelopeFor(p)]]
  BY DEF RequestRollout
<1>2. used \subseteq Nat
  BY DEF Requested, TypeOK, RolloutTypeOK, RolloutRows
<1>3. \A u \in used : u < s
  BY <1>2, FollowingAbove
<1>4. rollout'[r].target = t /\ rollout'[r].sequence = s
  BY <1>1 DEF TypeOK, RolloutTypeOK
<1>5. \A x \in Requested : rollout[x].target = t => rollout[x].sequence < s
  BY <1>3 DEF Requested
<1>6. \A x \in Rollouts : x # r => rollout'[x] = rollout[x]
  BY <1>1 DEF TypeOK, RolloutTypeOK
<1>7. QED
  BY <1>4, <1>5, <1>6 DEF RequestRollout

LEMMA OrderStep ==
  ASSUME FrozenInv, OrderedPerTarget, [Next]_vars
  PROVE  OrderedPerTarget'
<1> USE DEF FrozenInv
<1>1. PlanStep(RolledOut)
  BY StepMovesPlans
<1>2. ASSUME NEW p \in Plans, plan[p] # NoPlan
      PROVE  /\ plan'[p].snapshot = plan[p].snapshot /\ plan'[p].sequence = plan[p].sequence
             /\ plan'[p].status = "proposed" => plan[p].status = "proposed"
  <2>1. plan[p] \in PlanRows
    BY <1>2 DEF TypeOK, PlanTypeOK
  <2>2. PlanMove(plan[p], plan'[p], p \in RolledOut)
    BY <1>1, <1>2 DEF PlanStep
  <2>3. QED
    BY <2>1, <2>2, MoveFreezes
<1>3. ASSUME NEW p \in Plans, NEW q \in Plans, p # q, plan'[p] # NoPlan, plan'[q] # NoPlan,
             plan'[p].snapshot.target = plan'[q].snapshot.target
      PROVE  /\ plan'[p].sequence # plan'[q].sequence
             /\ ~(plan'[p].status = "proposed" /\ plan'[q].status = "proposed")
  <2>1. ASSUME NEW x \in Plans, NEW y \in Plans, plan[x] = NoPlan, plan[y] # NoPlan,
               plan'[x] # NoPlan, plan'[x].snapshot.target = plan'[y].snapshot.target
        PROVE  plan'[x].sequence # plan'[y].sequence /\ plan'[y].status # "proposed"
    <3>1. PlanArrives(x)
      BY <1>1, <2>1 DEF PlanStep
    <3>2. y \in PlansOf(plan'[x].snapshot.target)
      BY <1>2, <2>1 DEF PlansOf, Proposed
    <3>3. plan[y].sequence \in Nat /\ plan'[x].sequence \in Nat
      BY <2>1, <3>1 DEF TypeOK, PlanTypeOK, PlanRows, PlanArrives
    <3>4. QED
      BY <1>2, <2>1, <3>1, <3>2, <3>3 DEF PlanArrives
  <2>2. CASE plan[p] = NoPlan /\ plan[q] = NoPlan
    BY <1>1, <1>3, <2>2 DEF PlanStep, OneArrives
  <2>3. CASE plan[p] # NoPlan /\ plan[q] # NoPlan
    BY <1>2, <1>3, <2>3 DEF OrderedPerTarget, Proposed
  <2>4. QED
    BY <1>3, <2>1, <2>2, <2>3
<1>4. ASSUME NEW r \in Rollouts, NEW x \in Rollouts, r # x, rollout'[r] # NoRollout,
             rollout'[x] # NoRollout, rollout'[r].target = rollout'[x].target
      PROVE  rollout'[r].sequence # rollout'[x].sequence
  <2>1. ASSUME NEW y \in Rollouts, rollout[y] # NoRollout
        PROVE  /\ rollout'[y].target = rollout[y].target
               /\ rollout'[y].sequence = rollout[y].sequence /\ rollout[y].sequence \in Nat
    BY <2>1, RolloutMoves, RolloutIsRow DEF TypeOK, RolloutRows
  <2>2. ASSUME NEW y \in Rollouts, NEW z \in Rollouts, rollout[y] = NoRollout, rollout'[y] # NoRollout,
               z # y, rollout'[z] # NoRollout, rollout'[y].target = rollout'[z].target
        PROVE  rollout'[y].sequence # rollout'[z].sequence
    <3>1. PICK p \in Plans : RequestRollout(y, p)
      BY <2>2, RolloutMoves
    <3>2. rollout[z] # NoRollout /\ z \in Requested
      BY <2>2, <3>1, NewRolloutIsLast DEF Requested
    <3>3. rollout'[y].sequence \in Nat
      BY <2>2, StepTyped DEF TypeOK, RolloutTypeOK, RolloutRows
    <3>4. QED
      BY <2>1, <2>2, <3>1, <3>2, <3>3, NewRolloutIsLast
  <2>3. CASE rollout[r] # NoRollout /\ rollout[x] # NoRollout
    BY <1>4, <2>1, <2>3 DEF OrderedPerTarget, Requested
  <2>4. QED
    BY <1>4, <2>2, <2>3
<1>5. QED
  BY <1>3, <1>4 DEF OrderedPerTarget, Proposed, Requested

\* Plans and rollouts of a target are totally ordered and at most one of its
\* plans awaits a decision.
THEOREM OrderIsTotal == Spec => []OrderedPerTarget
<1>1. Init => OrderedPerTarget
  BY DEF Init, PlanInit, RolloutInit, OrderedPerTarget, Proposed, Requested
<1>2. FrozenInv /\ OrderedPerTarget /\ [Next]_vars => OrderedPerTarget'
  BY OrderStep
<1>3. QED
  BY <1>1, <1>2, FrozenInvariant, PTL DEF Spec

\* A decommissioned target gets no new desired state, plan, rollout or launch.
THEOREM DecommissionEndsATarget == Spec => DecommissionIsFinal
<1> DEFINE Final(t) ==
      /\ target'[t] = target[t]
      /\ \A p \in Plans : plan[p] = NoPlan /\ plan'[p] # NoPlan => plan'[p].snapshot.target # t
      /\ \A r \in Rollouts :
           rollout[r] = NoRollout /\ rollout'[r] # NoRollout => rollout'[r].target # t
      /\ \A c \in consumed' \ consumed : rollout[c[1]].target # t
<1>1. ASSUME FrozenInv, [Next]_vars, NEW t \in Targets, target[t].status = "decommissioned"
      PROVE  Final(t)
  <2>1. target'[t] = target[t]
    <3>1. target \in [Targets -> TargetRows \cup {NoTarget}]
      BY <1>1 DEF FrozenInv, TypeOK, PlanTypeOK
    <3>2. ASSUME PlanNext(RolledOut)
          PROVE  target'[t] = target[t]
      <4>1. ASSUME NEW x \in Targets, RegisterTarget(x)
            PROVE  target'[t] = target[t]
        BY <1>1, <3>1, <4>1 DEF RegisterTarget, NoTarget
      <4>2. ASSUME NEW x \in Targets, SetDesiredState(x)
            PROVE  target'[t] = target[t]
        BY <1>1, <3>1, <4>2 DEF SetDesiredState
      <4>3. ASSUME NEW x \in Targets, SuspendTarget(x)
            PROVE  target'[t] = target[t]
        BY <1>1, <3>1, <4>3 DEF SuspendTarget, TargetTransition
      <4>4. ASSUME NEW x \in Targets, DecommissionTarget(x)
            PROVE  target'[t] = target[t]
        BY <1>1, <3>1, <4>4 DEF DecommissionTarget, TargetTransition
      <4>5. ASSUME NEW p \in Plans, NEW x \in Targets, NEW purpose \in ProposedPurposes,
                   NEW descriptor \in Descriptors, NEW operation \in ProposedOperations,
                   NEW execution \in Executions, NEW needs \in ApprovalModes,
                   NEW policy \in Policies \cup {None},
                   ProposePlan(p, x, purpose, descriptor, operation, execution, needs, policy)
            PROVE  target'[t] = target[t]
        BY <4>5 DEF ProposePlan
      <4>6. ASSUME NEW p \in Plans, NEW digest, NEW policy, NEW execution, NEW operation,
                   NEW decision, ApprovePlan(p, digest, policy, execution, operation, decision)
            PROVE  target'[t] = target[t]
        BY <4>6 DEF ApprovePlan
      <4>7. ASSUME NEW p \in Plans, NEW hasRollout,
                   RevokePlanApproval(p) \/ CancelPlan(p, hasRollout)
            PROVE  target'[t] = target[t]
        BY <4>7 DEF RevokePlanApproval, CancelPlan
      <4>8. QED
        BY <3>2, <4>1, <4>2, <4>3, <4>4, <4>5, <4>6, <4>7 DEF PlanNext
    <3>3. CASE UNCHANGED planVars
      BY <3>3 DEF planVars
    <3>4. QED
      BY <1>1, <3>2, <3>3, RolloutsKeepPlans DEF Next, vars
  <2>2. ASSUME NEW p \in Plans, plan[p] = NoPlan, plan'[p] # NoPlan
        PROVE  plan'[p].snapshot.target # t
    BY <1>1, <2>2, StepMovesPlans DEF FrozenInv, PlanStep, PlanArrives
  <2>3. ASSUME NEW r \in Rollouts, rollout[r] = NoRollout, rollout'[r] # NoRollout
        PROVE  rollout'[r].target # t
    <3>1. PICK p \in Plans : RequestRollout(r, p)
      BY <1>1, <2>3, RolloutMoves DEF FrozenInv
    <3>2. QED
      BY <1>1, <3>1, RequestRests DEF FrozenInv, RequestRollout
  <2>4. ASSUME NEW c \in consumed' \ consumed
        PROVE  rollout[c[1]].target # t
    <3>1. PICK r \in Rollouts, n \in AttemptNumbers : ConsumeDispatch(r, n) /\ c = <<r, n>>
      BY <1>1, <2>4 DEF Next, RolloutNext, vars, rolloutVars, RequestRollout, DispatchAttempt,
        ExpireAuthorization, SettleAttempt, CancelRollout, RequireManualRepair, ConsumeDispatch
    <3>2. QED
      BY <1>1, <3>1 DEF ConsumeDispatch
  <2>5. QED
    BY <2>1, <2>2, <2>3, <2>4
<1>2. FrozenInv /\ [Next]_vars =>
        \A t \in Targets : target[t].status = "decommissioned" => Final(t)
  BY <1>1
<1>3. QED
  BY <1>2, FrozenInvariant, PTL DEF Spec, DecommissionIsFinal

-----------------------------------------------------------------------------
(***************************************************************************)
(* RolloutControl implements LaunchAuthority.                              *)
(***************************************************************************)
liveBar == [r \in Rollouts |-> rollout[r] = NoRollout \/ ~Terminal(r)]
openBar == [r \in Rollouts |-> Pending(r) # {}]
launchedBar == [r \in Rollouts |-> {n \in AttemptNumbers : <<r, n>> \in consumed}]

\* A step that touches only the rollout r and leaves what the mapping reads of
\* every other one.
LEMMA OthersUntouched ==
  ASSUME NEW x \in Rollouts,
         UNCHANGED <<rollout[x], attempts[x], settlement[x]>>
  PROVE  liveBar'[x] = liveBar[x] /\ openBar'[x] = openBar[x]
BY DEF liveBar, openBar, Terminal, Pending

LEMMA StepImplements ==
  ASSUME LineInv, [Next]_vars
  PROVE  [Launches!Next]_(Launches!vars)
<1> USE DEF LineInv, TypeOK
<1> DEFINE Stutters == UNCHANGED <<liveBar, attempts, openBar, launchedBar>>
<1>0. /\ \A r \in Rollouts : Line(r)
      /\ rollout \in [Rollouts -> RolloutRows \cup {NoRollout}]
      /\ attempts \in [Rollouts -> 0..MaxAttempts] /\ MaxAttempts \in Nat
      /\ settlement \in [Rollouts -> [AttemptNumbers -> SettledOutcomes \cup {"pending"}]]
  BY RolloutInputs DEF AttemptInv, RolloutTypeOK
<1>m. /\ Stutters => UNCHANGED Launches!vars
      /\ \A r \in Rollouts :
           /\ Launches!Open(r) <=>
                /\ liveBar[r] /\ ~openBar[r]
                /\ attempts' = [attempts EXCEPT ![r] = @ + 1]
                /\ openBar' = [openBar EXCEPT ![r] = TRUE]
                /\ UNCHANGED <<liveBar, launchedBar>>
           /\ Launches!Launch(r) <=>
                /\ liveBar[r] /\ openBar[r] /\ attempts[r] \notin launchedBar[r]
                /\ launchedBar' = [launchedBar EXCEPT ![r] = @ \cup {attempts[r]}]
                /\ UNCHANGED <<liveBar, attempts, openBar>>
           /\ Launches!Finish(r) <=>
                /\ openBar[r]
                /\ openBar' = [openBar EXCEPT ![r] = FALSE]
                /\ \E l \in BOOLEAN : liveBar' = [liveBar EXCEPT ![r] = l /\ @]
                /\ UNCHANGED <<attempts, launchedBar>>
           /\ Launches!Withdraw(r) <=>
                /\ liveBar[r]
                /\ liveBar' = [liveBar EXCEPT ![r] = FALSE]
                /\ openBar' = [openBar EXCEPT ![r] = FALSE]
                /\ UNCHANGED <<attempts, launchedBar>>
  BY DEF Launches!vars, Launches!Open, Launches!Launch, Launches!Finish, Launches!Withdraw,
    liveBar, openBar, launchedBar
<1>1. ASSUME NEW r \in Rollouts, NEW p \in Plans, RequestRollout(r, p)
      PROVE  Stutters
  <2>1. \A x \in Rollouts : liveBar'[x] = liveBar[x] /\ openBar'[x] = openBar[x]
    <3> SUFFICES ASSUME NEW x \in Rollouts
                 PROVE  liveBar'[x] = liveBar[x] /\ openBar'[x] = openBar[x]
      OBVIOUS
    <3>1. CASE x = r
      <4>1. rollout[r] = NoRollout /\ rollout'[r].status = "requested"
        BY <1>0, <1>1 DEF RequestRollout
      <4>2. UNCHANGED <<attempts, settlement>>
        BY <1>1 DEF RequestRollout
      <4>3. QED
        BY <3>1, <4>1, <4>2 DEF liveBar, openBar, Pending, Terminal, TerminalRolloutStatuses
    <3>2. CASE x # r
      BY <1>0, <1>1, <3>2, OthersUntouched DEF RequestRollout
    <3>3. QED
      BY <3>1, <3>2
  <2>2. liveBar' = liveBar /\ openBar' = openBar
    BY <2>1 DEF liveBar, openBar
  <2>3. QED
    BY <1>1, <2>2 DEF RequestRollout, launchedBar
<1>2. ASSUME NEW r \in Rollouts, DispatchAttempt(r)
      PROVE  Launches!Open(r)
  <2>1. /\ rollout[r] # NoRollout /\ ~Terminal(r) /\ Pending(r) = {}
        /\ attempts[r] < MaxAttempts /\ attempts' = [attempts EXCEPT ![r] = @ + 1]
        /\ UNCHANGED <<settlement, consumed>>
    BY <1>2 DEF DispatchAttempt
  <2>2. Line(r)' /\ rollout'[r].status \notin TerminalRolloutStatuses
    <3>1. rollout[r].status \notin TerminalRolloutStatuses
      BY <2>1 DEF Terminal
    <3>2. rollout'[r].status = IF rollout[r].status = "requested" THEN "dispatched"
                               ELSE rollout[r].status
      BY <1>0, <1>2, RolloutIsRow DEF DispatchAttempt, RolloutRows
    <3>3. QED
      BY <3>1, <3>2, AttemptInvStep DEF AttemptInv, TerminalRolloutStatuses
  <2>3. Pending(r)' # {}
    <3>1. attempts'[r] = attempts[r] + 1 /\ attempts[r] \in Nat
      BY <1>0, <2>1
    <3>2. attempts'[r] \in AttemptNumbers /\ attempts'[r] \in 1..attempts'[r]
      BY <1>0, <2>1, <3>1 DEF AttemptNumbers
    <3>3. settlement[r][attempts'[r]] = "pending"
      BY <1>0, <3>1, <3>2 DEF Line
    <3>4. QED
      BY <2>1, <3>2, <3>3 DEF Pending
  <2>4. \A x \in Rollouts : x # r => liveBar'[x] = liveBar[x] /\ openBar'[x] = openBar[x]
    BY <1>0, <1>2, OthersUntouched DEF DispatchAttempt
  <2>5. liveBar[r] /\ liveBar'[r] /\ ~openBar[r] /\ openBar'[r]
    BY <2>1, <2>2, <2>3 DEF liveBar, openBar, Terminal
  <2>6. liveBar' = liveBar /\ openBar' = [openBar EXCEPT ![r] = TRUE]
    BY <2>4, <2>5 DEF liveBar, openBar
  <2>7. launchedBar' = launchedBar
    BY <2>1 DEF launchedBar
  <2>8. QED
    BY <1>m, <2>1, <2>5, <2>6, <2>7
<1>3. ASSUME NEW r \in Rollouts, NEW n \in AttemptNumbers, NEW outcome \in ReportedOutcomes,
             SettleAttempt(r, n, outcome)
      PROVE  Launches!Finish(r)
  <2>1. /\ rollout[r] # NoRollout /\ n \in Pending(r)
        /\ settlement'[r] = [settlement[r] EXCEPT ![n] = outcome]
        /\ UNCHANGED <<attempts, consumed>>
    BY <1>0, <1>3 DEF SettleAttempt
  <2>2. openBar[r] /\ liveBar[r]
    BY <1>0, <2>1 DEF openBar, liveBar, Line
  <2>3. Pending(r)' = {}
    <3>1. Pending(r) \subseteq {n} /\ outcome # "pending"
      BY <1>0, <2>1, RolloutInputs DEF Line, SettledOutcomes
    <3>2. \A m \in 1..attempts[r] : m \in AttemptNumbers
      BY <1>0 DEF AttemptNumbers
    <3>3. QED
      BY <1>0, <2>1, <3>1, <3>2 DEF Pending
  <2>4. \A x \in Rollouts : x # r => liveBar'[x] = liveBar[x] /\ openBar'[x] = openBar[x]
    BY <1>0, <1>3, OthersUntouched DEF SettleAttempt
  <2>5. openBar' = [openBar EXCEPT ![r] = FALSE]
    BY <2>3, <2>4 DEF openBar
  <2>6. liveBar' = [liveBar EXCEPT ![r] = liveBar'[r] /\ @] /\ liveBar'[r] \in BOOLEAN
    BY <2>2, <2>4 DEF liveBar, Terminal
  <2>7. launchedBar' = launchedBar
    BY <2>1 DEF launchedBar
  <2>8. QED
    BY <1>m, <2>1, <2>2, <2>5, <2>6, <2>7
<1>4. ASSUME NEW r \in Rollouts, CancelRollout(r)
      PROVE  Launches!Withdraw(r)
  <2>1. /\ rollout[r] # NoRollout /\ ~Terminal(r)
        /\ rollout'[r] = [rollout[r] EXCEPT !.status = "cancelled"]
        /\ settlement'[r] = [n \in AttemptNumbers |->
             IF n \in Pending(r) THEN "cancelled" ELSE settlement[r][n]]
        /\ UNCHANGED <<attempts, consumed>>
    BY <1>0, <1>4 DEF CancelRollout
  <2>2. rollout'[r].status = "cancelled" /\ rollout'[r] # NoRollout
    BY <1>4, <2>1, RolloutIsRow, RolloutMoves DEF RolloutRows
  <2>3. Pending(r)' = {}
    <3>1. \A n \in 1..attempts[r] : n \in AttemptNumbers
      BY <1>0 DEF AttemptNumbers
    <3>2. QED
      BY <2>1, <3>1 DEF Pending
  <2>4. \A x \in Rollouts : x # r => liveBar'[x] = liveBar[x] /\ openBar'[x] = openBar[x]
    BY <1>0, <1>4, OthersUntouched DEF CancelRollout
  <2>5. liveBar[r] /\ ~liveBar'[r] /\ ~openBar'[r]
    BY <2>1, <2>2, <2>3 DEF liveBar, openBar, Terminal, TerminalRolloutStatuses
  <2>6. liveBar' = [liveBar EXCEPT ![r] = FALSE] /\ openBar' = [openBar EXCEPT ![r] = FALSE]
    BY <2>4, <2>5 DEF liveBar, openBar
  <2>7. launchedBar' = launchedBar
    BY <2>1 DEF launchedBar
  <2>8. QED
    BY <1>m, <2>1, <2>5, <2>6, <2>7
<1>5. ASSUME NEW r \in Rollouts, RequireManualRepair(r)
      PROVE  Stutters
  <2>1. /\ rollout[r] # NoRollout /\ ~Terminal(r)
        /\ rollout'[r] = [rollout[r] EXCEPT !.status = "manual_repair"]
        /\ UNCHANGED <<attempts, settlement, consumed>>
    BY <1>0, <1>5 DEF RequireManualRepair
  <2>2. rollout'[r].status = "manual_repair"
    BY <2>1, RolloutIsRow DEF RolloutRows
  <2>3. liveBar'[r] = liveBar[r] /\ openBar'[r] = openBar[r]
    BY <2>1, <2>2 DEF liveBar, openBar, Terminal, TerminalRolloutStatuses, Pending
  <2>4. \A x \in Rollouts : x # r => liveBar'[x] = liveBar[x] /\ openBar'[x] = openBar[x]
    BY <1>0, <1>5, OthersUntouched DEF RequireManualRepair
  <2>5. liveBar' = liveBar /\ openBar' = openBar
    BY <2>3, <2>4 DEF liveBar, openBar
  <2>6. QED
    BY <2>1, <2>5 DEF launchedBar
<1>6. ASSUME NEW r \in Rollouts, NEW n \in AttemptNumbers, ConsumeDispatch(r, n)
      PROVE  Launches!Launch(r)
  <2>1. /\ rollout[r] # NoRollout /\ ~Terminal(r)
        /\ n \in Pending(r) /\ <<r, n>> \notin consumed
        /\ consumed' = consumed \cup {<<r, n>>}
        /\ UNCHANGED <<rollout, attempts, settlement>>
    BY <1>6 DEF ConsumeDispatch, AttemptIsOpen
  <2>2. n = attempts[r]
    BY <1>0, <2>1 DEF Line
  <2>3. liveBar[r] /\ openBar[r] /\ attempts[r] \notin launchedBar[r]
    BY <2>1, <2>2 DEF liveBar, openBar, launchedBar
  <2>4. UNCHANGED <<liveBar, attempts, openBar>>
    BY <2>1 DEF liveBar, openBar, Terminal, Pending
  <2>5. launchedBar' = [launchedBar EXCEPT ![r] = @ \cup {attempts[r]}]
    <3>1. \A x \in Rollouts : launchedBar'[x] = IF x = r THEN launchedBar[r] \cup {n} ELSE launchedBar[x]
      BY <2>1 DEF launchedBar
    <3>2. QED
      BY <2>2, <3>1 DEF launchedBar
  <2>6. QED
    BY <1>m, <2>3, <2>4, <2>5
<1>7. CASE UNCHANGED <<rollout, attempts, settlement, consumed>>
  BY <1>7, <1>m DEF liveBar, openBar, launchedBar, Terminal, Pending
<1>8. QED
  BY <1>1, <1>2, <1>3, <1>4, <1>5, <1>6, <1>7, <1>m
  DEF Next, RolloutNext, vars, rolloutVars, ExpireAuthorization, Launches!Next

\* The control plane launches as LaunchAuthority says: each attempt at most
\* once, while it is the one open attempt of a rollout that is not settled.
THEOREM Implementation == Spec => LaunchesAreAuthorized
<1>1. ASSUME Init
      PROVE  Launches!Init
  <2>1. \A r \in Rollouts : rollout[r] = NoRollout /\ attempts[r] = 0
    BY <1>1 DEF Init, RolloutInit
  <2>2. \A r \in Rollouts : Pending(r) = {}
    BY <2>1 DEF Pending
  <2>3. liveBar = [r \in Rollouts |-> TRUE]
    BY <2>1 DEF liveBar
  <2>4. openBar = [r \in Rollouts |-> FALSE]
    BY <2>2 DEF openBar
  <2>5. attempts = [r \in Rollouts |-> 0] /\ launchedBar = [r \in Rollouts |-> {}]
    BY <1>1 DEF Init, RolloutInit, launchedBar
  <2>6. QED
    BY <2>3, <2>4, <2>5 DEF Launches!Init, liveBar, openBar, launchedBar
<1>2. LineInv /\ [Next]_vars => [Launches!Next]_(Launches!vars)
  BY StepImplements
<1>3. QED
  BY <1>1, <1>2, LineInvariant, PTL DEF Spec, LaunchesAreAuthorized, Launches!Spec
-----------------------------------------------------------------------------
(***************************************************************************)
(* find_approved_plan, which reads the plan and the rollout at different   *)
(* instants while every writer goes on.                                    *)
(***************************************************************************)
\* What a call holds between its two statements: a row whose terms stood, that
\* says what the plan still says, and a rollout of it seen only where the answer
\* was true at some instant.
LoadedInv ==
  reader.step = "row" =>
    LET ask == reader.ask
        row == reader.row
    IN /\ ask \in Questions /\ row \in PlanRows
       /\ DecisionRecorded(row) /\ row.status = "approved" /\ row.decision = "granted"
       /\ ask.expected \in {None, row.execution}
       /\ plan[ask.plan] # NoPlan
       /\ plan[ask.plan].requiresApproval /\ plan[ask.plan].execution = row.execution
       /\ rollout[ask.rollout] # NoRollout /\ rollout[ask.rollout].plan = ask.plan =>
            stood

\* What an answer goes on resting on.
AnsweredInv ==
  reader.step = "authorized" =>
    LET ask == reader.ask
    IN /\ ask \in Questions
       /\ stood
       /\ rollout[ask.rollout] # NoRollout
       /\ rollout[ask.rollout].plan = ask.plan
       /\ ask.expected \in {None, rollout[ask.rollout].envelope.execution}

LookupInv == LookupTypeOK /\ LoadedInv /\ AnsweredInv

\* A call of find_approved_plan changes nothing that the writers see.
LEMMA LookupOnlyReads == [LookupNext]_lookupVars => [Next]_vars
BY DEF LookupNext, LoadPlan, LoadAuthorization, Commit, lookupVars

LEMMA LookupUsesPlans == LookupSpec => Spec
<1>1. LookupInit => Init
  BY DEF LookupInit
<1>2. QED
  BY <1>1, LookupOnlyReads, PTL DEF LookupSpec, Spec

\* A row that passes the ladder stands, and binds the execution expected.
LEMMA TermsStand ==
  ASSUME NEW row \in PlanRows, DecisionRecorded(row), NEW expected,
         FirstRefusal(TermsRefusal(row), ExpectationRefusal(row, expected)) = "none"
  PROVE  /\ row.status = "approved" /\ row.decision = "granted"
         /\ row.requiresApproval
         /\ row.authorizedExecution = row.execution /\ row.execution # None
         /\ expected \in {None, row.execution}
<1>1. TermsRefusal(row) = "none" /\ ExpectationRefusal(row, expected) = "none"
  BY DEF FirstRefusal
<1>2. /\ row.status = "approved" /\ row.decision # "revoked" /\ row.decision # None
      /\ row.authorizedExecution # None
  BY <1>1 DEF TermsRefusal
<1>3. row.decision = "granted"
  BY <1>2 DEF PlanRows, DecisionStatuses
<1>4. row.requiresApproval /\ row.authorizedExecution = row.execution
  BY <1>2 DEF DecisionRecorded
<1>5. expected = None \/ expected = row.authorizedExecution
  BY <1>1 DEF ExpectationRefusal
<1> QED BY <1>2, <1>3, <1>4, <1>5

LEMMA RefusalsAreKnown ==
  ASSUME NEW row, NEW expected
  PROVE  /\ FirstRefusal(TermsRefusal(row), ExpectationRefusal(row, expected))
              \in Refusals \cup {"none"}
         /\ \A p, r : AuthorizationAnswer(row, p, r) \in Refusals \cup {"authorized"}
<1>1. TermsRefusal(row) \in Refusals \cup {"none"}
  BY DEF TermsRefusal, Refusals
<1>2. ExpectationRefusal(row, expected) \in Refusals \cup {"none"}
  BY DEF ExpectationRefusal, Refusals
<1>3. \A p, r : AuthorizationAnswer(row, p, r) \in Refusals \cup {"authorized"}
  BY DEF AuthorizationAnswer, Refusals
<1> QED BY <1>1, <1>2, <1>3 DEF FirstRefusal

LEMMA LoadingPlan ==
  ASSUME FrozenInv, LookupInv, NEW ask \in Questions, LoadPlan(ask)
  PROVE  LookupInv'
<1> DEFINE row == plan[ask.plan]
           refusal == FirstRefusal(TermsRefusal(row), ExpectationRefusal(row, ask.expected))
<1>1. ask.plan \in Plans /\ row # NoPlan /\ row \in PlanRows /\ DecisionRecorded(row)
  BY DEF LoadPlan, Questions, FrozenInv, PlanInv, Proposed, PlanTypeOK
<1>2. UNCHANGED vars /\ TypeOK' /\ plan' = plan /\ rollout' = rollout
  BY DEF LoadPlan, FrozenInv, vars, planVars, rolloutVars, TypeOK, PlanTypeOK, RolloutTypeOK
<1>3. stood' = Stands(ask) /\ stood' \in BOOLEAN
  BY DEF LoadPlan, Stands
<1>4. CASE refusal = "none"
  <2>1. reader' = Loaded(ask, row)
    BY <1>4 DEF LoadPlan
  <2>2. reader'.step = "row" /\ reader'.ask = ask /\ reader'.row = row
    BY <2>1 DEF Loaded
  <2>3. /\ row.status = "approved" /\ row.decision = "granted" /\ row.requiresApproval
        /\ ask.expected \in {None, row.execution}
    BY <1>1, <1>4, TermsStand
  <2>4. rollout[ask.rollout] # NoRollout /\ rollout[ask.rollout].plan = ask.plan => stood'
    BY <1>1, <1>3, <2>3 DEF Stands
  <2>5. LookupTypeOK'
    BY <1>1, <1>2, <1>3, <2>1 DEF LookupTypeOK, Loaded
  <2>6. LoadedInv'
    BY <1>1, <1>2, <2>2, <2>3, <2>4 DEF LoadedInv, DecisionRecorded
  <2>7. AnsweredInv'
    BY <2>2 DEF AnsweredInv
  <2> QED BY <2>5, <2>6, <2>7 DEF LookupInv
<1>5. CASE refusal # "none"
  <2>1. reader' = Refused(refusal) /\ refusal \in Refusals
    BY <1>5, RefusalsAreKnown DEF LoadPlan
  <2> HIDE DEF refusal
  <2>2. reader'.step = "refused" /\ reader' \in [step: {"refused"}, code: Refusals]
    BY <2>1 DEF Refused
  <2> QED BY <1>2, <1>3, <2>2 DEF LookupInv, LookupTypeOK, LoadedInv, AnsweredInv
<1> QED BY <1>4, <1>5

LEMMA LoadingAuthorization ==
  ASSUME FrozenInv, LookupInv, LoadAuthorization
  PROVE  LookupInv'
<1> DEFINE ask == reader.ask
           row == reader.row
           r == ask.rollout
           answer == AuthorizationAnswer(row, ask.plan, r)
<1>1. /\ ask \in Questions /\ row \in PlanRows /\ DecisionRecorded(row)
      /\ row.decision = "granted" /\ ask.expected \in {None, row.execution}
      /\ rollout[r] # NoRollout /\ rollout[r].plan = ask.plan => stood
  BY DEF LoadAuthorization, LookupInv, LoadedInv
<1>2. TypeOK' /\ plan' = plan /\ rollout' = rollout /\ stood' = stood /\ stood \in BOOLEAN
  BY DEF LoadAuthorization, FrozenInv, vars, planVars, rolloutVars, TypeOK, PlanTypeOK,
         RolloutTypeOK, LookupInv, LookupTypeOK
<1>3. CASE answer = "authorized"
  <2>1. reader' = Authorized(ask)
    BY <1>3 DEF LoadAuthorization
  <2>2. reader'.step = "authorized" /\ reader'.ask = ask
          /\ reader' \in [step: {"authorized"}, ask: Questions]
    BY <1>1, <2>1 DEF Authorized
  <2>3. rollout[r] # NoRollout /\ rollout[r].plan = ask.plan
          /\ rollout[r].envelope.execution = ExecutionFor(row)
    BY <1>3 DEF AuthorizationAnswer, SignedFor
  <2>4. ExecutionFor(row) = row.execution
    BY <1>1, NoneIsNoValue DEF ExecutionFor, DecisionRecorded
  <2> HIDE DEF ask, r
  <2>5. AnsweredInv'
    BY <1>1, <1>2, <2>2, <2>3, <2>4 DEF AnsweredInv, r
  <2> QED BY <1>2, <2>2, <2>5 DEF LookupInv, LookupTypeOK, LoadedInv
<1>4. CASE answer # "authorized"
  <2>1. reader' = Refused(answer) /\ answer \in Refusals
    BY <1>4, RefusalsAreKnown DEF LoadAuthorization
  <2> HIDE DEF answer
  <2>2. reader'.step = "refused" /\ reader' \in [step: {"refused"}, code: Refusals]
    BY <2>1 DEF Refused
  <2> QED BY <1>2, <2>2 DEF LookupInv, LookupTypeOK, LoadedInv, AnsweredInv
<1> QED BY <1>3, <1>4

\* Whatever commits between the two statements: a rollout that appears for the
\* plan asked about finds it approved and granted.
LEMMA CommitsBetween ==
  ASSUME FrozenInv, LookupInv, Commit
  PROVE  LookupInv'
<1>1. [Next]_vars /\ reader' = reader
        /\ stood' = (stood \/ (reader.step = "row" /\ Stands(reader.ask)'))
  BY DEF Commit
<1>2. stood \in BOOLEAN /\ stood' \in BOOLEAN /\ (stood => stood')
  BY <1>1 DEF LookupInv, LookupTypeOK, Stands
<1>3. LookupTypeOK'
  BY <1>1, <1>2, StepTyped DEF FrozenInv, LookupInv, LookupTypeOK
<1>4. \A r \in Rollouts : rollout[r] # NoRollout =>
        /\ rollout'[r] # NoRollout /\ rollout'[r].plan = rollout[r].plan
        /\ rollout'[r].envelope = rollout[r].envelope
  BY <1>1, RolloutMoves, RolloutIsRow DEF FrozenInv, TypeOK, RolloutRows
<1>5. ASSUME reader.step = "row"
      PROVE  LoadedInv'
  <2> DEFINE ask == reader.ask
             row == reader.row
             p == ask.plan
             r == ask.rollout
  <2>1. /\ ask \in Questions /\ row \in PlanRows
        /\ DecisionRecorded(row) /\ row.status = "approved" /\ row.decision = "granted"
        /\ ask.expected \in {None, row.execution}
        /\ plan[p] # NoPlan /\ plan[p].requiresApproval /\ plan[p].execution = row.execution
        /\ rollout[r] # NoRollout /\ rollout[r].plan = p => stood
    BY <1>5 DEF LookupInv, LoadedInv
  <2>2. p \in Plans /\ r \in Rollouts /\ plan[p] \in PlanRows
    BY <2>1 DEF Questions, FrozenInv, PlanInv, PlanTypeOK
  <2>3. /\ plan'[p] # NoPlan /\ plan'[p].requiresApproval
        /\ plan'[p].execution = row.execution
    BY <1>1, <2>1, <2>2, StepMovesPlans, MoveFreezes DEF FrozenInv, PlanStep
  <2>4. ASSUME rollout'[r] # NoRollout, rollout'[r].plan = p
        PROVE  stood'
    <3>1. CASE rollout[r] # NoRollout
      BY <1>2, <1>4, <2>1, <2>2, <2>4, <3>1
    <3>2. CASE rollout[r] = NoRollout
      <4>1. PICK q \in Plans : RequestRollout(r, q)
        BY <1>1, <2>2, <2>4, <3>2, RolloutMoves DEF FrozenInv
      <4>2. q = p /\ plan' = plan
        BY <2>2, <2>4, <4>1 DEF RequestRollout, planVars, FrozenInv, TypeOK, RolloutTypeOK
      <4>3. plan[p].status = "approved" /\ plan[p].decision \in {"granted", "approval_exempt"}
        BY <2>1, <4>1, <4>2 DEF RequestRollout, MayRollOut, DecisionFor
      <4>4. plan[p].decision = "granted"
        <5>1. DecisionRecorded(plan[p]) /\ plan[p].decision \in DecisionStatuses \cup {None}
          BY <2>1, <2>2 DEF FrozenInv, PlanInv, Proposed, PlanRows
        <5> QED BY <4>3, <5>1 DEF DecisionRecorded, DecisionStatuses
      <4>5. Stands(reader.ask)'
        <5>1. reader'.ask = ask
          BY <1>1
        <5> QED BY <2>1, <2>4, <4>2, <4>3, <4>4, <5>1 DEF Stands
      <4> QED BY <1>1, <1>5, <4>5
    <3> QED BY <3>1, <3>2
  <2> QED BY <1>1, <2>1, <2>3, <2>4 DEF LoadedInv
<1>6. ASSUME reader.step = "authorized"
      PROVE  AnsweredInv'
  <2>1. reader.ask.rollout \in Rollouts
    BY <1>6 DEF LookupInv, AnsweredInv, Questions
  <2> QED BY <1>1, <1>2, <1>4, <1>6, <2>1 DEF LookupInv, AnsweredInv
<1> QED BY <1>1, <1>3, <1>5, <1>6 DEF LookupInv, LoadedInv, AnsweredInv

\* No approval authorizes another execution or operation than was proposed.
LEMMA BindingsMatch == FrozenInv => NeverDiverges
<1> SUFFICES ASSUME FrozenInv, NEW p \in Proposed
             PROVE  BindingStanding(plan[p]) # "diverges"
  BY DEF NeverDiverges
<1>1. DecisionRecorded(plan[p])
  BY DEF FrozenInv, PlanInv
<1> QED BY <1>1 DEF DecisionRecorded, BindingStanding

\* An authorization answered by find_approved_plan was true of the database at
\* one instant of the call, says what was signed under the digest asked for, and
\* agrees with the plan pages, whatever commits between its statements.
THEOREM LookupsStand == LookupSpec => []LookupStands
<1>1. LookupInit => LookupInv
  <2> SUFFICES ASSUME LookupInit PROVE LookupInv
    OBVIOUS
  <2>1. TypeOK
    BY RolloutInputs
    DEF LookupInit, Init, PlanInit, RolloutInit, TypeOK, PlanTypeOK, RolloutTypeOK, Lifetimes
  <2> QED BY <2>1 DEF LookupInit, NoReader, LookupInv, LookupTypeOK, LoadedInv, AnsweredInv
<1>2. FrozenInv /\ FrozenInv' /\ LookupInv /\ [LookupNext]_lookupVars => LookupInv'
  <2>1. ASSUME LookupInv, UNCHANGED lookupVars
        PROVE  LookupInv'
    BY <2>1 DEF lookupVars, vars, planVars, rolloutVars, LookupInv, LookupTypeOK, TypeOK,
      PlanTypeOK, RolloutTypeOK, LoadedInv, AnsweredInv
  <2> QED BY <2>1, LoadingPlan, LoadingAuthorization, CommitsBetween DEF LookupNext
<1>3. ASSUME FrozenInv, LookupInv
      PROVE  LookupStands
  <2>1. AnswerIsSigned
    <3> SUFFICES ASSUME reader.step = "authorized"
                 PROVE  LET signed == rollout[reader.ask.rollout].envelope
                        IN /\ PlanDigest(signed.snapshot) =
                                PlanDigest(plan[reader.ask.plan].snapshot)
                           /\ reader.ask.expected \in {None, signed.execution}
      BY DEF AnswerIsSigned
    <3>1. /\ reader.ask.rollout \in Requested
          /\ rollout[reader.ask.rollout].plan = reader.ask.plan
          /\ reader.ask.expected \in {None, rollout[reader.ask.rollout].envelope.execution}
      BY <1>3 DEF LookupInv, AnsweredInv, Questions, Requested
    <3> QED BY <1>3, <3>1 DEF FrozenInv, RestInv, EnvelopeSaysWhatWasFrozen
  <2> QED BY <1>3, <2>1, BindingsMatch
          DEF LookupStands, LookupInv, AnsweredInv, AuthorizedWasTrue
<1>4. QED
  BY <1>1, <1>2, <1>3, LookupUsesPlans, FrozenInvariant, PTL DEF LookupSpec
=============================================================================
