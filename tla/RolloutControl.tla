----------------------------- MODULE RolloutControl -----------------------------
(***************************************************************************)
(* Rollouts, their attempts and settlements, and the single-use consumption*)
(* of a dispatch: the second half of service.py, composed with FleetPlans. *)
(*                                                                         *)
(* request_rollout, dispatch_attempt and the consumption lock target, plan *)
(* and rollout in that order; settle_attempt, cancel_rollout and           *)
(* require_manual_repair lock the rollout only.  Whatever a handler reads  *)
(* it reads after the lock that serializes the writers of that row, so a   *)
(* handler is one atomic action.  The exception is the clock of            *)
(* dispatch_attempt, read before the call waits for its lock: a call may   *)
(* open an attempt under an authorization that expired while it waited.    *)
(***************************************************************************)
EXTENDS FleetPlans

CONSTANTS
  Rollouts,          \* rollout_refs callers use
  ReportedOutcomes,  \* the outcomes integrators report
  MaxAttempts        \* bound on the attempts of one rollout

VARIABLES
  rollout,       \* the rollouts rows, with the signed envelope of each
  attempts,      \* rollout_attempts: the highest attempt_no of each rollout
  settlement,    \* rollout_attempt_settlements: outcome by rollout, attempt_no
  consumed,      \* dispatch ids spent in the platform idempotency ledger
  lifetime       \* how the clock stands to expires_at of each authorization

rolloutVars == <<rollout, attempts, settlement, consumed, lifetime>>
vars == <<planVars, rolloutVars>>

RolloutStatuses ==
  {"requested", "dispatched", "succeeded", "failed", "timed_out", "cancelled",
   "manual_repair"}
\* Faulty variant: a rollout that succeeded can be retried.
RetriableSuccess == {"cancelled"}

TerminalRolloutStatuses == {"succeeded", "cancelled"}
SettledOutcomes == {"succeeded", "failed", "timed_out", "cancelled"}

ASSUME RolloutInputs ==
  /\ ReportedOutcomes \subseteq SettledOutcomes
  /\ MaxAttempts \in Nat

AttemptNumbers == 1..MaxAttempts

\* "waiting": past expires_at, while a dispatch_attempt that read its clock
\* before that still waits for its lock.
Lifetimes == {"valid", "waiting", "expired"}

\* The signed authorization: what it binds of the plan.
Envelopes ==
  [plan: Plans, snapshot: Snapshots, operation: Operations,
   execution: Executions, decision: {"granted", "approval_exempt"}]
RolloutRows ==
  [status: RolloutStatuses, plan: Plans, target: Targets,
   sequence: Nat \ {0}, envelope: Envelopes]
NoRollout == [status |-> "absent"]

RolloutTypeOK ==
  /\ rollout \in [Rollouts -> RolloutRows \cup {NoRollout}]
  /\ attempts \in [Rollouts -> 0..MaxAttempts]
  /\ settlement \in [Rollouts -> [AttemptNumbers -> SettledOutcomes \cup {"pending"}]]
  /\ consumed \subseteq Rollouts \X AttemptNumbers
  /\ lifetime \in [Rollouts -> Lifetimes]

\* Every variable holds rows of its table, and no others.
TypeOK == PlanTypeOK /\ RolloutTypeOK

Requested == {r \in Rollouts : rollout[r] # NoRollout}
Terminal(r) == rollout[r].status \in TerminalRolloutStatuses

\* An attempt with no settlement row is in flight.
Pending(r) == {n \in 1..attempts[r] : settlement[r][n] = "pending"}

RolloutInit ==
  /\ rollout = [r \in Rollouts |-> NoRollout]
  /\ attempts = [r \in Rollouts |-> 0]
  /\ settlement = [r \in Rollouts |-> [n \in AttemptNumbers |-> "pending"]]
  /\ consumed = {}
  /\ lifetime = [r \in Rollouts |-> "valid"]

Init == PlanInit /\ RolloutInit

-----------------------------------------------------------------------------
\* What approval_decision_status reads in the envelope of a rollout of the plan.
DecisionFor(row) == IF row.requiresApproval THEN row.decision ELSE "approval_exempt"

\* The operation and execution plan an envelope signs: what the approval
\* authorized, or, for a plan that needed none, what was proposed.
OperationFor(row) ==
  IF row.authorizedOperation # None THEN row.authorizedOperation ELSE row.operation

\* Faulty variant: no fallback for a plan that needed no approval.
AuthorizedExecutionOnly(row) == row.authorizedExecution

ExecutionFor(row) ==
  IF row.authorizedExecution # None THEN row.authorizedExecution ELSE row.execution

\* Faulty variant: the desired state is read again when the rollout is requested.
EnvelopeOfDesiredState(p) ==
  [plan |-> p,
   snapshot |-> [plan[p].snapshot EXCEPT !.revision = target[plan[p].snapshot.target].revision],
   operation |-> OperationFor(plan[p]), execution |-> ExecutionFor(plan[p]),
   decision |-> DecisionFor(plan[p])]

EnvelopeFor(p) ==
  [plan |-> p, snapshot |-> plan[p].snapshot, operation |-> OperationFor(plan[p]),
   execution |-> ExecutionFor(plan[p]), decision |-> DecisionFor(plan[p])]

\* A plan that requires approval must be approved, an exempt one not withdrawn,
\* and no revoked decision can be rolled out.
MayRollOut(row) ==
  /\ row.snapshot.purpose = "foundation_execution"
  /\ row.requiresApproval => row.status = "approved"
  /\ row.decision # "revoked"
  /\ ~row.requiresApproval => row.status \in {"proposed", "approved"}

\* A rollout_ref that already names the plan returns it, changing nothing; one
\* that names another plan is refused.
RequestRollout(r, p) ==
  LET t == plan[p].snapshot.target
  IN
  /\ rollout[r] = NoRollout
  /\ plan[p] # NoPlan
  /\ MayRollOut(plan[p])
  /\ target[t].status = "active"
  /\ OperationFor(plan[p]) \in ExecutorOperations
  /\ DecisionFor(plan[p]) \in {"granted", "approval_exempt"}
  /\ \E s \in Following({rollout[q].sequence : q \in {x \in Requested : rollout[x].target = t}}) :
       rollout' = [rollout EXCEPT
         ![r] = [status |-> "requested", plan |-> p, target |-> t,
                 sequence |-> s, envelope |-> EnvelopeFor(p)]]
  /\ UNCHANGED <<planVars, attempts, settlement, consumed, lifetime>>

\* _verified_rollout_envelope: the stored envelope must still say what the plan
\* says, under a decision that stands.
EnvelopeBinds(r) ==
  /\ rollout[r].envelope.plan = rollout[r].plan
  /\ rollout[r].envelope.snapshot = plan[rollout[r].plan].snapshot
  /\ rollout[r].envelope.operation = OperationFor(plan[rollout[r].plan])
  /\ rollout[r].envelope.execution = ExecutionFor(plan[rollout[r].plan])
  /\ rollout[r].envelope.decision =
       IF plan[rollout[r].plan].requiresApproval THEN "granted" ELSE "approval_exempt"

\* The attempt opens under the clock read at the start of the call, whatever the
\* time is now.  Nothing here looks at the target's status.
DispatchAttempt(r) ==
  /\ rollout[r] # NoRollout
  /\ lifetime[r] # "expired"
  /\ ~Terminal(r)
  /\ plan[rollout[r].plan].snapshot.purpose = "foundation_execution"
  /\ plan[rollout[r].plan].decision # "revoked"
  /\ EnvelopeBinds(r)
  /\ Pending(r) = {}
  /\ attempts[r] < MaxAttempts
  /\ rollout[r].envelope.operation \in ExecutorOperations
  /\ attempts' = [attempts EXCEPT ![r] = @ + 1]
  /\ rollout' = [rollout EXCEPT
       ![r].status = IF @ = "requested" THEN "dispatched" ELSE @]
  /\ lifetime' = [lifetime EXCEPT ![r] = IF @ = "waiting" THEN "expired" ELSE @]
  /\ UNCHANGED <<planVars, settlement, consumed>>

\* The clock passes expires_at.
ExpireAuthorization(r) ==
  /\ rollout[r] # NoRollout
  /\ lifetime[r] = "valid"
  /\ \E l \in {"waiting", "expired"} : lifetime' = [lifetime EXCEPT ![r] = l]
  /\ UNCHANGED <<planVars, rollout, attempts, settlement, consumed>>

\* What a settled attempt makes of the status of its rollout: a cancelled
\* attempt leaves it alone.
StatusAfter(status, outcome) == IF outcome = "cancelled" THEN status ELSE outcome

\* Faulty variant: a later report overwrites the first settlement.
ResettleAttempt(r, n, outcome) ==
  /\ rollout[r] # NoRollout
  /\ n \in 1..attempts[r]
  /\ settlement' = [settlement EXCEPT ![r][n] = outcome]
  /\ rollout' = [rollout EXCEPT ![r].status = StatusAfter(@, outcome)]
  /\ UNCHANGED <<planVars, attempts, consumed, lifetime>>

\* Nothing but the existence of an unsettled attempt is checked: not the status
\* of the rollout, nor whether the attempt was consumed.
SettleAttempt(r, n, outcome) ==
  /\ rollout[r] # NoRollout
  /\ n \in Pending(r)
  /\ settlement' = [settlement EXCEPT ![r][n] = outcome]
  /\ rollout' = [rollout EXCEPT ![r].status = StatusAfter(@, outcome)]
  /\ UNCHANGED <<planVars, attempts, consumed, lifetime>>

\* Faulty variant: the attempt in flight is left unsettled.
CancelRolloutOnly(r) ==
  /\ rollout[r] # NoRollout
  /\ ~Terminal(r)
  /\ rollout' = [rollout EXCEPT ![r].status = "cancelled"]
  /\ UNCHANGED <<planVars, attempts, settlement, consumed, lifetime>>

\* cancel_rollout settles what is in flight in the same transaction.
CancelRollout(r) ==
  /\ rollout[r] # NoRollout
  /\ ~Terminal(r)
  /\ rollout' = [rollout EXCEPT ![r].status = "cancelled"]
  /\ settlement' = [settlement EXCEPT
       ![r] = [n \in AttemptNumbers |-> IF n \in Pending(r) THEN "cancelled" ELSE @[n]]]
  /\ UNCHANGED <<planVars, attempts, consumed, lifetime>>

RequireManualRepair(r) ==
  /\ rollout[r] # NoRollout
  /\ ~Terminal(r)
  /\ rollout' = [rollout EXCEPT ![r].status = "manual_repair"]
  /\ UNCHANGED <<planVars, attempts, settlement, consumed, lifetime>>

-----------------------------------------------------------------------------
\* Faulty variant: what the approval authorized is not compared.
ProposedTermsAgree(r) ==
  LET row == plan[rollout[r].plan]
      signed == rollout[r].envelope
  IN row.operation = signed.operation /\ row.execution = signed.execution

\* The locked plan and target must agree with the exact signed pair.  A plan
\* that was never approved has no authorized binding, so it agrees with none.
ConsumptionTermsAgree(r) ==
  LET row == plan[rollout[r].plan]
      signed == rollout[r].envelope
  IN /\ row.authorizedOperation = signed.operation
     /\ row.operation = signed.operation
     /\ row.authorizedExecution = signed.execution
     /\ row.execution = signed.execution
     /\ row.snapshot = signed.snapshot

\* Faulty variant: the status alone is read, and a revoked plan keeps it.
ApprovalRecorded(row) == row.requiresApproval => row.status = "approved"

ApprovalStands(row) ==
  row.requiresApproval => row.status = "approved" /\ row.decision = "granted"

\* Faulty variant: the settlement of the attempt is not looked at.
AttemptIsUnspent(r, n) == n \in 1..attempts[r] /\ <<r, n>> \notin consumed

\* The idempotency key is the dispatch id: a second consumption of it, under
\* the same evidence or another, is refused.
AttemptIsOpen(r, n) == n \in Pending(r) /\ <<r, n>> \notin consumed

\* _stage_dispatch_consumption, and the commit of the transaction it ran in.
ConsumeDispatch(r, n) ==
  /\ rollout[r] # NoRollout
  /\ AttemptIsOpen(r, n)
  /\ plan[rollout[r].plan].snapshot.purpose = "foundation_execution"
  /\ ConsumptionTermsAgree(r)
  /\ lifetime[r] = "valid"
  /\ target[rollout[r].target].status = "active"
  /\ ~Terminal(r)
  /\ ApprovalStands(plan[rollout[r].plan])
  /\ consumed' = consumed \cup {<<r, n>>}
  /\ UNCHANGED <<planVars, rollout, attempts, settlement, lifetime>>

RolledOut == {rollout[r].plan : r \in Requested}

RolloutNext ==
  \E r \in Rollouts :
    \/ \E p \in Plans : RequestRollout(r, p)
    \/ DispatchAttempt(r)
    \/ ExpireAuthorization(r)
    \/ \E n \in AttemptNumbers, outcome \in ReportedOutcomes : SettleAttempt(r, n, outcome)
    \/ CancelRollout(r)
    \/ RequireManualRepair(r)
    \/ \E n \in AttemptNumbers : ConsumeDispatch(r, n)

Next ==
  \/ PlanNext(RolledOut) /\ UNCHANGED rolloutVars
  \/ RolloutNext

Spec == Init /\ [][Next]_vars
-----------------------------------------------------------------------------
(***************************************************************************)
(* Properties.                                                             *)
(***************************************************************************)

\* At most one attempt of a rollout is in flight, it is the newest, and none is
\* once the rollout is settled: dispatch_attempt refuses while one is pending,
\* cancel_rollout settles what it finds, and a late settle_attempt cannot
\* reopen what either closed.
OneAttemptInFlight ==
  \A r \in Requested :
    /\ Pending(r) \subseteq {attempts[r]}
    /\ Terminal(r) => Pending(r) = {}

\* A rollout reads succeeded exactly when its newest attempt settled succeeded,
\* and no earlier attempt ever did: a retry cannot follow a success, and no
\* later report takes a success back.
SuccessIsTheLastSettlement ==
  \A r \in Requested :
    /\ rollout[r].status = "succeeded" <=>
         attempts[r] > 0 /\ settlement[r][attempts[r]] = "succeeded"
    /\ \A n \in 1..attempts[r] : settlement[r][n] = "succeeded" => n = attempts[r]

\* The plan behind a rollout is never cancelled and, if it needs approval, was
\* approved and stays so recorded; only an exempt plan can be superseded under
\* a live rollout.  cancel_plan and request_rollout race for the same plan.
RolloutRestsOnItsPlan ==
  \A r \in Requested :
    LET row == plan[rollout[r].plan]
    IN /\ row # NoPlan
       /\ row.snapshot.purpose = "foundation_execution"
       /\ IF row.requiresApproval
            THEN row.status = "approved" /\ row.decision \in DecisionStatuses
            ELSE row.status \in {"proposed", "superseded"} /\ row.decision = None

\* README rule 1: what is dispatched is the plan that was frozen.  Through any
\* later edit of the desired state, proposal, approval or revocation, the
\* signed envelope says what the plan froze and what its approval authorized.
EnvelopeSaysWhatWasFrozen ==
  \A r \in Requested :
    LET row == plan[rollout[r].plan]
        signed == rollout[r].envelope
    IN /\ signed.snapshot = row.snapshot
       /\ rollout[r].target = row.snapshot.target
       /\ signed.operation = row.operation
       /\ signed.execution = row.execution
       /\ signed.decision = (IF row.requiresApproval THEN "granted" ELSE "approval_exempt")

\* Nothing is launched that no decision authorized: a consumed dispatch belongs
\* to a plan that needed an approval, got one over the very operation and
\* execution plan it froze, and can be executed.  An approval-exempt plan can be
\* rolled out and dispatched, and its dispatch can never be consumed.
LaunchedUnderAnApproval ==
  \A c \in consumed :
    LET row == plan[rollout[c[1]].plan]
    IN /\ c[2] \in 1..attempts[c[1]]
       /\ row.requiresApproval /\ row.decision \in DecisionStatuses
       /\ row.authorizedOperation = row.operation
       /\ row.authorizedExecution = row.execution
       /\ row.operation \in ExecutorOperations

\* Execution order is total for each target: no two plans share a sequence, no
\* two rollouts share an execution_sequence, and one proposal at most awaits a
\* decision.
OrderedPerTarget ==
  /\ \A p, q \in Proposed :
       p # q /\ plan[p].snapshot.target = plan[q].snapshot.target =>
         /\ plan[p].sequence # plan[q].sequence
         /\ ~(plan[p].status = "proposed" /\ plan[q].status = "proposed")
  /\ \A r, x \in Requested :
       r # x /\ rollout[r].target = rollout[x].target =>
         rollout[r].sequence # rollout[x].sequence

\* Once the approval of a plan is revoked nothing new comes of it: no rollout,
\* no attempt of an existing rollout, no launch of an attempt already
\* dispatched; and no later decision revives it.
RevocationCutsOff ==
  [][\A p \in Proposed : plan[p].decision = "revoked" =>
       /\ plan'[p].decision = "revoked"
       /\ \A r \in Rollouts :
            /\ rollout'[r] # NoRollout /\ rollout'[r].plan = p => rollout[r] # NoRollout
            /\ rollout[r] # NoRollout /\ rollout[r].plan = p =>
                 /\ attempts'[r] = attempts[r]
                 /\ \A n \in AttemptNumbers : <<r, n>> \in consumed' => <<r, n>> \in consumed]_vars

\* Issuance, settlement and consumption are evidence: a settlement is never
\* rewritten, an attempt never withdrawn, a spent dispatch never unspent, and
\* the plan, sequence and envelope of a rollout never change.
EvidenceIsAppendOnly ==
  [][/\ consumed \subseteq consumed'
     /\ \A r \in Rollouts :
          /\ attempts[r] =< attempts'[r]
          /\ rollout[r] # NoRollout => rollout'[r] = [rollout[r] EXCEPT !.status = rollout'[r].status]
          /\ \A n \in AttemptNumbers :
               settlement[r][n] # "pending" => settlement'[r][n] = settlement[r][n]]_vars

\* A decommissioned target stays so, and no plan, rollout or launch for it is
\* new.  (An attempt may be: dispatch_attempt does not read the target status.)
DecommissionIsFinal ==
  [][\A t \in Targets : target[t].status = "decommissioned" =>
       /\ target'[t] = target[t]
       /\ \A p \in Plans : plan[p] = NoPlan /\ plan'[p] # NoPlan => plan'[p].snapshot.target # t
       /\ \A r \in Rollouts :
            rollout[r] = NoRollout /\ rollout'[r] # NoRollout => rollout'[r].target # t
       /\ \A c \in consumed' \ consumed : rollout[c[1]].target # t]_vars

-----------------------------------------------------------------------------
\* The launches of this module, seen as those of LaunchAuthority.
Launches == INSTANCE LaunchAuthority WITH
  live <- [r \in Rollouts |-> rollout[r] = NoRollout \/ ~Terminal(r)],
  number <- attempts,
  open <- [r \in Rollouts |-> Pending(r) # {}],
  launched <- [r \in Rollouts |-> {n \in AttemptNumbers : <<r, n>> \in consumed}]

\* A dispatch is launched at most once, while it is the one open attempt of a
\* rollout that is not settled: the protocol is a refinement of LaunchAuthority.
LaunchesAreAuthorized == Launches!Spec

-----------------------------------------------------------------------------
(***************************************************************************)
(* What the documentation says and the code does not keep.                 *)
(***************************************************************************)

\* models.py: a suspended target is deliberately excluded from rollouts, and a
\* decommissioned one is terminal.  dispatch_attempt opens attempts on both.
NoAttemptOnExcludedTarget ==
  [][\A r \in Requested : attempts'[r] # attempts[r] =>
       target[rollout[r].target].status = "active"]_vars
=============================================================================
