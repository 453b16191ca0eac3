------------------------------- MODULE PlanLookup -------------------------------
(***************************************************************************)
(* The reads of service.py over plans: find_approved_plan, which answers   *)
(* whether an authorization stands, and the execution-binding standing of  *)
(* a plan.                                                                 *)
(*                                                                         *)
(* A reader takes no locks.  Each statement sees what is committed when it *)
(* runs (READ COMMITTED), so find_approved_plan loads the plan row in one  *)
(* step and the rollout in a later one, and every writer may commit in     *)
(* between; the checks in between work on the row already loaded.  The     *)
(* refusals for a plan without images or without a descriptor, which only  *)
(* rows of earlier schemas lack, come after the terms below and are left   *)
(* out, as are digests that cannot be read or name no plan.                *)
(***************************************************************************)
EXTENDS RolloutControl

VARIABLES
  reader,    \* one call of find_approved_plan
  stood      \* whether the answer it asks for was true at an instant of the call

lookupVars == <<vars, reader, stood>>

Refusals ==
  {"not_approved", "approval_revoked", "approval_standing_unrecorded",
   "execution_binding_absent", "wrong_plan_purpose", "execution_plan_mismatch",
   "authorization_unresolved", "authorization_envelope_invalid"}

\* The plan whose digest is asked for, the authorization id, and the execution the
\* caller expects (None: it expects none).
Questions == [plan: Plans, rollout: Rollouts, expected: Executions \cup {None}]

\* Between the two statements the call holds the row as loaded; afterwards the
\* caller holds the answer.
NoReader == [step |-> "idle"]
Loaded(ask, row) == [step |-> "row", ask |-> ask, row |-> row]
Authorized(ask) == [step |-> "authorized", ask |-> ask]
Refused(code) == [step |-> "refused", code |-> code]

LookupTypeOK ==
  /\ TypeOK
  /\ reader \in {NoReader}
                 \cup [step: {"row"}, ask: Questions, row: PlanRows]
                 \cup [step: {"authorized"}, ask: Questions]
                 \cup [step: {"refused"}, code: Refusals]
  /\ stood \in BOOLEAN

-----------------------------------------------------------------------------
\* Faulty variant: the status, which a revocation leaves at approved, decides alone.
TermsByStatus(row) ==
  IF row.snapshot.purpose # "foundation_execution" THEN "wrong_plan_purpose"
  ELSE IF row.status # "approved" THEN "not_approved"
  ELSE IF row.authorizedExecution = None \/ row.authorizedOperation = None
    THEN "execution_binding_absent"
  ELSE "none"

\* The ladder over the loaded row, in the order of the code: "none" when the
\* terms stand.
TermsRefusal(row) ==
  IF row.snapshot.purpose # "foundation_execution" THEN "wrong_plan_purpose"
  ELSE IF row.status # "approved" THEN "not_approved"
  ELSE IF row.decision = "revoked" THEN "approval_revoked"
  ELSE IF row.decision = None THEN "approval_standing_unrecorded"
  ELSE IF row.authorizedExecution = None \/ row.authorizedOperation = None
    THEN "execution_binding_absent"
  ELSE "none"

ExpectationRefusal(row, expected) ==
  IF expected # None /\ expected # row.authorizedExecution
    THEN "execution_plan_mismatch" ELSE "none"

FirstRefusal(a, b) == IF a # "none" THEN a ELSE b

\* _verified_rollout_envelope, over the loaded row.
SignedFor(row, p, envelope) ==
  /\ envelope.plan = p
  /\ envelope.snapshot = row.snapshot
  /\ envelope.operation = OperationFor(row)
  /\ envelope.execution = ExecutionFor(row)
  /\ envelope.decision =
       IF row.requiresApproval THEN "granted" ELSE "approval_exempt"

\* Neither the status of the rollout nor that of the target is looked at.
AuthorizationAnswer(row, p, r) ==
  IF rollout[r] = NoRollout \/ rollout[r].plan # p THEN "authorization_unresolved"
  ELSE IF ~SignedFor(row, p, rollout[r].envelope)
    THEN "authorization_envelope_invalid"
  ELSE "authorized"

\* The authorization a question is about stands in the database now.
Stands(ask) ==
  /\ plan[ask.plan] # NoPlan
  /\ plan[ask.plan].status = "approved"
  /\ plan[ask.plan].decision = "granted"
  /\ rollout[ask.rollout] # NoRollout
  /\ rollout[ask.rollout].plan = ask.plan

-----------------------------------------------------------------------------
LookupInit == Init /\ reader = NoReader /\ stood = FALSE

\* The row is resolved by its digest, and its terms are checked as loaded.
LoadPlan(ask) ==
  LET row == plan[ask.plan]
      refusal == FirstRefusal(TermsRefusal(row), ExpectationRefusal(row, ask.expected))
  IN
  /\ reader.step # "row"
  /\ row # NoPlan
  /\ reader' = IF refusal = "none" THEN Loaded(ask, row) ELSE Refused(refusal)
  /\ stood' = Stands(ask)
  /\ UNCHANGED vars

LoadAuthorization ==
  /\ reader.step = "row"
  /\ LET ask == reader.ask
         answer == AuthorizationAnswer(reader.row, ask.plan, ask.rollout)
     IN  reader' = IF answer = "authorized" THEN Authorized(ask) ELSE Refused(answer)
  /\ UNCHANGED <<vars, stood>>

\* Every commit of a writer is a new instant of the call under way.
Commit ==
  /\ Next
  /\ UNCHANGED reader
  /\ stood' = (stood \/ (reader.step = "row" /\ Stands(reader.ask)'))

LookupNext ==
  \/ \E ask \in Questions : LoadPlan(ask)
  \/ LoadAuthorization
  \/ Commit

LookupSpec == LookupInit /\ [][LookupNext]_lookupVars

-----------------------------------------------------------------------------
\* _execution_binding_standing of a plan page.
BindingStanding(row) ==
  IF row.authorizedExecution = None \/ row.authorizedOperation = None
    THEN "unauthorized"
  ELSE IF row.execution # row.authorizedExecution
          \/ row.operation # row.authorizedOperation THEN "diverges"
  ELSE "matches"

-----------------------------------------------------------------------------
\* find_approved_plan reads the plan and the rollout at different instants, while
\* approvals are revoked, plans cancelled and rollouts requested.  An answer of
\* "authorized" was nevertheless true of the database at one single instant of
\* the call: the plan approved, its decision granted, the rollout there.
AuthorizedWasTrue == reader.step = "authorized" => stood

\* What the caller was told is what was signed: the envelope behind an answer
\* given to a caller who expected an execution signs that execution, under the
\* digest that was asked for, whatever happened to the plan since.
AnswerIsSigned ==
  reader.step = "authorized" =>
    LET signed == rollout[reader.ask.rollout].envelope
    IN  /\ PlanDigest(signed.snapshot) = PlanDigest(plan[reader.ask.plan].snapshot)
        /\ reader.ask.expected \in {None, signed.execution}

\* A plan page never shows a diverging execution binding: what an approval
\* authorized is what was proposed, through every sequence of calls
\* (facts.py: "Nothing in this package can write this").
NeverDiverges == \A p \in Proposed : BindingStanding(plan[p]) # "diverges"

\* What the two reads promise about an authorization, together: an answer is one
\* of the vocabulary, was true, says what was signed, and a page agrees with it.
LookupStands == LookupTypeOK /\ AuthorizedWasTrue /\ AnswerIsSigned /\ NeverDiverges

=============================================================================
