-------------------------------- MODULE Answers --------------------------------
(***************************************************************************)
(* The questions Control answers from documents and rows of others: does   *)
(* a health authorization, a recovery grant or a rehearsal grant stand,    *)
(* has a target drifted, which targets are there.  The components behind   *)
(* them share no state and no step, so that nothing can come of            *)
(* interleaving them: a behaviour asks one of the questions, and the other *)
(* components stay in their initial states.                                *)
(***************************************************************************)
EXTENDS HealthAuthorization

CONSTANTS
  \* recovery grants
  RecoveryIds, Recoveries, Windows, Inserted, MaxGrantClock, AbsentKey,
  \* rehearsal grants
  RehearsalIds, Artifacts, Digests, Steps, Published, Executors, MaxRehearsalClock,
  \* drift of one target
  Rollouts, Releases, Specs, PlanOf, MaxDriftClock,
  \* pages of the fleet
  Refs, PageSize, MaxChanges

VARIABLES
  question,
  grantClock, row, reader, truth,
  rehearsalClock, wheel, attested, seen, evidence, documents, state, executor,
  driftClock, running, finishedAt, failed, report, mark, observed, completedAt, undated,
  matching, page, step, total, shown, changes, throughout

grantState == <<grantClock, row, reader, truth>>
rehearsalState ==
  <<rehearsalClock, wheel, attested, seen, evidence, documents, state, executor>>
driftState ==
  <<driftClock, running, finishedAt, failed, report, mark, observed, completedAt, undated>>
pageState == <<matching, page, step, total, shown, changes, throughout>>
answersVars == <<question, vars, grantState, rehearsalState, driftState, pageState>>

-----------------------------------------------------------------------------
Recovery == INSTANCE RecoveryGrants
  WITH Grants <- RecoveryIds, Subjects <- Recoveries, Documents <- Inserted,
       MaxClock <- MaxGrantClock, Absent <- AbsentKey, clock <- grantClock

Rehearsal == INSTANCE RehearsalGrants
  WITH Grants <- RehearsalIds, MaxClock <- MaxRehearsalClock, clock <- rehearsalClock

Drift == INSTANCE DriftReport WITH MaxClock <- MaxDriftClock, clock <- driftClock

Pages == INSTANCE TargetPages

ASSUME AnswersInputs ==
  /\ Recovery!GrantInputs /\ Rehearsal!RehearsalInputs
  /\ Drift!Deliveries /\ Pages!PageBounds

-----------------------------------------------------------------------------
\* A component that is not asked starts somewhere and stays there.
AnswersInit ==
  /\ question \in {"health", "recovery", "rehearsal", "drift", "pages"}
  /\ Init /\ Recovery!Init /\ Rehearsal!Init /\ Drift!Init /\ Pages!Init
  /\ question # "pages" => matching = {}
  /\ question # "drift" => running = CHOOSE m \in Drift!Readings : m.at = 1
  /\ question # "rehearsal" => wheel = CHOOSE w \in [Artifacts -> Digests] : TRUE

AnswersNext ==
  /\ UNCHANGED question
  /\ \/ /\ question = "health" /\ Next
        /\ UNCHANGED <<grantState, rehearsalState, driftState, pageState>>
     \/ /\ question = "recovery" /\ Recovery!Next
        /\ UNCHANGED <<vars, rehearsalState, driftState, pageState>>
     \/ /\ question = "rehearsal" /\ Rehearsal!Next
        /\ UNCHANGED <<vars, grantState, driftState, pageState>>
     \/ /\ question = "drift" /\ Drift!Next
        /\ UNCHANGED <<vars, grantState, rehearsalState, pageState>>
     \/ /\ question = "pages" /\ Pages!Next
        /\ UNCHANGED <<vars, grantState, rehearsalState, driftState>>

AnswersSpec == AnswersInit /\ [][AnswersNext]_answersVars

-----------------------------------------------------------------------------
\* A recovery that reads as valid was authorized at one instant of the unlocked
\* call that read it, and a document that was not signed as it stands earns no
\* diagnostics about its terms (recovery_standing_for_target, verify_recovery_grant).
RecoveryIsEarned ==
  Recovery!TypeOK /\ Recovery!ValidWasTrue /\ Recovery!DiagnosticsAreEarned

\* One executor runs a rehearsal grant, though two verified it with stale ids, and
\* what it runs are bytes that one reading outside the grant vouches for
\* (verify_rehearsal_grant, _stage_rehearsal_consumption, CandidateArtifactV1).
RehearsalIsEvidenced ==
  Rehearsal!TypeOK /\ Rehearsal!OneRunPerGrant /\ Rehearsal!RunsEvidencedBytes

\* Drift tells whether the target runs what was delivered to it last, in whatever
\* order settlements and reports came, once it is observed through that delivery;
\* and it never finds no drift unless an execution read back what was rolled out
\* (drift, record_observation); for each change of the fleet under a walk over its
\* pages, the walk misses at most one target and repeats at most one (list_targets).
FleetIsReported ==
  /\ Drift!TypeOK /\ Drift!SilenceIsEarned /\ Drift!DriftFollowsTruth
  /\ Pages!TypeOK /\ Pages!EachChangeCostsOne
=============================================================================
