------------------------------ MODULE DriftReport ------------------------------
(***************************************************************************)
(* drift of service.py for one target: what was rolled out against what is *)
(* observed.                                                               *)
(*                                                                         *)
(* Several rollouts of a target may be open at once.  Their executions     *)
(* finish in one order, are settled in another and reported in a third.    *)
(* A settlement is ordered by the instant its caller gives, or by that of  *)
(* the call when it gives none; an observation by the execution it reports *)
(* on, whose release must be the authorized one.  Here a rollout has one   *)
(* attempt and one report: retries, conflicting accounts and the standing  *)
(* of the authority are ObservationAdmission's.  Instants are ticks of a   *)
(* clock that every execution and every change by hand advances.           *)
(***************************************************************************)
EXTENDS Naturals

CONSTANTS
  Rollouts,     \* rollouts of the target, by execution_sequence
  Releases,
  Specs,
  PlanOf,       \* the release, spec and desired revision each rollout's plan froze
  MaxClock,     \* bound on the instants
  None          \* a null column, an argument that is not given

\* What an instance assumes.
Deliveries ==
  /\ Rollouts \subseteq Nat \ {0}
  /\ PlanOf \in [Rollouts -> [release: Releases, spec: Specs, revision: Nat]]
  /\ \A q, r \in Rollouts :
       PlanOf[q].revision = PlanOf[r].revision => PlanOf[q] = PlanOf[r]
  /\ MaxClock \in Nat \ {0}
  /\ None \notin Nat

VARIABLES
  clock,
  running,      \* what runs on the target, and since when
  finishedAt,   \* when the execution of each rollout succeeded; 0: it did not
  failed,       \* rollouts whose execution failed
  report,       \* what each execution read back from the target when it ended
  mark,         \* last_execution_sequence; 0: none
  observed,     \* the target's observed columns; rollout: whose report, 0: never
  completedAt,  \* rollouts.completed_at of the succeeded ones; 0: not succeeded
  undated       \* rollouts settled without a settled_at

driftVars ==
  <<clock, running, finishedAt, failed, report, mark, observed, completedAt, undated>>

Instants == 1..MaxClock
Contents == [release: Releases, spec: Specs]
Readings == [content: Contents, at: Instants]
Revisions == {PlanOf[r].revision : r \in Rollouts}
Unobserved == [release |-> None, revision |-> None, rollout |-> 0]

TypeOK ==
  /\ clock \in Instants
  /\ running \in Readings
  /\ finishedAt \in [Rollouts -> {0} \cup Instants]
  /\ failed \subseteq Rollouts
  /\ report \in [Rollouts -> {None} \cup Readings]
  /\ mark \in {0} \cup Rollouts
  /\ observed \in {Unobserved} \cup
       [release: Releases, revision: {None} \cup Revisions, rollout: Rollouts]
  /\ completedAt \in [Rollouts -> {0} \cup Instants]
  /\ undated \subseteq Rollouts

Init ==
  /\ clock = 1
  /\ running \in [content: Contents, at: {1}]
  /\ finishedAt = [r \in Rollouts |-> 0]
  /\ failed = {}
  /\ report = [r \in Rollouts |-> None]
  /\ mark = 0
  /\ observed = Unobserved
  /\ completedAt = [r \in Rollouts |-> 0]
  /\ undated = {}

Executed(r) == finishedAt[r] # 0 \/ r \in failed
Frozen(r) == [release |-> PlanOf[r].release, spec |-> PlanOf[r].spec]

-----------------------------------------------------------------------------
\* From the next instant the target runs this.
Becomes(content) ==
  /\ clock < MaxClock
  /\ clock' = clock + 1
  /\ running' = [content |-> content, at |-> clock']

\* A delivery brings what its plan froze to the target.
Deliver(r) ==
  /\ ~Executed(r)
  /\ Becomes(Frozen(r))
  /\ finishedAt' = [finishedAt EXCEPT ![r] = clock']
  /\ UNCHANGED <<failed, report, mark, observed, completedAt, undated>>

\* A delivery that fails leaves whatever it got to.
Fail(r) ==
  /\ ~Executed(r)
  /\ \E content \in Contents : Becomes(content)
  /\ failed' = failed \cup {r}
  /\ UNCHANGED <<finishedAt, report, mark, observed, completedAt, undated>>

\* Somebody changes what runs on the target by hand.
ChangeByHand ==
  /\ \E content \in Contents : Becomes(content)
  /\ UNCHANGED <<finishedAt, failed, report, mark, observed, completedAt, undated>>

\* The executor reads the target back for its report, perhaps some time after.
Read(r) ==
  /\ Executed(r)
  /\ report[r] = None
  /\ report' = [report EXCEPT ![r] = [content |-> running.content, at |-> clock]]
  /\ UNCHANGED <<clock, running, finishedAt, failed, mark, observed, completedAt, undated>>

-----------------------------------------------------------------------------
\* A report of another release than the authorized one is quarantined.
Authorized(r) == report[r].content.release = PlanOf[r].release

\* The report proves the plan's revision when it found the plan's spec.
Proved(r) ==
  IF report[r].content.spec = PlanOf[r].spec THEN PlanOf[r].revision ELSE None

\* record_observation: a report of an earlier execution than the last one known
\* is stale, and that of a failed one moves the mark but not the observed columns.
Observe(r) ==
  /\ report[r] # None
  /\ Authorized(r)
  /\ r > mark
  /\ mark' = r
  /\ observed' = IF r \in failed THEN observed
                 ELSE [release |-> report[r].content.release,
                       revision |-> Proved(r), rollout |-> r]
  /\ UNCHANGED <<clock, running, finishedAt, failed, report, completedAt, undated>>

\* Faulty variant: the instant of the call, whatever the caller gave.
CompletedByCall(settledAt) == clock

\* command.settled_at or now().
Completed(settledAt) == IF settledAt = None THEN clock ELSE settledAt

\* settle_attempt, for a success; the caller gives the instant the execution
\* finished, or none.
SettleSucceeded(r) ==
  /\ finishedAt[r] # 0
  /\ completedAt[r] = 0
  /\ \E settledAt \in {finishedAt[r], None} :
       /\ completedAt' = [completedAt EXCEPT ![r] = Completed(settledAt)]
       /\ undated' = IF settledAt = None THEN undated \cup {r} ELSE undated
  /\ UNCHANGED <<clock, running, finishedAt, failed, report, mark, observed>>

Next ==
  \/ ChangeByHand
  \/ \E r \in Rollouts :
       Deliver(r) \/ Fail(r) \/ Read(r) \/ Observe(r) \/ SettleSucceeded(r)

Spec == Init /\ [][Next]_driftVars

-----------------------------------------------------------------------------
Succeeded == {r \in Rollouts : completedAt[r] # 0}

\* The rollout drift compares with: the succeeded one of the greatest completed_at.
RolledOut(among) == {r \in among : \A q \in among : completedAt[q] <= completedAt[r]}

\* The observed columns differ from what the plan of this rollout froze.
Differs(r) ==
  \/ observed.release # PlanOf[r].release
  \/ observed.revision # PlanOf[r].revision

\* Silence is not drift.
Drifted(r) == observed.rollout # 0 /\ Differs(r)

-----------------------------------------------------------------------------
Finished == {r \in Rollouts : finishedAt[r] # 0}
DeliveredLast(r) == r \in Finished /\ \A q \in Finished : finishedAt[q] <= finishedAt[r]

\* The target is observed through the report of its last delivery, read since the
\* last change of the target.
ObservedSince(r) == observed.rollout = r /\ report[r].at >= running.at

\* When the report on a target that was observed finds no drift, some execution
\* that succeeded read back from the target the very release and spec that the
\* rollout it compares with froze, whatever the order and the instants of
\* deliveries, reports and settlements and whatever was changed by hand.
SilenceIsEarned ==
  \A r \in RolledOut(Succeeded) :
    observed.rollout # 0 /\ ~Drifted(r) =>
      \E q \in Finished : report[q] # None /\ report[q].content = Frozen(r)

\* Once every finished delivery is settled under the instant it finished, and the
\* target is observed through its last delivery since its last change, the report
\* tells whether the target runs what was delivered to it last, in whatever order
\* the settlements and the reports arrived.
DriftFollowsTruth ==
  (Finished = Succeeded /\ undated = {}) =>
    \A last \in Rollouts :
      DeliveredLast(last) /\ ObservedSince(last) =>
        \A r \in RolledOut(Succeeded) :
          Drifted(r) <=> running.content # Frozen(last)
=============================================================================
