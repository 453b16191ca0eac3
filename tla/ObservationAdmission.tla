-------------------------- MODULE ObservationAdmission --------------------------
(***************************************************************************)
(* Credentials of a deployment and the admission of its signed execution   *)
(* reports: record_observation and the credential commands of service.py.  *)
(*                                                                         *)
(* Every command here reads the clock on entry and then waits for the lock *)
(* of the target.  Between the two other commands commit, so a command is  *)
(* two steps: it begins, which fixes its instant, and it commits.          *)
(* Rollouts, their attempts and the revocation of approvals belong to      *)
(* RolloutControl; only what admission reads of them is kept.              *)
(***************************************************************************)
EXTENDS Naturals, FiniteSets

CONSTANTS
  Targets,        \* target_ref of every deployment target
  Keys,           \* key ids
  Commands,       \* the commands given to close or open a credential
  Reports,        \* the signed reports that may arrive
  MaxArrivals,    \* bound on the calls of record_observation
  MaxWaiting,     \* bound on those that wait at the same time
  Sequences,      \* execution_sequence of the rollouts: 1..n
  MaxAttempts,    \* bound on the attempts of one rollout
  MaxTime,        \* bound on the clock
  Lifetimes,      \* the instants an authorization may expire at
  None            \* a NULL column

Instants == 0..MaxTime

CredentialStatuses == {"pending", "active", "retired", "revoked"}
\* What a verdict can be: every disposition but the ones of a replay.
TrustedDispositions == {"accepted", "execution_failed"}
Unproven == {"malformed", "unknown_key", "bad_signature"}
BindingDispositions ==
  {"unbound_report", "authorization_mismatch", "execution_plan_mismatch",
   "operation_mismatch", "signer_purpose_reused"}
Verdicts ==
  TrustedDispositions \cup BindingDispositions \cup
  {"authorization_revoked", "authorization_invalid", "authorization_expired",
   "target_mismatch", "stale_observation", "execution_coordinate_conflict"}
Dispositions ==
  Verdicts \cup Unproven \cup {"not_eligible", "idempotent_replay", "conflict"}

\* A rollout is named by its target and its execution_sequence.
RolloutNames == Targets \X Sequences

\* A signed report: `terms' is what comparing its other signed terms with the
\* authorization finds, which nothing that happens later can change.
ASSUME ObservationInputs ==
  /\ \A r \in Reports :
       /\ r.key \in Keys
       /\ r.sequence \in Nat \ {0} /\ r.attempt \in Nat \ {0}
       /\ r.outcome \in {"succeeded", "failed"} /\ r.observedAt \in Nat
       /\ r.proof \in {"malformed", "invalid", "valid"}
       /\ r.terms \in BindingDispositions \cup {"agree"}
  /\ Commands \subseteq {"activate", "retire", "revoke"}
  /\ Sequences \subseteq Nat \ {0}
  /\ {MaxArrivals, MaxWaiting, MaxAttempts, MaxTime} \subseteq Nat /\ Lifetimes \subseteq Nat
  /\ None \notin Instants /\ None \notin Reports

VARIABLES
  now,          \* the clock of the control plane
  credential,   \* the target_credentials rows
  rollouts,     \* what admission reads of rollouts, attempts and approvals
  projection,   \* the high-water and observed columns of deployment_targets
  receipts,     \* the observation_receipts rows
  arrivals,     \* the observation_attempts rows
  observing,    \* calls of record_observation waiting for the target
  closing,      \* calls of the credential commands waiting for the target
  revoking      \* calls of revoke_plan_approval waiting for the target

waiting == <<observing, closing, revoking>>
vars == <<now, credential, rollouts, projection, receipts, arrivals, waiting>>

CredentialRows ==
  [target: Targets, status: CredentialStatuses, activatedAt: Instants \cup {None},
   retiredAt: Instants \cup {None}, revokedAt: Instants \cup {None}]
NoCredential == [status |-> "absent"]

RolloutViews ==
  [attempts: 0..MaxAttempts, issuedAt: Instants, expiresAt: Lifetimes,
   revokedAt: Instants \cup {None}]
NoRollout == [issuedAt |-> None]

Coordinates == Sequences \X (1..MaxAttempts)
\* NULL high-water columns: below every coordinate.
NoCoordinate == <<0, 0>>

\* substantive_state_digest covers the outcome and what was observed.
StateDigest(r) == <<r.content, r.outcome>>
CoordinateOf(r) == <<r.sequence, r.attempt>>

Projections ==
  [mark: Coordinates \cup {NoCoordinate},
   state: {StateDigest(r) : r \in Reports} \cup {None},
   observed: Reports \cup {None}]
ReceiptRows == [target: Targets, report: Reports, receivedAt: Instants, verdict: Verdicts]

\* Every variable holds rows of its table, and no call waits from the future.
TypeOK ==
  /\ now \in Instants
  /\ credential \in [Keys -> CredentialRows \cup {NoCredential}]
  /\ rollouts \in [RolloutNames -> RolloutViews \cup {NoRollout}]
  /\ projection \in [Targets -> Projections]
  /\ receipts \subseteq ReceiptRows
  /\ arrivals \subseteq [report: Reports, disposition: Dispositions]
  /\ observing \subseteq [report: Reports, at: 0..now]
  /\ closing \subseteq [command: Commands, key: Keys, at: 0..now]
  /\ revoking \subseteq [rollout: RolloutNames, at: 0..now]

Init ==
  /\ now = 0
  /\ credential = [k \in Keys |-> NoCredential]
  /\ rollouts = [a \in RolloutNames |-> NoRollout]
  /\ projection = [t \in Targets |-> [mark |-> NoCoordinate, state |-> None, observed |-> None]]
  /\ receipts = {} /\ arrivals = {}
  /\ observing = {} /\ closing = {} /\ revoking = {}

Tick ==
  /\ now < MaxTime
  /\ now' = now + 1
  /\ UNCHANGED <<credential, rollouts, projection, receipts, arrivals, waiting>>

-----------------------------------------------------------------------------
(***************************************************************************)
(* Credentials.                                                            *)
(***************************************************************************)

\* A key id is bound once; enrolling it again changes nothing or is refused.
EnrolCredential(k, t) ==
  /\ credential[k] = NoCredential
  /\ credential' = [credential EXCEPT ![k] =
       [target |-> t, status |-> "pending", activatedAt |-> None,
        retiredAt |-> None, revokedAt |-> None]]
  /\ UNCHANGED <<now, rollouts, projection, receipts, arrivals, waiting>>

BeginClosing(command, k) ==
  /\ credential[k] # NoCredential
  /\ closing = {}
  /\ closing' = {[command |-> command, key |-> k, at |-> now]}
  /\ UNCHANGED <<now, credential, rollouts, projection, receipts, arrivals, observing, revoking>>

\* The row a command leaves, given the status it finds once it holds the lock.
CredentialAfter(command, row, at) ==
  IF command = "activate" /\ row.status = "pending"
    THEN [row EXCEPT !.status = "active", !.activatedAt = at]
  ELSE IF command = "retire" /\ row.status = "active"
    THEN [row EXCEPT !.status = "retired", !.retiredAt = at]
  ELSE IF command = "revoke" /\ row.status # "revoked"
    THEN [row EXCEPT !.status = "revoked", !.revokedAt = at]
  ELSE row

CommitClosing(c) ==
  /\ c \in closing
  /\ closing' = closing \ {c}
  /\ credential' = [credential EXCEPT ![c.key] = CredentialAfter(c.command, @, c.at)]
  /\ UNCHANGED <<now, rollouts, projection, receipts, arrivals, observing, revoking>>

\* Faulty variant: only retirement closes the window.
EligibleUntilRetired(row, at) ==
  /\ row.activatedAt # None /\ row.activatedAt =< at
  /\ row.retiredAt # None => at < row.retiredAt

\* _credential_row_is_eligible: the half-open window, whatever the status.
Eligible(row, at) ==
  /\ row.activatedAt # None /\ row.activatedAt =< at
  /\ row.retiredAt # None => at < row.retiredAt
  /\ row.revokedAt # None => at < row.revokedAt

-----------------------------------------------------------------------------
(***************************************************************************)
(* What RolloutControl contributes.                                        *)
(***************************************************************************)
Requested(a) == a \in RolloutNames /\ rollouts[a] # NoRollout

RequestRollout(a, expires) ==
  /\ rollouts[a] = NoRollout
  /\ \A s \in Sequences : s < a[2] => rollouts[<<a[1], s>>] # NoRollout
  /\ now < expires
  /\ rollouts' = [rollouts EXCEPT ![a] =
       [attempts |-> 0, issuedAt |-> now, expiresAt |-> expires, revokedAt |-> None]]
  /\ UNCHANGED <<now, credential, projection, receipts, arrivals, waiting>>

DispatchAttempt(a) ==
  /\ rollouts[a] # NoRollout
  /\ rollouts[a].attempts < MaxAttempts
  /\ rollouts[a].revokedAt = None
  /\ rollouts' = [rollouts EXCEPT ![a].attempts = @ + 1]
  /\ UNCHANGED <<now, credential, projection, receipts, arrivals, waiting>>

BeginRevoking(a) ==
  /\ rollouts[a] # NoRollout
  /\ revoking = {}
  /\ revoking' = {[rollout |-> a, at |-> now]}
  /\ UNCHANGED <<now, credential, rollouts, projection, receipts, arrivals, observing, closing>>

CommitRevoking(c) ==
  /\ c \in revoking
  /\ revoking' = revoking \ {c}
  /\ rollouts' = [rollouts EXCEPT ![c.rollout].revokedAt = IF @ = None THEN c.at ELSE @]
  /\ UNCHANGED <<now, credential, projection, receipts, arrivals, observing, closing>>

-----------------------------------------------------------------------------
(***************************************************************************)
(* record_observation.                                                     *)
(***************************************************************************)

\* The clock is read before the call waits for the target.
BeginObserving(r) ==
  /\ Cardinality(observing) < MaxWaiting
  /\ Cardinality(observing) + Cardinality(arrivals) < MaxArrivals
  /\ observing' = observing \cup {[report |-> r, at |-> now]}
  /\ UNCHANGED <<now, credential, rollouts, projection, receipts, arrivals, closing, revoking>>

\* Every path ends here: the call returns and an attempt row says what it found.
Arrived(o, disposition) ==
  /\ o \in observing
  /\ observing' = observing \ {o}
  /\ arrivals' = arrivals \cup {[report |-> o.report, disposition |-> disposition]}
  /\ UNCHANGED <<now, credential, rollouts, closing, revoking>>

Proven(r) == r.proof = "valid" /\ credential[r.key] # NoCredential

\* Faulty variant: only receipts of the very same payload are looked up.
SamePayload(r) ==
  {c \in receipts : c.target = credential[r.key].target /\ c.report = r}

\* The receipts an arrival is compared with: those of its report id, from the
\* target its credential proves.
ReceiptsOf(r) ==
  {c \in receipts : c.target = credential[r.key].target /\ c.report.id = r.id}

RejectUnproven(o) ==
  /\ ~Proven(o.report)
  /\ Arrived(o, IF o.report.proof = "malformed" THEN "malformed"
                ELSE IF credential[o.report.key] = NoCredential THEN "unknown_key"
                ELSE "bad_signature")
  /\ UNCHANGED <<projection, receipts>>

\* A receipt answers for its report id for good, also after the credential
\* closed: eligibility is not asked.
Replay(o) ==
  /\ Proven(o.report)
  /\ \E c \in ReceiptsOf(o.report) :
       Arrived(o, IF c.report = o.report THEN "idempotent_replay" ELSE "conflict")
  /\ UNCHANGED <<projection, receipts>>

RefuseIneligible(o) ==
  /\ Proven(o.report)
  /\ ReceiptsOf(o.report) = {}
  /\ ~Eligible(credential[o.report.key], o.at)
  /\ Arrived(o, "not_eligible")
  /\ UNCHANGED <<projection, receipts>>

\* Faulty variant: an authorization is still good at the instant it expires.
StandingToTheEnd(row, at) ==
  IF row.revokedAt # None /\ at >= row.revokedAt THEN "authorization_revoked"
  ELSE IF at < row.issuedAt THEN "authorization_invalid"
  ELSE IF at > row.expiresAt THEN "authorization_expired"
  ELSE "stands"

\* Standing of the authorization at the instant of receipt: what
\* _execution_observation_disposition finds of it, or "stands".
Standing(row, at) ==
  IF row.revokedAt # None /\ at >= row.revokedAt THEN "authorization_revoked"
  ELSE IF at < row.issuedAt THEN "authorization_invalid"
  ELSE IF at >= row.expiresAt THEN "authorization_expired"
  ELSE "stands"

\* The ladder of _execution_observation_disposition.
Finding(t, r, at) ==
  LET a == r.authorization
  IN IF ~Requested(a) \/ a[1] # t THEN "unbound_report"
     ELSE IF r.sequence # a[2] THEN "authorization_mismatch"
     ELSE IF r.attempt > rollouts[a].attempts THEN "unbound_report"
     ELSE IF Standing(rollouts[a], at) # "stands" THEN Standing(rollouts[a], at)
     ELSE IF r.terms # "agree" THEN r.terms
     ELSE IF r.observedAt > at THEN "authorization_mismatch"
     ELSE IF r.outcome = "failed" THEN "execution_failed"
     ELSE "accepted"

\* What is claimed is checked against the target the credential proves.
Disposition(t, r, at) == IF r.target # t THEN "target_mismatch" ELSE Finding(t, r, at)

\* Execution coordinates are ordered by sequence, then by attempt.
Before(c, d) == c[1] < d[1] \/ (c[1] = d[1] /\ c[2] < d[2])

\* The high-water mark decides among trusted reports: older ones are stale, and
\* of one attempt there is one account.
Placed(t, r, found) ==
  IF found \notin TrustedDispositions THEN found
  ELSE IF Before(CoordinateOf(r), projection[t].mark) THEN "stale_observation"
  ELSE IF CoordinateOf(r) = projection[t].mark /\ projection[t].state # StateDigest(r)
    THEN "execution_coordinate_conflict"
  ELSE found

\* Faulty variant: a failed execution is projected as the observed state.
ProjectedWhatever(t, r, found) ==
  IF found \in TrustedDispositions /\ Before(projection[t].mark, CoordinateOf(r))
    THEN [mark |-> CoordinateOf(r), state |-> StateDigest(r), observed |-> r]
    ELSE projection[t]

\* Faulty variant: a stale or conflicting report is still projected.
ProjectedOnTrust(t, r, found) ==
  IF found \in TrustedDispositions
    THEN [mark |-> CoordinateOf(r), state |-> StateDigest(r),
          observed |-> IF found = "accepted" THEN r ELSE projection[t].observed]
    ELSE projection[t]

\* Faulty variant: a quarantined report advances the mark.
ProjectedUntrusted(t, r, found) ==
  IF Before(projection[t].mark, CoordinateOf(r))
    THEN [mark |-> CoordinateOf(r), state |-> StateDigest(r),
          observed |-> IF found = "accepted" THEN r ELSE projection[t].observed]
    ELSE projection[t]

\* A newer trusted report advances the mark; it is observed only if accepted.
Projected(t, r, found) ==
  IF found \in TrustedDispositions /\ Before(projection[t].mark, CoordinateOf(r))
    THEN [mark |-> CoordinateOf(r), state |-> StateDigest(r),
          observed |-> IF found = "accepted" THEN r ELSE projection[t].observed]
    ELSE projection[t]

Decide(o) ==
  LET r == o.report
      t == credential[r.key].target
      found == Disposition(t, r, o.at)
  IN
  /\ Proven(r)
  /\ ReceiptsOf(r) = {}
  /\ Eligible(credential[r.key], o.at)
  /\ projection' = [projection EXCEPT ![t] = Projected(t, r, found)]
  /\ receipts' = receipts \cup
       {[target |-> t, report |-> r, receivedAt |-> o.at, verdict |-> Placed(t, r, found)]}
  /\ Arrived(o, Placed(t, r, found))

Next ==
  \/ Tick
  \/ \E k \in Keys :
       \/ \E t \in Targets : EnrolCredential(k, t)
       \/ \E command \in Commands : BeginClosing(command, k)
  \/ \E c \in closing : CommitClosing(c)
  \/ \E a \in RolloutNames :
       \/ \E expires \in Lifetimes : RequestRollout(a, expires)
       \/ DispatchAttempt(a)
       \/ BeginRevoking(a)
  \/ \E c \in revoking : CommitRevoking(c)
  \/ \E r \in Reports : BeginObserving(r)
  \/ \E o \in observing :
       RejectUnproven(o) \/ Replay(o) \/ RefuseIneligible(o) \/ Decide(o)

Spec == Init /\ [][Next]_vars

-----------------------------------------------------------------------------
(***************************************************************************)
(* Properties.                                                             *)
(***************************************************************************)
Trusted(t) == {c \in receipts : c.target = t /\ c.verdict \in TrustedDispositions}
Accepted(t) == {c \in Trusted(t) : c.verdict = "accepted"}

\* Whatever the order reports arrive in, the high-water mark of a target is the
\* newest execution coordinate among its trusted receipts, the state kept with
\* it is the state they report, and no coordinate has two accounts.
HighWaterIsNewestTrusted ==
  \A t \in Targets :
    /\ Trusted(t) = {} <=> projection[t].mark = NoCoordinate
    /\ \A c \in Trusted(t) :
         /\ ~Before(projection[t].mark, CoordinateOf(c.report))
         /\ CoordinateOf(c.report) = projection[t].mark =>
              projection[t].state = StateDigest(c.report)
    /\ Trusted(t) # {} => \E c \in Trusted(t) : CoordinateOf(c.report) = projection[t].mark

\* The observed columns are those of the newest execution that was accepted: a
\* failed execution moves the mark and leaves them, a stale or conflicting
\* report touches neither.
ObservedIsNewestAccepted ==
  \A t \in Targets :
    IF Accepted(t) = {} THEN projection[t].observed = None
    ELSE /\ \E c \in Accepted(t) : c.report = projection[t].observed
         /\ \A c \in Accepted(t) :
              ~Before(CoordinateOf(projection[t].observed), CoordinateOf(c.report))

\* A report id is decided once for a target, and every arrival that reached a
\* decision or a receipt agrees with it: the deciding arrival has the verdict of
\* the receipt, a replay is the same report and a conflict a different one.
DecidedOnce ==
  /\ \A c, d \in receipts : c.target = d.target /\ c.report.id = d.report.id => c = d
  /\ \A v \in arrivals :
       /\ v.disposition \in Verdicts =>
            \E c \in receipts : c.report = v.report /\ c.verdict = v.disposition
       /\ v.disposition = "idempotent_replay" => \E c \in receipts : c.report = v.report
       /\ v.disposition = "conflict" =>
            \E c \in receipts : c.report.id = v.report.id /\ c.report # v.report

\* A report is believed only within the authority it carries: its attempt was
\* opened, its authorization issued and not expired when it was received, and
\* the credential that proves it is the target's and was active by then.
TrustedWithinAuthority ==
  \A t \in Targets : \A c \in Trusted(t) :
    LET row == rollouts[c.report.authorization]
        key == credential[c.report.key]
    IN /\ Requested(c.report.authorization) /\ c.report.authorization[1] = t
       /\ c.report.attempt =< row.attempts
       /\ row.issuedAt =< c.receivedAt /\ c.receivedAt < row.expiresAt
       /\ key.target = t /\ key.activatedAt # None /\ key.activatedAt =< c.receivedAt

\* Once a revocation committed, nothing that arrived at or after its instant is
\* believed, however long the call waited: not under the revoked credential,
\* not under the revoked approval.
RevocationStopsAdmission ==
  [][\A c \in receipts' \ receipts :
       LET key == credential[c.report.key]
       IN /\ key.revokedAt # None => c.receivedAt < key.revokedAt
          /\ c.verdict \in TrustedDispositions =>
               LET row == rollouts[c.report.authorization]
               IN row.revokedAt # None => c.receivedAt < row.revokedAt]_vars

\* Receipts and arrivals are history, and the projection only moves forward: it
\* changes with a new trusted receipt, to a newer coordinate, or not at all.
ProjectionOnlyAdvances ==
  [][/\ receipts \subseteq receipts' /\ arrivals \subseteq arrivals'
     /\ \A t \in Targets : projection'[t] # projection[t] =>
          /\ Before(projection[t].mark, projection'[t].mark)
          /\ \E c \in receipts' \ receipts :
               /\ c.target = t /\ c.verdict \in TrustedDispositions
               /\ CoordinateOf(c.report) = projection'[t].mark]_vars
=============================================================================
