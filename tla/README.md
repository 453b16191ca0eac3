# Deployment Control: models and proofs

TLA+ models of `dotmac_deployment_control` (paths are under
`src/src/dotmac_deployment_control/` unless they say otherwise), the TLC runs that
check them on small instances, and theorems that TLAPS proves for every instance.

## 1. The system

Deployment Control decides what should run on a deployment target, gets it
approved, signs an authorization for it, dispatches attempts to an executor, and
admits the executor's signed reports. It is a library over PostgreSQL: every
operation is one transaction opened by a caller, serialized by `SELECT ... FOR
UPDATE` on the rows it decides from. Nothing in it runs by itself.

| Part | State it keeps | Operations | What makes it correct |
|---|---|---|---|
| Targets (`service.py`) | status, desired revision, observed and high-water columns | register, set desired state, suspend, decommission | decommissioning is final |
| Plans (`service.py`, `approvals.py`, `operations.py`, `counterparty.py`) | frozen snapshot and digest, sequence, status, approval decision and what it authorized | propose, approve, revoke approval, cancel | one pending proposal; what was approved is what was frozen; no cancelling under a rollout |
| Rollouts (`service.py`, `authorization.py`, `dispatch_envelope.py`) | status, execution sequence, signed envelope, attempts, settlements | request, dispatch, settle, cancel, manual repair | one attempt in flight, success is last, evidence append-only |
| Dispatch consumption (`service.py`) | spent dispatch ids (the kernel's idempotency ledger) | stage consumption, look it up again | a dispatch launches once, while open, under a standing approval |
| Credentials (`service.py`) | key, target, half-open validity window | enrol, activate, retire, revoke | nothing is admitted outside the window |
| Observations (`service.py`, `execution_observation.py`) | receipts (one per report id), arrivals (append-only) | `record_observation` | each report id decided once; the projection follows the newest trusted execution |
| Drift and plan lookup (`service.py`) | none | `drift`, `find_approved_plan`, `preview_plan_proposal`, `grant_for_target` | answers agree with what the commands would accept |
| Attestation registry (`attestation_trust_registry.py`, `attestation_binding.py`) | enrolments, closures, current-root pointer per subject | enrol, rotate, revoke, repair, resolve | at most one open enrolment; pointer = derived root |
| Host admission (`host_admission_service.py`, `host_admission_coordinator.py`, `foundation_consumption.py`) | host association and policy pointers | bind, rotate, revoke host; set, revise, revoke policy; resolve; admit and consume | what was resolved unlocked is what is admitted under locks |
| Rehearsal ledgers (`rehearsal_grant_lifecycle.py`, `rehearsal_issuer_issuance.py`) | grant state, lease ids, controller keys | issue, spend, revoke | spent or revoked once; leases and keys never reused |
| Recovery and rehearsal grants (`recovery_grant.py`, `rehearsal_grant.py`, `candidate_artifact.py`) | signed documents, rows inserted from outside | issue, verify, standing | what reads as valid was authorized; a rehearsal runs evidenced bytes, once |
| Health authorizations (`authorization_v3.py`) | none | verify evidence, issue, verify | accepted only inside what both parties signed |
| Host attester enrolment (`host_attester_enrolment.py`) | none | issue, verify, judge admission and standing | the registry holds what was signed; both judge alike |
| Row locks (every command) | held rows | lock, wait, commit | no circle of waiting; a started command ends |
| Migrations (`migrations/versions/`) | the schema | dc_0010 to dc_0016, up and down | committed evidence is never dropped |
| Release tooling (`.github/workflows/`, `src/scripts/`) | index, tags, release records | publish, verify, tag once, record | what a tag names is what the index serves, a record is true |

Interaction: a command locks target, then credential or plan, then rollout.
`request_rollout` reads the plan that `approve_plan` decided and `cancel_plan` may
withdraw; `dispatch_attempt` and the consumption re-read plan and envelope;
`record_observation` reads rollouts, attempts and the plan's revocation, and writes
the target's observed columns. The admission coordinator resolves associations,
policies and roots without a lock, and the finalizer locks all of them, derives
everything again and stages the consumption in the same transaction. Issuer
authorizations rest on a plan of the same service. Events go to an outbox and are
read by others.

Hard behaviours: (1) clocks are read when a call starts, decisions are taken when
its lock is granted; (2) desired state, approval, rollout, dispatch and launch are
separate transactions, with revocation, suspension or supersession possible
between any two; (3) reports and dispatches are delivered late, again, or out of
order; (4) settlement, cancellation and retry race for one rollout; (5) readers take
no locks and run several statements, between which any writer may commit; (6) a
caller may lose the reply of a commit, or never send it; (7) projections
(current-root pointers) can be set from outside by restored backups or repair SQL;
(8) migrations and release workflows may stop or overlap. PROJECT.json lists the
hazards, each at its line, with the properties that are about it.

## 2. Modules

| Module | Models |
|---|---|
| `FleetPlans` | targets and plans: one action per handler |
| `RolloutControl` | EXTENDS FleetPlans: rollouts, attempts, settlements, consumption; the properties of both; the refinement of `LaunchAuthority` |
| `LaunchAuthority` | abstract specification: what Control promises about launches |
| `PlanLookup` | EXTENDS RolloutControl: `find_approved_plan`, statement by statement beside every command, and the execution-binding standing of a plan page |
| `ObservationAdmission` | credentials and `record_observation`; what it reads of rollouts is kept in a reduced form |
| `AttestationRegistry` | enrolments, closures, pointers; locked writers, the unlocked reader query by query, SQL from outside; refinement of `TrustRegister` |
| `TrustRegister` | abstract specification: a register of roots, each used once |
| `HostAttesterEnrolment` | EXTENDS AttestationRegistry: the signed statements on their way to the registry, altered, repeated and reordered, and the package's own judgement |
| `HostAdmission` | associations, policies, the unlocked resolver, the locked admission and consumption, crash and lookup; two refinements of `TrustRegister` |
| `RehearsalLedger` | issuer authorizations and rehearsal grants: issue, replay, spend, revoke, the unlocked standing reader; refinement of `AuthorityLedger` |
| `AuthorityLedger` | abstract specification: a single-use authority |
| `RehearsalGrants` | build, evidence, signed grant, verification, spending |
| `RecoveryGrants` | the document's verification ladder, the standing and its reader |
| `DriftReport` | `drift`: executions, their reports and their settlements, each in an order of its own |
| `TargetPages` | `list_targets`, paged over a fleet that changes |
| `HealthAuthorization` | health evidence, issuing and verifying authorizations that bind it |
| `LockDiscipline` | the rows every command locks, in order; waiting; liveness |
| `EvidenceMigrations` | dc_0010 to dc_0016 up and down beside running commands |
| `ReleaseRecord` | the publish and verify workflows, tags and release records |
| `Answers` | EXTENDS HealthAuthorization and instantiates RecoveryGrants, RehearsalGrants, DriftReport and TargetPages: a behaviour asks one of them |
| `Operations` | EXTENDS ReleaseRecord and instantiates EvidenceMigrations: a behaviour is about one of them, and of the schema with one mix of commands |
| `MCRolloutControl`, `MCPlanLookup`, `MCObservationAdmission`, `MCHostAttesterEnrolment`, `MCHostAdmission`, `MCRehearsalLedger`, `MCLockDiscipline`, `MCAnswers`, `MCOperations` | small instances |
| `RolloutControlProofs`, `ObservationProofs`, `RegistryProofs`, `HostAdmissionProofs`, `RehearsalProofs`, `AnswersProofs`, `OperationsProofs`, `LockDisciplineProofs` | theorems |

Definitions carry the names of the code and PROJECT.json maps each one to its
lines. Those a comment calls a *faulty variant* are used by no specification: they
are the plausible bugs that show each property can fail.

### Correspondence and abstraction

**Tables.** A table is a variable: `target`, `plan`, `rollout`, `settlement`,
`credential`, `receipts`, `arrivals`, `enrolments`, `closures`, `current` (the pointer
table), `hosts` and `policies` (rows, closed rows and pointer), `ledger`. `attempts[r]`
is the highest `attempt_no` of a rollout (numbers are dense), a settlement of
`"pending"` is the absence of a settlement row, `consumed` is what is spent in the
kernel's ledger. A row not yet written is a constant such as `NoPlan`; NULL is `None`.

**Atomicity.** A handler that takes its locks, re-reads the rows with
`populate_existing`, decides and commits once is one action: everything it read is
what a serial execution would read. What is read before or without locks is a step of
its own: the clock of `ObservationAdmission` and `RehearsalLedger`, the lookup of
`PlanLookup` (plan row, then rollout), the resolver of `HostAdmission` (rows,
pointers and roots one after the other), `resolve_current_root` of the registry, the
standing readers, a page and its count. Transactions that stage a write and then
commit or abort are modelled as such in `HostAdmission`, `RehearsalLedger` and
`EvidenceMigrations`. `RolloutControl` keeps the early clock as
`lifetime`: an authorization that expires may leave one dispatch that read its clock
before (`"waiting"`). The consumption does not need this: being late by its wait is
modelled by consuming earlier. Every statement sees what is committed when it runs:
READ COMMITTED, as `service.py:1749` says.

**Documents.** Digests are injective values over what they digest; desired
content is its revision (every write increments it); signatures are ideal: a document
verifies exactly when its party signed it as it stands, and carriers may change a
term. Comparing a report's fifteen signed terms with its authorization is one
field, `terms`, that no later event changes. Left out everywhere: the optional
`expected_status` and `expected_version` (they only refuse), a repeated command id
(it returns the stored result and changes nothing), audit records and events.

### What a reader should know of each module

* `ObservationAdmission`: a plan has one rollout; the approval of two is revoked by two
  steps of the same instant. `StateDigest` is content and outcome; the coordinate the
  real digest also covers is compared beside it.
* `PlanLookup`: `find_approved_plan` ignores the status of the rollout and of the
  target, and so does the model. Its refusals for a plan without images or descriptor,
  which only rows of earlier schemas lack, for a descriptor other than the expected one
  and for an authorization that expired by `at` are left out: the model says yes where
  the code may still say no, never the reverse.
* `AttestationRegistry`: the grants let outside SQL insert rows and change pointers, not
  update or delete truth; `MaxRawWrites` bounds those writes. An outside enrolment may
  claim to supersede any key but itself, an outside closure may be of any kind: no
  foreign key is in the way, only the unique indexes are. `CommitsRefused` is a
  caller that commits after a refusal. Where the pointer was deleted from outside,
  `enrol_root` trusts the projection alone and two enrolments stand open; resolving
  then refuses, which is what `ResolutionIsTruth` states. A reader whose queries fall
  around a commit may answer a key that was just closed; `AnswersWereUndisputed` says
  how far that goes.
* `HostAttesterEnrolment`: the maps the package judges over are the registry's tables.
  Statements have no validity window. Only hosts have documents; a signer's terms are
  handed over by its caller.
* `HostAdmission`: the registry is taken as it promises to be (`TrustRegister`), which
  `AttestationRegistry` is shown to implement. Foundation is external and its evidence
  is that of the context it was given. Rows of a history never change.
* `RehearsalLedger`: all plans are issuer plans. The standing reader does not look at
  the target's status and the model keeps that. Clock and evidence are read before the
  locks, so an authority that expires while its spender waits is still spent; the
  properties do not claim otherwise. `truth` is a ghost: whether the answer a reader is
  after was true at an instant of its call.
* `RehearsalGrants`: the ledger row is inserted, and the verifier called, outside the
  source. A grant may expire between its verification and its spending.
* `RecoveryGrants`: the rows come from outside; the stored envelope may be any document.
  The subject's discriminator is compared like its other terms, after the product.
* `DriftReport`: a report is ordered by the execution it names (`ObservationAdmission`
  has the whole rule), a settlement by the instant its caller gives, or by that of the
  call when it gives none (`undated`), and a report of another release than the
  authorized one changes nothing. Drift compares across the two orders: with deliveries
  r2 and then r1, r2 stays the observed one while r1 is the one compared with. What it
  can promise is therefore said of targets observed through their last delivery. A
  settlement without an instant may make drift compare with the wrong release.
* `LockDiscipline`: data are left out, a command is the sequence of rows it locks and may
  end early. One command per transaction. Rows that foreign keys share-lock are held
  already or locked by nobody else. Locking a row again is left out. Subjects are
  sorted by domain (release signer before host attester), as the code does.
* `EvidenceMigrations`: each revision is one transaction, and a command of an earlier
  release does not begin on a later revision: that release is stopped before the
  migration, also where one of its issuances would wait behind the migration's lock and
  go on after it. The commands that write the tables of dc_0011 need revision 13, so for
  those tables `EvidenceKept` says nothing about dc_0011's own downgrade. The downgrade of dc_0013 (line 342) locks
  its tables in an order in which an enrolment may wait for it and it for the enrolment;
  PostgreSQL then aborts one of the two, here the command (`Rollback`). The revisions
  dc_0001 to dc_0009 only add.
* `ReleaseRecord`: the look at the index before the build is no guard (what it sees may
  be stale), the uploads are. `Verdict` takes no conclusion of a publish job (see the
  disagreements): it compares bytes. Publishing runs are serialised by the
  workflow's concurrency group, verification runs are not. Persons merge or edit the record branch.

## 3. Runs

| Run | Instance | Shows |
|---|---|---|
| `plans` | one target, two plans, one rollout with one attempt, exempt and approval-requiring, two purposes, an executable and a non-executable operation, two execution plans, one lookup at a time | `RolloutRestsOnItsPlan`, `EnvelopeSaysWhatWasFrozen`, `LaunchedUnderAnApproval`, `OrderedPerTarget`, `LookupStands` |
| `rollouts` | one plan, two rollouts, two attempts each | `TypeOK`, `OneAttemptInFlight`, `SuccessIsTheLastSettlement`, `RevocationCutsOff`, `EvidenceIsAppendOnly`, and `LaunchesAreAuthorized` (a refinement) |
| `observations` | three arrivals of seven reports over two rollouts with two attempts; or instants 0..2, two calls waiting at once, three reports, all credential commands | `HighWaterIsNewestTrusted`, `ObservedIsNewestAccepted`, `DecidedOnce`, `ProjectionOnlyAdvances`, `TrustedWithinAuthority`, `RevocationStopsAdmission` |
| `registry` | two hosts, four keys, four signed statements | `EnrolmentsAgree`, `KeepsOneRoot` (a refinement) |
| `registry_tampered` | a host and a signer, three keys, one signed statement, two writes from outside, refused commands committed | `ResolutionIsTruth`, `AnswersWereUndisputed`, `SuccessionStaysWithin`, `AdmissionsAgree` |
| `host_admission` | two hosts, one signer, three keys, two rows in each history, two callers with different evidence for one dispatch | `PolicyBindsConsumedHost`, `ConsumedOnStanding`, `AnswersAreTrue`, `HistoriesAreRegisters` (two refinements) |
| `rehearsal_ledger` | two authorizations, one grant, two targets and plans, two sessions, instants 0..2 | `OnePresentationOneUse`, `ValidWasTrue`, `SpentOnStandingTerms`, `KeepsAuthority` (a refinement) |
| `locks` | two transactions over two targets with a shared signer, for ever | `NoCircularWait`, `EveryCommandEnds` (liveness) |
| `answers` | see `MCAnswers`: three instants of health evidence, ten documents of two recovery grants, a wheel rebuilt under two executors, three rollouts, up to five targets in pages of two | `AcceptedWithinEvidence`, `RecoveryIsEarned`, `RehearsalIsEvidenced`, `FleetIsReported` |
| `operations` | two versions, two release runs, two verifications, three commits; or two commands beside a migration over two leases; or one command over every other table | `ReleasesAreTrue`, `SchemaHolds`, `EvidenceKept` |
| `suspended_dispatch` | the smallest instance that reaches it | the violation of `NoAttemptOnExcludedTarget` below |
| `unpublished_run` | one version, two release runs over one build, one verification | the violation of `VerifiedRunPublishedIt` below |

`LookupStands`, `EnrolmentsAgree`, `RecoveryIsEarned`, `RehearsalIsEvidenced`,
`FleetIsReported`, `ReleasesAreTrue` and `SchemaHolds` are conjunctions of named
properties of one component, its types included.

**One component at a time.** The components of `answers` share no variable and no
step, nor do those of `operations`. Interleaving them would only multiply states, so a behaviour
picks one (`question`, `operation`) and leaves the others in their initial states. That
nothing is lost is proved: `ComponentsStandAlone`, `OperationsStandAlone`.

**Corners.** `observations`, `host_admission` and `rehearsal_ledger` bound their instance
by a disjunction of smaller ones. In the corner `order` reports arrive one at a time, in
every order, at one instant; in `authority` two calls of one rollout wait while the clock
moves and commands close what they rely on. In the corner `fleet` everything moves around one caller;
in `callers` two callers lose replies around a commit over a fleet with one row in each
history. In `life` one target's authorities live through replay, withdrawal,
suspension and time; in `bindings` two targets meet over one controller at one instant; in
`grant` two sessions spend and revoke one grant. Each corner is a restriction of the
same `Next`; the theorems have no corners.

**Why the bounds are enough to see something.** Two plans give supersession, digest
collision and a race for one target; two rollouts of two attempts give retry, a
late settlement and side-by-side delivery. Two attempts of two rollouts are the
least on which the lexicographic order of coordinates differs from either
component; three arrivals give an order, a straggler and a duplicate. Three instants put an
event before, at and after each end of a half-open window. Four keys over two hosts
give a chain of two rotations beside another subject's root; two outside writes can
make and hide a dispute. Two rows of a history are a rotation; a third key is a
root that was rotated twice. Two sessions are a spend against a revocation, a replay
against a reader. With five targets in pages of
two, a change falls between the count and the reading of the last page. Two
verifications are the least that race for one tag; three commits are a version, its
successor and one that came between.
Three rollouts of which two froze different releases give a drift report an old, a new
and a repeated release, and a failed delivery between two good ones.
What a larger instance could add to safety is covered by the theorems of section 4.

**Deadlock** is not checked by TLC: identifiers, keys and instants are finite, so a run in which all are used
really ends. The system's own deadlock, transactions that wait in a circle, is `NoCircularWait`.

**Fairness** is assumed in `locks` only: strong for taking the next row, since
PostgreSQL queues those who wait for a row, so none is passed over for ever; weak for
ending a command, since a started command runs on and waits for nothing but rows. Nothing is assumed of beginning: Control has no scheduler, worker or timer,
every command is somebody else's call, and nothing in the code promises that the call
comes. For the same reason no other module states liveness.

### Disagreements between the code and its documents

*A suspended target is dispatched* (run `suspended_dispatch`). `models.py:135` excludes
it from rollouts and `request_rollout` does; `dispatch_attempt` does not read the
target's status. The consumption does, so the attempt is stuck open, not launched.

*A run that published nothing is verified* (run `unpublished_run`).
`verify-release.yml:65` takes the conclusion of the first job whose name matches
`^publish`, and `release.yml:58` names the preflight job `publisher identity`: it comes
first and succeeds in every run that builds. A run whose publish job was stopped or
refused is VERIFIED when another run uploaded the same bytes, where the input is said to
be the run that published them. What still holds, and is what `ReleasesAreTrue` says, is
that the run is of the tagged commit, that the commit declares the version and that the
index serves the bytes that run built.

Seen while modelling, without a run of their own:

* *Drift compares two orders.* `service.py:4230` takes the succeeded rollout of the
  greatest `completed_at`, `service.py:3768` keeps the observation of the greatest
  execution coordinate. Where deliveries overlap the two may name different rollouts.
* *An outside row can make the two judgements of a rotation differ.* One that claims to
  supersede an open key takes the place of its successor in
  `uq_attestation_enrolments_supersedes`: the package admits a rotation which
  `rotate_root` then refuses as a lost race. `AdmissionsAgree` promises that direction
  only while nobody wrote from outside.

* *Manual repair does not stop convergence.* `models.py:197` and the docstring at
  `service.py:3429` say it does; `dispatch_attempt` (`service.py:3121`) refuses only
  terminal statuses.
* *Two deliveries to one target.* `service.py:3146` refuses a second attempt lest
  two deliveries race to converge one target; the check (`service.py:3135`) is per rollout.
* *Eligibility is not reproducible.* `models.py:1261` says the receipt keeps the
  instant that decided; a revocation that read its clock before (`service.py:2259`) and
  committed after makes the same rows and instant decide otherwise. What does hold is
  `RevocationStopsAdmission`.
* *A refused rotation can leave two open enrolments* (`attestation_trust_registry.py:874`)
  when the caller commits after the refusal; the module speaks of at most one (lines 26,
  87, 553). Resolving then refuses.
* *Spurious drift.* The unlocked resolver (`host_admission_service.py:221`) reads rows and
  pointer in two statements and may report drift where a rotation merely fell between.
* *The admission clock may be stale.* `host_admission_coordinator.py:619` reads it before
  the locks; a root that expires during the wait is still accepted.
* *The preview's digest* (`service.py:4410`) never equals the one that is frozen, which
  names the new plan; `templates/target_detail.html:114` shows it as the digest to be. Its
  superseded plan (`service.py:4434`, `target_detail.html:124`) may be another one too.
* *Pages shift.* `service.py:4265` promises every row once; an offset under concurrent
  registration (`service.py:4279`) repeats or skips. What holds is at most
  one missed and one repeated for each change.
* *A historical recovery grant reads as forged* after its schema changed
  (`recovery_grant.py:646` against line 418).
* *A verification that is run again ends red* where `tag_once.py:7` promises a no-op, because the record exists
  (`write_release_record.py:225`).
* *A record may be written for an unproven verification*: the step of
  `verify-release.yml:342` runs always, and `write_release_record.py:205` speaks of a
  verified run.
* *The floor of the guard* (`release_guard.py:71`) is what is recorded, not what is
  published, as line 55 says.
* *A forged window earns a diagnostic*: `authorization_v3.py:708` parses the window before
  the signature is verified, line 1076 promises the signature first.
* *Standing mirrors the package exactly* (`attestation_trust_registry.py:495`) except for
  a disputed subject (line 560).
* `docs/DISPATCH_CONSUMPTION.md:250` says `cancel_plan` decides from unlocked reads, while
  the code locks target and plan first (`RolloutRestsOnItsPlan` depends on it);
  `revoke_plan_approval` speaks of a plan somebody may re-approve, while `approve_plan`
  takes only proposed plans and `uq_plans_digest` prevents proposing the same one again;
  settling an attempt `cancelled` publishes the failed-rollout event.

Hazards met and covered by no property: `record_version` does not grow with a second
attempt, so an `expected_version` may match too late (`service.py:3187`); an attempt
settled `timed_out` may still be running when its retry is launched (`service.py:554`),
which Control cannot know; a release record's `supersedes` names the highest version
recorded so far, also for a version recorded out of order
(`write_release_record.py:231`); edits a person made on an
open record branch are overwritten (`open_release_record_pr.sh:156`).

## 4. Proofs

Each proof module is checked with `tlapm <module>.tla`. A theorem holds for all values
of the constants that satisfy the named assumptions, which TLC evaluates in the runs.
The properties are seldom inductive by themselves; what carries them:

### Rollouts and plan lookup (`RolloutControlProofs`)

Assumptions: `NoneIsNoValue` (NULL is no value of a column), `ProposalInputs` and
`RolloutInputs` (inputs are drawn from the declared vocabularies, bounds are naturals).

* `FrozenInv` = `TypeOK` + `PlanInv` + `RestInv`. `PlanInv` ties a plan's decision to
  its status and need for approval, and, once approved, its authorized operation and
  execution to the frozen ones; `RestInv` ties each rollout to a plan in a status
  from which it could be requested and cannot be withdrawn, and its envelope to that
  plan. Without `PlanInv` an approval could diverge from the proposal
  before the rollout exists, and the envelope would not be determined. It gives
  `RolloutsRestOnTheirPlans`, `EnvelopesSayWhatWasFrozen`, `RevocationsCutOff`.
* `LineInv` = `TypeOK` + `AttemptInv`: attempts above the highest are unsettled, all
  below it settled, a settled rollout has none open, and it reads succeeded exactly
  when its last attempt settled so. It gives `AttemptsAreSequential`, `SuccessIsFinal`,
  `EvidenceOnlyGrows`.
* Beside them stand what a consumption leaves behind (`LaunchesAreApproved`), the
  uniqueness of max+1 sequences (`OrderIsTotal`), `DecommissionEndsATarget`, and
  `Implementation`: under `LineInv` every step of `RolloutControl` is a step of
  `LaunchAuthority` or a stutter, with `open` = something is pending, `launched` = the
  consumed attempts and `live` = not terminal.
* `LookupInv` = `LookupTypeOK` + `LoadedInv` (a plan row that was read is still what the
  plan says, and where its rollout is in sight the answer was true once) + `AnsweredInv`
  (the same of the answer). A lookup only reads, so `LookupSpec` implies `Spec` and
  `FrozenInv` holds beside it: rows that may be read at different instants agree because
  what they say was frozen. It gives `LookupsStand`.

### Observations (`ObservationProofs`)

Assumption `ObservationInputs`: reports, bounds and instants are in
their domains, NULL is no instant and no report. The number of calls that wait, of
arrivals and of instants is arbitrary.

* `TypeInv` = `TypeOK` + `Calls`: a waiting command names a row that exists, so what
  it writes at its commit is a row.
* `MarkInv`, per target: `Coordinated` (a trusted receipt has a coordinate of the
  target, and is accepted exactly when its outcome is not a failure), `Followed` (the
  mark is the newest of them and its state is theirs) and `Observed` (the same of the
  accepted ones). `Coordinated` is what makes the others inductive: a report that
  repeats the mark's coordinate and state changes neither column, and that is right
  only because equal state digests mean equal verdicts. It gives `HighWaterIsRight`,
  `ObservedIsRight`, `ProjectionsAdvance`.
* `AuthorityInv` = `Lifecycle` + `TrustedWithinAuthority`: an activated credential is
  no longer pending, so its activation instant never moves after a receipt relied on
  it. `RowsStand` shows that nothing else a receipt relied on moves either.
* `DecidedOnce` is inductive given `TypeInv`; `RevocationStopsAdmission` needs no more
  than types, because commits are serialised and compare the instant fixed on entry.

### Registry (`RegistryProofs`)

Assumptions `RegistryInputs` and, for the signed statements, `EnrolmentInputs`. Most
theorems are about `AttestationRegistry`'s own `Spec`, and `EnrolmentUsesRegistry` shows
that the composition the runs check, `EnrolmentSpec`, is a behaviour of it.

* `Inv` = `TypeOK` + `SuccessionStaysWithin` + `ReaderInv` (what a reader has read so far
  still bounds what was open when it began), inductive under every outside write: it
  gives `SuccessionHolds`, `ResolutionHolds`, `ReadsHold`, `AnswersHold`.
* `PointerInv`, under `Disciplined` (no outside writes, refused commands rolled back):
  one open enrolment at most, named by the pointer. It gives `NothingEverDrifts` and the
  refinement `RegistryIsARegister`.
* `ReplacedAreClosed`, while nobody wrote from outside: a key in whose place another was
  enrolled is closed, also where the refused rotation was committed. With it the package
  admits nothing the registry refuses; that it refuses nothing the registry does holds
  under every outside write. Together they are `AdmissionsHold`.
* `EnrolledAsSigned`, with `PointerInv` and under `Disciplined`: a host's key was bound by
  one signed statement. It gives `EnrolmentsHold`.

### Host admission (`HostAdmissionProofs`)

Assumptions `AdmissionInputs`, `NoneIsNoContext`. `Inv` = `FleetInv` (the pointers name
the open rows) + `WorldTypes` + `CallsInv` (what a call has read so far are rows that
exist, and its policy was made for its association once that was compared) + `TxInv`
(`Stands`: while a transaction holds the locks, what it agreed to still stands) +
`ConsumedInv`. `TxInv` is the heart: the locks are what makes the check before the
commit true at the commit. It gives `ConsumptionsStand`, `PolicyBindsHost`, `AnswersHold`,
`PointersHold`, and `HistoriesHold`, the refinements of `TrustRegister`.

### Rehearsal ledgers (`RehearsalProofs`)

Assumptions `RehearsalAssumption`, `NoneIsNoRow`. `Inv` = `Types` + `CallsInv` (a staged
write still finds the row it decided from) + `BindingInv` (leases and controllers of
authorizations, recorded or about to be, differ, and what was spent bears its own evidence) + `EndInv` (a row
has ended by exactly one act) + `PlanInv` (what was minted rests on a plan that was
approved, and a reader that found plan and row in force found the truth). It
gives `AuthorityEndsOnce`, `OnePresentation`, `ReadersAreRight`, `SpentOnTerms` and the
refinement `LedgersKeepAuthority`. That consumption needs evidence newer than the
issuance compares with the instant of issuance, not with its commit; the theorem
`OnePresentation` rests on no more.

### Answers (`AnswersProofs`)

Assumptions `HealthAuthorizationAssumption` and `AnswersInputs` (the inputs of the other
four). `ComponentsStandAlone`: whatever is asked, each component behaves by its own
specification, so an invariant of one is an invariant of the whole.

* `HealthInv` = `TypeOK` + everything signed was earned (evidence Platform Health signed,
  the roster covered, windows nested) + an acceptance is on its terms. It gives
  `AcceptanceIsEarned` and `AlterationsAreRefused`.
* `RecoveryInv` = `RowsInv` + `CallInv` (a document under a call's clock that grants what is
  asked, and is not withdrawn, did so when the clock was read) + `AnswerInv` (a valid answer was true, a
  diagnosis of the terms is of a document signed as it stands). It gives `RecoveriesAreEarned`.
* `RehearsalInv`: what an executor verified was signed as it stands, over bytes some reading
  evidenced; what ran is spent. It gives `RehearsalsAreEvidenced`.
* `DriftInv`: executions finish at different instants, a settlement given an instant is
  given that one, what was read back since the last change is what runs (`ReadBack`), and
  the observed columns are what the report of a succeeded execution proves (`Observed`).
  It gives that silence is earned and, for a target observed through its last delivery,
  that the report is right.
* `PagesInv`: the targets lost (`Lost`: not shown, and now before the next page, or behind
  the last) and shown twice or about to be (`Twice`) are finite sets with at most one element for
  each change. A change shifts every rank by at most one, so it moves at most one target
  over the boundary. With `DriftInv` it gives `FleetReportsHold`.

### Operations (`OperationsProofs`)

Assumptions `ReleaseAssumption` and `SchemaInputs`. `OperationsStandAlone` is to this
composition what `ComponentsStandAlone` is to the other.

* `ReleaseInv` = `TypeOK` + what a run, the index, a verification, the record branch and
  `main` say of each other. Its steps preserve it because of `Later`: what one party has
  said (a commit, a build, a file, a tag, that a version is recorded or about to be) no other
  party takes back, so what a verification concluded from it stays true while others go on.
  `HasFloor`, that a tree of `main` has a highest version, is kept by each merge and spares an
  induction over finite sets. `Earned` names what stands behind a tag and is kept by every
  step: files once served stay served, and a build's bytes never change. It gives `ReleasesTellTheTruth` and `NothingIsTakenBack`.
* `SchemaInv`: a command runs on the revision its tables need (`CommandsInv`), no command has touched
  what the migration holds, and what it saw there still is so (`MigrationInv`: an empty
  table stays empty until the drop), the promises of dc_0010 and dc_0015 hold of the
  committed rows (`PromisesInv`), and on dc_0016 no two leases, recorded or about to be, share a
  controller (`LeaseInv`). It gives `RevisionsKeepPromises` and `EvidenceIsKept`.

### Locks (`LockDisciplineProofs`)

Assumption `ReferencesAssumption`. `RowsExclusive` (a row is held by one transaction),
`LocksUpward` (what is still to be locked lies above what is held) and `NoDeadlock`: of
a set of waiting transactions, one waits for a row of the highest class, and nobody in the
set holds it. The run has two sessions; the theorem any number.

### Only model-checked

The liveness `EveryCommandEnds` and everything with `ENABLED`, which are out of the prover's
reach, and the disagreements `NoAttemptOnExcludedTarget` and `VerifiedRunPublishedIt`. Every other property a run checks
has a theorem. Only proved, and in no run: `TypesHold` and `TypeCorrect`
where no run names the types, `ComponentsStandAlone`, `OperationsStandAlone`,
`EnrolmentUsesRegistry`, `NothingIsTakenBack`, `NothingEverDrifts`, `PointersHold`,
`ReadsHold`, `AuthorityEndsOnce`, `RowsExclusive`, `LocksUpward`, `AlterationsAreRefused`, `DecommissionEndsATarget`.

## 5. Not modelled

PROJECT.json gives each part's status and reason.

* *Declarations* (ports, facts, manifest, package surface, catalogue) and the *web
  pages* keep no state and decide nothing.
* *Row readers* that return one view or one log hold no decision. The *preview* computes
  a proposal and stores nothing.
* *Digests, image sets and parsing* are pure functions of strings; the models use their
  values. Field grammars and refusal codes belong to unit tests.
* The *Foundation source gate*, the *canaries*, the *kernel floor* and the *CI lanes* are
  checks over text and processes of other repositories.
* The *platform kernel* is external: idempotency, audit and outbox appear only as the set
  of spent ids. Foundation, PostgreSQL, the package index and the forge appear as what
  the code relies on.
* `install_rehearsal_issuer_security` runs once at startup; the revisions dc_0001 to
  dc_0009 only add tables and columns.

Worth adding next: a composition of `HostAdmission` with `RolloutControl`, now joined only by the guards of the consumption that both model.
