---------------------------- MODULE RehearsalGrants ----------------------------
(***************************************************************************)
(* Rehearsal grants: the evidence of one built wheel (candidate_artifact), *)
(* the signed document and its verification ladder (rehearsal_grant), and  *)
(* the ledger row that spends it (rehearsal_grant_lifecycle).              *)
(*                                                                         *)
(* What runs is the chain the docs name: build attestation, host reading,  *)
(* evidence, signed grant, verification, spending.  Nothing under src/     *)
(* inserts the ledger row or calls the verifier: an executor outside takes *)
(* the withdrawn and spent ids, verifies with its own clock and then       *)
(* spends; anything may commit in between.                                 *)
(***************************************************************************)
EXTENDS Naturals, FiniteSets

CONSTANTS
  Grants,       \* grant ids, each with its own single-use reference
  Artifacts,    \* locations of a build: repository, run and artifact id
  Digests,      \* digests of a wheel
  Steps,        \* steps a statement may name, published by the executor or not
  Published,    \* the published step kinds, mirrored in FOUNDATION_STEP_KINDS
  Executors,    \* executors that present grants
  MaxClock      \* bound on the clock

\* What an instance assumes.
RehearsalInputs == Published \subseteq Steps /\ MaxClock \in Nat

TerminalOf == [plan_verification_refusal |-> "rolled_back"]
Terminals == {"rolled_back", "succeeded"}
Decisions == {"granted", "approval_exempt"}
Candidates == [artifact: Artifacts, digest: Digests]
Statements ==
  [grant: Grants, candidate: Candidates, step: Steps, terminal: Terminals,
   decision: Decisions, from: {1}, until: {2}]
Documents == [statement: Statements, signed: Statements]

VARIABLES
  clock,
  wheel,      \* the bytes at each location now; a re-run replaces them
  attested,   \* what the build has attested, by location and digest
  seen,       \* what a host has read, by location and digest
  evidence,   \* the CandidateArtifactV1 values that were parsed
  documents,  \* the grants in circulation
  state,      \* the ledger row of each grant
  executor    \* what each executor does

rehearsalVars ==
  <<clock, wheel, attested, seen, evidence, documents, state, executor>>

Idle == [step |-> "idle"]
TypeOK ==
  /\ clock \in 0..MaxClock
  /\ wheel \in [Artifacts -> Digests]
  /\ attested \subseteq Candidates /\ seen \subseteq Candidates
  /\ evidence \subseteq Candidates
  /\ documents \subseteq Documents
  /\ state \in [Grants -> {"absent", "issued", "revoked", "spent"}]
  /\ \A x \in Executors : executor[x].step \in {"idle", "ledger", "verified", "ran"}

Init ==
  /\ clock = 0
  /\ wheel \in [Artifacts -> Digests]
  /\ attested = {} /\ seen = {} /\ evidence = {} /\ documents = {}
  /\ state = [g \in Grants |-> "absent"]
  /\ executor = [x \in Executors |-> Idle]

-----------------------------------------------------------------------------
\* Two processes read the same wheel; a re-run of the workflow may change it.
Attest(a) ==
  /\ attested' = attested \cup {[artifact |-> a, digest |-> wheel[a]]}
  /\ UNCHANGED <<clock, wheel, seen, evidence, documents, state, executor>>
ReadOnHost(a) ==
  /\ seen' = seen \cup {[artifact |-> a, digest |-> wheel[a]]}
  /\ UNCHANGED <<clock, wheel, attested, evidence, documents, state, executor>>
Rerun(a, d) ==
  /\ wheel[a] # d
  /\ wheel' = [wheel EXCEPT ![a] = d]
  /\ UNCHANGED <<clock, attested, seen, evidence, documents, state, executor>>

ReadingsAgree(built, observed) == built = observed

\* CandidateArtifactV1.parse: two readings, one of them perhaps typed by hand.
ParseEvidence(a, built, observed) ==
  /\ \/ [artifact |-> a, digest |-> built] \in attested
     \/ [artifact |-> a, digest |-> observed] \in seen
  /\ ReadingsAgree(built, observed)
  /\ evidence' = evidence \cup {[artifact |-> a, digest |-> built]}
  /\ UNCHANGED <<clock, wheel, attested, seen, documents, state, executor>>

Evidenced(statement, candidate) == statement.candidate = candidate

\* The constructor of the statement: a published step and an ordered window.
Constructible(s) == s.step \in Published /\ s.from < s.until

\* issue_rehearsal_grant.  The ledger row is inserted with it.
Issue(s, candidate) ==
  /\ candidate \in evidence
  /\ state[s.grant] = "absent"
  /\ Constructible(s)
  /\ s.terminal = TerminalOf["plan_verification_refusal"]
  /\ Evidenced(s, candidate)
  /\ documents' = documents \cup {[statement |-> s, signed |-> s]}
  /\ state' = [state EXCEPT ![s.grant] = "issued"]
  /\ UNCHANGED <<clock, wheel, attested, seen, evidence, executor>>

\* A document is copied with one term changed.
Alter(d, c) ==
  /\ d \in documents
  /\ documents' = documents \cup {[d EXCEPT !.statement.candidate = c]}
  /\ UNCHANGED <<clock, wheel, attested, seen, evidence, state, executor>>

Tick ==
  /\ clock < MaxClock
  /\ clock' = clock + 1
  /\ UNCHANGED <<wheel, attested, seen, evidence, documents, state, executor>>

-----------------------------------------------------------------------------
\* verify_rehearsal_grant: authenticity, the window, the ledger, the decision,
\* the candidate and last the provocation.
Refusal(d, subject, at, withdrawn, spent) ==
  LET s == d.statement
  IN
  IF s.terminal # TerminalOf["plan_verification_refusal"] THEN "provocation_mismatch"
  ELSE IF ~Constructible(s) THEN "provocation_unknown"
  ELSE IF d.signed # s THEN "signature_invalid"
  ELSE IF at < s.from THEN "not_yet_valid"
  ELSE IF at >= s.until THEN "expired"
  ELSE IF s.grant \in withdrawn THEN "revoked"
  ELSE IF s.grant \in spent THEN "already_consumed"
  ELSE IF s.decision # "granted" THEN "approval_not_standing"
  ELSE IF s.candidate # subject.candidate THEN "candidate_mismatch"
  ELSE IF s.step # subject.step THEN "provocation_mismatch"
  ELSE "none"

\* rehearsal_standing, for a document that is there.
Standing(refusal) ==
  CASE refusal = "none" -> "valid"
    [] refusal = "already_consumed" -> "consumed"
    [] refusal \in {"not_yet_valid", "expired", "revoked"} -> refusal
    [] OTHER -> "unresolved"

\* The executor takes the withdrawn and the spent ids, for what it has at hand.
Present(x, d, a, step) ==
  /\ executor[x] = Idle
  /\ d \in documents
  /\ executor' = [executor EXCEPT ![x] =
       [step |-> "ledger", document |-> d,
        subject |-> [candidate |-> [artifact |-> a, digest |-> wheel[a]], step |-> step],
        withdrawn |-> {g \in Grants : state[g] = "revoked"},
        spent |-> {g \in Grants : state[g] = "spent"}]]
  /\ UNCHANGED <<clock, wheel, attested, seen, evidence, documents, state>>

Verify(x) ==
  /\ executor[x].step = "ledger"
  /\ LET e == executor[x]
         standing ==
           Standing(Refusal(e.document, e.subject, clock, e.withdrawn, e.spent))
     IN  executor' = [executor EXCEPT ![x] =
           IF standing = "valid" THEN [e EXCEPT !.step = "verified"] ELSE Idle]
  /\ UNCHANGED <<clock, wheel, attested, seen, evidence, documents, state>>

\* Faulty variant: the state of the locked row is not looked at.
SpendAny(x) ==
  /\ executor[x].step = "verified"
  /\ state' = [state EXCEPT ![executor[x].document.statement.grant] = "spent"]
  /\ executor' = [executor EXCEPT ![x].step = "ran"]
  /\ UNCHANGED <<clock, wheel, attested, seen, evidence, documents>>

\* _stage_rehearsal_consumption, then the rehearsal.
Spend(x) ==
  /\ executor[x].step = "verified"
  /\ state[executor[x].document.statement.grant] = "issued"
  /\ state' = [state EXCEPT ![executor[x].document.statement.grant] = "spent"]
  /\ executor' = [executor EXCEPT ![x].step = "ran"]
  /\ UNCHANGED <<clock, wheel, attested, seen, evidence, documents>>

\* Refused by the ledger.
GiveUp(x) ==
  /\ executor[x].step = "verified"
  /\ state[executor[x].document.statement.grant] # "issued"
  /\ executor' = [executor EXCEPT ![x] = Idle]
  /\ UNCHANGED <<clock, wheel, attested, seen, evidence, documents, state>>

Revoke(g) ==
  /\ state[g] = "issued"
  /\ state' = [state EXCEPT ![g] = "revoked"]
  /\ UNCHANGED <<clock, wheel, attested, seen, evidence, documents, executor>>

Next ==
  \/ Tick
  \/ \E a \in Artifacts : Attest(a) \/ ReadOnHost(a) \/ (\E d \in Digests : Rerun(a, d))
  \/ \E a \in Artifacts, built, observed \in Digests : ParseEvidence(a, built, observed)
  \/ \E s \in Statements, c \in evidence : Issue(s, c)
  \/ \E d \in documents, c \in Candidates : Alter(d, c)
  \/ \E g \in Grants : Revoke(g)
  \/ \E x \in Executors :
       \/ \E d \in documents, a \in Artifacts, step \in Published : Present(x, d, a, step)
       \/ Verify(x)
       \/ Spend(x)
       \/ GiveUp(x)

Spec == Init /\ [][Next]_rehearsalVars

-----------------------------------------------------------------------------
Ran(x) == executor[x].step = "ran"

\* A verification with stale ids can say valid to two executors at once; the
\* ledger lets one of them run, and nobody runs a withdrawn grant.
OneRunPerGrant ==
  \A x, y \in Executors :
    Ran(x) /\ Ran(y) /\ executor[x].document.statement.grant = executor[y].document.statement.grant
      => x = y

\* What a rehearsal runs are bytes that one reading outside the grant vouches
\* for, at the location the grant names: a document altered after signing, a
\* digest typed by hand and a re-run that changed the wheel do not get through.
RunsEvidencedBytes ==
  \A x \in Executors : Ran(x) =>
    /\ executor[x].subject.candidate \in attested \cup seen
    /\ executor[x].document.signed.candidate = executor[x].subject.candidate
    /\ executor[x].document.signed.step = executor[x].subject.step
=============================================================================
