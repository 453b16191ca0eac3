-------------------------- MODULE AttestationRegistry --------------------------
(***************************************************************************)
(* The attestation trust registry (attestation_trust_registry.py): an      *)
(* append-only truth of enrolments and closures, and a projection of it,   *)
(* the current-root pointer of each subject.                               *)
(*                                                                         *)
(* A writer locks its subject, decides and commits: one action.  Readers   *)
(* take no lock and query several times: resolve_current_root is a         *)
(* sequence of steps.  The module also names who else can write: callers   *)
(* that commit what a refused command left in their transaction, and SQL   *)
(* outside the module, which the grants confine to inserts and the         *)
(* pointer.                                                                *)
(***************************************************************************)
EXTENDS Naturals, FiniteSets

CONSTANTS
  Subjects,        \* the (custody domain, subject) coordinates
  Fingerprints,    \* the keys that may be enrolled
  CommitsRefused,  \* whether a caller may commit after a refusal
  MaxRawWrites,    \* bound on the writes from outside the module
  None             \* a NULL column

ASSUME RegistryInputs ==
  /\ CommitsRefused \in BOOLEAN /\ MaxRawWrites \in Nat
  /\ IsFiniteSet(Fingerprints)
  /\ None \notin Subjects /\ None \notin Fingerprints

VARIABLES
  enrolments,   \* attestation_enrolments, by fingerprint
  closures,     \* attestation_fingerprint_closures, by fingerprint
  current,      \* attestation_current_roots, by subject
  reader,       \* a call of resolve_current_root between two queries
  rawWrites     \* writes from outside so far

truth == <<enrolments, closures>>
vars == <<truth, current, reader, rawWrites>>

\* `genuine': the stored fingerprint is that of the stored key material.
EnrolmentRows ==
  [subject: Subjects, supersedes: Fingerprints \cup {None}, genuine: BOOLEAN]
NoEnrolment == [subject |-> None, supersedes |-> None, genuine |-> FALSE]

\* Whatever it is called, a closure has a successor exactly if it is a
\* supersession; only SQL from outside calls it other than these.
ClosureRows ==
  [kind: {"superseded"}, successor: Fingerprints]
    \cup [kind: {"revoked", "other"}, successor: {None}]
NoClosure == [kind |-> "open", successor |-> None]

Idle == [phase |-> "idle"]
\* `stood' records, for the properties, what was open when the call began.
Readers ==
  [phase: {"closure", "count", "answered"}, subject: Subjects,
   fingerprint: Fingerprints, stood: SUBSET Fingerprints]

Enrolled(f) == enrolments[f] # NoEnrolment
Closed(f) == closures[f] # NoClosure

\* Rows of their tables, and the foreign keys between them.
TypeOK ==
  /\ enrolments \in [Fingerprints -> EnrolmentRows \cup {NoEnrolment}]
  /\ closures \in [Fingerprints -> ClosureRows \cup {NoClosure}]
  /\ current \in [Subjects -> Fingerprints \cup {None}]
  /\ reader \in Readers \cup {Idle}
  /\ rawWrites \in 0..MaxRawWrites
  /\ \A f \in Fingerprints : Closed(f) =>
       /\ Enrolled(f)
       /\ closures[f].successor # None => Enrolled(closures[f].successor)
  /\ \A s \in Subjects : current[s] # None => Enrolled(current[s])

Init ==
  /\ enrolments = [f \in Fingerprints |-> NoEnrolment]
  /\ closures = [f \in Fingerprints |-> NoClosure]
  /\ current = [s \in Subjects |-> None]
  /\ reader = Idle
  /\ rawWrites = 0

-----------------------------------------------------------------------------
(***************************************************************************)
(* What the truth says, and how it is read.                                *)
(***************************************************************************)
OpenOf(s) == {f \in Fingerprints : enrolments[f].subject = s /\ ~Closed(f)}

\* _count_open_enrolments is more than one.
Ambiguous(s) == Cardinality(OpenOf(s)) > 1

\* _derive_current_fingerprint: several open enrolments are no answer.
Derived(s) == IF \E f \in Fingerprints : OpenOf(s) = {f}
              THEN CHOOSE f \in Fingerprints : OpenOf(s) = {f} ELSE None

\* reconcile_current_root.
Drifted(s) == Derived(s) # current[s] \/ Ambiguous(s)

\* Faulty variant: the pointer is followed to whatever enrolment it names.
ResolveAnySubject(s) ==
  LET f == current[s]
  IN IF f = None THEN "absent"
     ELSE IF Closed(f) THEN "drift"
     ELSE IF Ambiguous(s) THEN "disagreement"
     ELSE IF ~enrolments[f].genuine THEN "drift"
     ELSE "root"

\* resolve_current_root in one state: its refusal, or "root" for current[s].
Resolve(s) ==
  LET f == current[s]
  IN IF f = None THEN "absent"
     ELSE IF enrolments[f].subject # s THEN "drift"
     ELSE IF Closed(f) THEN "drift"
     ELSE IF Ambiguous(s) THEN "disagreement"
     ELSE IF ~enrolments[f].genuine THEN "drift"
     ELSE "root"

\* What is not called a revocation reads as a supersession.
ClosedAs(f) == IF closures[f].kind = "revoked" THEN "revoked" ELSE "superseded"

\* fingerprint_standing.
Standing(f) ==
  IF ~Enrolled(f) THEN "absent"
  ELSE IF Closed(f) THEN ClosedAs(f)
  ELSE IF Ambiguous(enrolments[f].subject) THEN "registry_disagreement"
  ELSE LET named == current[enrolments[f].subject]
       IN IF named = None THEN "not_active_for_host"
          ELSE IF named # f THEN "wrong_host"
          ELSE "valid"

-----------------------------------------------------------------------------
(***************************************************************************)
(* Writers.                                                                *)
(***************************************************************************)

\* Faulty variant: a key is unique in its subject, not across the table.
InsertablePerSubject(s, f, old) ==
  /\ enrolments[f].subject # s
  /\ old # None => \A g \in Fingerprints : enrolments[g].supersedes # old

\* The unique indexes: a fingerprint is enrolled once, in any custody domain,
\* and one enrolment may supersede a given one.
Insertable(s, f, old) ==
  /\ ~Enrolled(f)
  /\ old # None => \A g \in Fingerprints : enrolments[g].supersedes # old

WithEnrolment(s, f, old) ==
  [enrolments EXCEPT ![f] = [subject |-> s, supersedes |-> old, genuine |-> TRUE]]

\* A first root, or the recovery after a revocation: the primary key of the
\* pointer refuses a subject that has one.
EnrolRoot(s, f) ==
  /\ Insertable(s, f, None)
  /\ current[s] = None
  /\ enrolments' = WithEnrolment(s, f, None)
  /\ current' = [current EXCEPT ![s] = f]
  /\ UNCHANGED <<closures, reader, rawWrites>>

\* That refusal comes after the enrolment was flushed, in a savepoint of its
\* own: committing the transaction keeps it.
CommitRefusedEnrolment(s, f) ==
  /\ CommitsRefused
  /\ Insertable(s, f, None)
  /\ current[s] # None
  /\ enrolments' = WithEnrolment(s, f, None)
  /\ UNCHANGED <<closures, current, reader, rawWrites>>

\* Faulty variant: a pointer that names the superseded key is authority enough.
RotatesByPointer(s, old, f) ==
  /\ f # old
  /\ old # None /\ current[s] = old
  /\ Insertable(s, f, old)

\* What rotate_root requires before it writes: the pointer, and the enrolment
\* it names, are this subject's.
Rotates(s, old, f) ==
  /\ f # old
  /\ old # None /\ current[s] = old
  /\ enrolments[old].subject = s
  /\ Insertable(s, f, old)

RotateRoot(s, old, f) ==
  /\ Rotates(s, old, f)
  /\ ~Closed(old)
  /\ enrolments' = WithEnrolment(s, f, old)
  /\ closures' = [closures EXCEPT ![old] = [kind |-> "superseded", successor |-> f]]
  /\ current' = [current EXCEPT ![s] = f]
  /\ UNCHANGED <<reader, rawWrites>>

\* The closure of the old key is refused after the new one was flushed.
CommitRefusedRotation(s, old, f) ==
  /\ CommitsRefused
  /\ Rotates(s, old, f)
  /\ Closed(old)
  /\ enrolments' = WithEnrolment(s, f, old)
  /\ UNCHANGED <<closures, current, reader, rawWrites>>

\* The pointer of its subject goes with it, only if it still names this key.
RevokeRoot(f) ==
  /\ Enrolled(f) /\ ~Closed(f)
  /\ closures' = [closures EXCEPT ![f] = [kind |-> "revoked", successor |-> None]]
  /\ current' = [s \in Subjects |->
       IF s = enrolments[f].subject /\ current[s] = f THEN None ELSE current[s]]
  /\ UNCHANGED <<enrolments, reader, rawWrites>>

\* repair_current_root: never a choice among several.
RepairCurrentRoot(s) ==
  /\ ~Ambiguous(s)
  /\ current' = [current EXCEPT ![s] = Derived(s)]
  /\ UNCHANGED <<truth, reader, rawWrites>>

-----------------------------------------------------------------------------
(***************************************************************************)
(* resolve_current_root, unlocked: its queries one by one.                 *)
(***************************************************************************)
BeginResolving(s) ==
  /\ current[s] # None
  /\ enrolments[current[s]].subject = s
  /\ reader' = [phase |-> "closure", subject |-> s, fingerprint |-> current[s],
                stood |-> OpenOf(s)]
  /\ UNCHANGED <<truth, current, rawWrites>>

\* Faulty variant: the closures are not asked.
ReadNoClosure ==
  /\ reader.phase = "closure"
  /\ reader' = [reader EXCEPT !.phase = "count"]
  /\ UNCHANGED <<truth, current, rawWrites>>

ReadClosure ==
  /\ reader.phase = "closure"
  /\ reader' = IF Closed(reader.fingerprint) THEN Idle ELSE [reader EXCEPT !.phase = "count"]
  /\ UNCHANGED <<truth, current, rawWrites>>

ReadCount ==
  /\ reader.phase = "count"
  /\ reader' = IF Ambiguous(reader.subject) \/ ~enrolments[reader.fingerprint].genuine
               THEN Idle ELSE [reader EXCEPT !.phase = "answered"]
  /\ UNCHANGED <<truth, current, rawWrites>>

-----------------------------------------------------------------------------
(***************************************************************************)
(* SQL from outside: enrolments and closures can be inserted, never        *)
(* changed; the pointer can be set to any enrolled key or deleted.         *)
(***************************************************************************)
RawWrite ==
  /\ rawWrites < MaxRawWrites
  /\ rawWrites' = rawWrites + 1
  /\ UNCHANGED reader

RawPointer(s, f) ==
  /\ RawWrite
  /\ f # None => Enrolled(f)
  /\ current' = [current EXCEPT ![s] = f]
  /\ UNCHANGED truth

\* No foreign key says what `old' is: not closed, of another subject, or unknown.
RawEnrolment(s, f, old, genuine) ==
  /\ RawWrite
  /\ old # f
  /\ Insertable(s, f, old)
  /\ enrolments' = [enrolments EXCEPT ![f] =
       [subject |-> s, supersedes |-> old, genuine |-> genuine]]
  /\ UNCHANGED <<closures, current>>

RawClosure(f, closure) ==
  /\ RawWrite
  /\ Enrolled(f) /\ ~Closed(f)
  /\ closure.successor # None => closure.successor # f /\ Enrolled(closure.successor)
  /\ closures' = [closures EXCEPT ![f] = closure]
  /\ UNCHANGED <<enrolments, current>>

Next ==
  \/ \E s \in Subjects : \E f \in Fingerprints :
       \/ EnrolRoot(s, f)
       \/ CommitRefusedEnrolment(s, f)
       \/ \E old \in Fingerprints : RotateRoot(s, old, f) \/ CommitRefusedRotation(s, old, f)
       \/ \E old \in Fingerprints \cup {None}, genuine \in BOOLEAN :
            RawEnrolment(s, f, old, genuine)
  \/ \E f \in Fingerprints :
       RevokeRoot(f) \/ \E closure \in ClosureRows : RawClosure(f, closure)
  \/ \E s \in Subjects :
       \/ RepairCurrentRoot(s)
       \/ BeginResolving(s)
       \/ \E f \in Fingerprints \cup {None} : RawPointer(s, f)
  \/ ReadClosure
  \/ ReadCount

Spec == Init /\ [][Next]_vars

-----------------------------------------------------------------------------
(***************************************************************************)
(* Properties.                                                             *)
(***************************************************************************)

\* Without writes from outside, and callers who roll back what was refused, the
\* pointer of a subject is what the truth says, in every state between commits:
\* nothing ever needs repair.
NothingDrifts == \A s \in Subjects : ~Drifted(s)

\* An unlocked reader that answers names a key of its subject that was open when
\* it began; while that key stays open, no other has been open all along.  Yet
\* rotations, revocations and writes from outside commit between its queries.
AnswersWereUndisputed ==
  reader.phase = "answered" =>
    /\ reader.fingerprint \in reader.stood
    /\ Cardinality(reader.stood \cap OpenOf(reader.subject)) > 1 => Closed(reader.fingerprint)

\* Whatever was written from outside, resolving gives the subject's one open,
\* genuine enrolment, and only if the pointer names it.
ResolutionIsTruth ==
  \A s \in Subjects :
    Resolve(s) = "root" <=>
      /\ Derived(s) # None /\ current[s] = Derived(s)
      /\ enrolments[current[s]].genuine

\* The two reads of the registry never disagree about whether trust is in
\* dispute: a key is valid exactly where its subject resolves to it, genuine
\* material apart.
ReadsAgree ==
  \A f \in Fingerprints :
    LET s == enrolments[f].subject
    IN Standing(f) = "valid" <=>
         /\ Enrolled(f)
         /\ current[s] = f
         /\ Resolve(s) = (IF enrolments[f].genuine THEN "root" ELSE "drift")
         /\ ~Closed(f)

\* However the pointers were corrupted, no rotation closes another subject's key:
\* what the module supersedes is the key its subject's pointer names, and the
\* pointer moves to the successor, which is that subject's and names the key.
SuccessionStaysWithin ==
  [][\A f \in Fingerprints :
       (~Closed(f) /\ closures'[f].kind = "superseded" /\ rawWrites' = rawWrites) =>
         LET s == enrolments[f].subject
             next == closures'[f].successor
         IN /\ enrolments'[next].subject = s /\ enrolments'[next].supersedes = f
            /\ current[s] = f /\ current'[s] = next]_vars

\* The registry implements the register of roots.
Register == INSTANCE TrustRegister
  WITH Keys <- Fingerprints,
       root <- [s \in Subjects |-> Derived(s)],
       spent <- {f \in Fingerprints : Enrolled(f)}
KeepsOneRoot == Register!RegisterSpec
=============================================================================
