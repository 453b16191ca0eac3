---------------------------- MODULE RegistryProofs ----------------------------
(***************************************************************************)
(* For every set of subjects and every finite set of keys: what the reads  *)
(* of the registry answer whatever was written from outside, and that with *)
(* its own writers alone the registry is a register of roots.  The signed  *)
(* enrolments of hosts are a use of it, and say the same as it does.       *)
(***************************************************************************)
EXTENDS HostAttesterEnrolment, FiniteSetTheorems, TLAPS

\* No caller commits what was refused, and nobody writes from outside.
Disciplined == CommitsRefused = FALSE /\ MaxRawWrites = 0

-----------------------------------------------------------------------------
\* More than one open enrolment.
LEMMA AmbiguousIsTwo ==
  ASSUME NEW s
  PROVE  Ambiguous(s) <=> \E f, g \in OpenOf(s) : f # g
<1>1. IsFiniteSet(OpenOf(s)) /\ Cardinality(OpenOf(s)) \in Nat
  <2>1. OpenOf(s) \subseteq Fingerprints
    BY DEF OpenOf
  <2> QED BY <2>1, RegistryInputs, FS_Subset, FS_CardinalityType
<1>2. Cardinality(OpenOf(s)) = 0 <=> OpenOf(s) = {}
  BY <1>1, FS_EmptySet
<1>3. Cardinality(OpenOf(s)) = 1 <=> \E f : OpenOf(s) = {f}
  BY <1>1, FS_Singleton
<1>4. Ambiguous(s) <=> ~(Cardinality(OpenOf(s)) = 0 \/ Cardinality(OpenOf(s)) = 1)
  BY <1>1 DEF Ambiguous
<1> QED BY <1>2, <1>3, <1>4

\* What the truth says is the one open enrolment.
LEMMA DerivedIsTheOpenOne ==
  ASSUME NEW s, NEW f \in Fingerprints
  PROVE  Derived(s) = f <=> OpenOf(s) = {f}
<1>1. ASSUME NEW g \in Fingerprints, OpenOf(s) = {g}
      PROVE  Derived(s) = g
  <2>1. \A h \in Fingerprints : OpenOf(s) = {h} <=> h = g
    BY <1>1
  <2> QED BY <1>1, <2>1 DEF Derived
<1>2. (\A g \in Fingerprints : OpenOf(s) # {g}) => Derived(s) = None
  BY DEF Derived
<1> QED BY <1>1, <1>2, RegistryInputs

LEMMA DerivedNone ==
  ASSUME NEW s, OpenOf(s) = {}
  PROVE  Derived(s) = None
BY DEF Derived

\* Resolving gives the one open genuine enrolment, when the pointer names it.
LEMMA ResolutionFollowsTruth == TypeOK => ResolutionIsTruth
<1> SUFFICES ASSUME TypeOK, NEW s \in Subjects
             PROVE  Resolve(s) = "root" <=>
                      /\ Derived(s) # None /\ current[s] = Derived(s)
                      /\ enrolments[current[s]].genuine
  BY DEF ResolutionIsTruth
<1> DEFINE f == current[s]
<1>1. CASE f = None
  BY <1>1 DEF Resolve
<1>2. CASE f # None
  <2>1. f \in Fingerprints
    BY <1>2 DEF TypeOK
  <2>2. Resolve(s) = "root" <=>
          f \in OpenOf(s) /\ ~Ambiguous(s) /\ enrolments[f].genuine
    BY <1>2, <2>1 DEF Resolve, OpenOf
  <2>3. f \in OpenOf(s) /\ ~Ambiguous(s) <=> OpenOf(s) = {f}
    BY AmbiguousIsTwo
  <2> QED BY <1>2, <2>1, <2>2, <2>3, DerivedIsTheOpenOne
<1> QED BY <1>1, <1>2

\* The two reads of the registry call the same trust disputed.
LEMMA ReadsFollowTruth == TypeOK => ReadsAgree
<1> SUFFICES ASSUME TypeOK, NEW f \in Fingerprints
             PROVE  Standing(f) = "valid" <=>
                      /\ Enrolled(f)
                      /\ current[enrolments[f].subject] = f
                      /\ Resolve(enrolments[f].subject) =
                           (IF enrolments[f].genuine THEN "root" ELSE "drift")
                      /\ ~Closed(f)
  BY DEF ReadsAgree
<1> DEFINE s == enrolments[f].subject
<1>1. CASE ~Enrolled(f)
  BY <1>1 DEF Standing
<1>2. CASE Enrolled(f) /\ Closed(f)
  BY <1>2 DEF Standing, ClosedAs
<1>3. CASE Enrolled(f) /\ ~Closed(f)
  <2>1. f # None
    BY RegistryInputs
  <2>2. Standing(f) = "valid" <=> ~Ambiguous(s) /\ current[s] = f
    BY <1>3, <2>1 DEF Standing
  <2>3. current[s] = f =>
          Resolve(s) = IF Ambiguous(s) THEN "disagreement"
                       ELSE IF enrolments[f].genuine THEN "root" ELSE "drift"
    BY <1>3, <2>1 DEF Resolve
  <2> QED BY <1>3, <2>2, <2>3
<1> QED BY <1>1, <1>2, <1>3

-----------------------------------------------------------------------------
\* What every step does to the truth: it adds an enrolment, or closes an open
\* one, or both.
Adds(f) == ~Enrolled(f) /\ enrolments'[f] \in EnrolmentRows
Closes(f) ==
  /\ Enrolled(f) /\ ~Closed(f)
  /\ closures'[f] \in ClosureRows
  /\ closures'[f].successor # None =>
       /\ closures'[f].successor \in Fingerprints
       /\ enrolments'[closures'[f].successor] # NoEnrolment

Grows ==
  /\ enrolments' \in [Fingerprints -> EnrolmentRows \cup {NoEnrolment}]
  /\ closures' \in [Fingerprints -> ClosureRows \cup {NoClosure}]
  /\ \A f \in Fingerprints :
       /\ enrolments'[f] = enrolments[f] \/ Adds(f)
       /\ closures'[f] = closures[f] \/ Closes(f)

LEMMA RowsAreNotNull ==
  /\ NoEnrolment \notin EnrolmentRows
  /\ NoClosure \notin ClosureRows
BY RegistryInputs DEF EnrolmentRows, NoEnrolment, ClosureRows, NoClosure

LEMMA NothingWritten ==
  ASSUME TypeOK, UNCHANGED truth
  PROVE  Grows
BY DEF Grows, TypeOK, truth

\* A new enrolment, committed without its pointer or with it.
LEMMA Enrolling ==
  ASSUME TypeOK, NEW s \in Subjects, NEW f \in Fingerprints, ~Enrolled(f),
         NEW old \in Fingerprints \cup {None}, NEW genuine \in BOOLEAN,
         enrolments' = [enrolments EXCEPT ![f] =
           [subject |-> s, supersedes |-> old, genuine |-> genuine]],
         UNCHANGED closures
  PROVE  Grows
<1>1. [subject |-> s, supersedes |-> old, genuine |-> genuine] \in EnrolmentRows
  BY DEF EnrolmentRows
<1> QED BY <1>1 DEF Grows, TypeOK, Adds

\* A closure without a successor, or with one that is enrolled.
LEMMA Closing ==
  ASSUME TypeOK, NEW f \in Fingerprints, Enrolled(f), ~Closed(f),
         NEW closure \in ClosureRows,
         closure.successor # None => Enrolled(closure.successor),
         closures' = [closures EXCEPT ![f] = closure],
         UNCHANGED enrolments
  PROVE  Grows
<1>1. closure.successor # None => closure.successor \in Fingerprints
  BY DEF ClosureRows
<1> QED BY <1>1 DEF Grows, TypeOK, Closes, Enrolled

LEMMA RevokedRow == [kind |-> "revoked", successor |-> None] \in ClosureRows
BY DEF ClosureRows

LEMMA Rotating ==
  ASSUME TypeOK, NEW s \in Subjects, NEW old \in Fingerprints,
         NEW f \in Fingerprints, RotateRoot(s, old, f)
  PROVE  Grows
<1>1. Enrolled(old) /\ ~Enrolled(f) /\ ~Closed(old) /\ f # old
        /\ enrolments[old].subject = s
  BY DEF RotateRoot, Rotates, Insertable, TypeOK
<1> DEFINE row == [subject |-> s, supersedes |-> old, genuine |-> TRUE]
           closure == [kind |-> "superseded", successor |-> f]
<1>2. row \in EnrolmentRows /\ closure \in ClosureRows
  BY DEF EnrolmentRows, ClosureRows
<1>3. enrolments' = [enrolments EXCEPT ![f] = row]
        /\ closures' = [closures EXCEPT ![old] = closure]
  BY DEF RotateRoot, WithEnrolment
<1>4. enrolments'[f] = row /\ closures'[old] = closure
  BY <1>3 DEF TypeOK
<1>5. Adds(f)
  BY <1>1, <1>2, <1>4 DEF Adds
<1>6. Closes(old)
  BY <1>1, <1>2, <1>4, RowsAreNotNull DEF Closes
<1>7. \A g \in Fingerprints :
        /\ g # f => enrolments'[g] = enrolments[g]
        /\ g # old => closures'[g] = closures[g]
  BY <1>3 DEF TypeOK
<1> HIDE DEF row, closure
<1>8. enrolments' \in [Fingerprints -> EnrolmentRows \cup {NoEnrolment}]
        /\ closures' \in [Fingerprints -> ClosureRows \cup {NoClosure}]
  BY <1>2, <1>3 DEF TypeOK
<1> QED BY <1>5, <1>6, <1>7, <1>8 DEF Grows

LEMMA EveryStepGrows == TypeOK /\ [Next]_vars => Grows
<1> SUFFICES ASSUME TypeOK, [Next]_vars PROVE Grows
  OBVIOUS
<1>1. ASSUME NEW s \in Subjects, NEW f \in Fingerprints,
             EnrolRoot(s, f) \/ CommitRefusedEnrolment(s, f)
      PROVE  Grows
  BY <1>1, Enrolling DEF EnrolRoot, CommitRefusedEnrolment, Insertable, WithEnrolment
<1>2. ASSUME NEW s \in Subjects, NEW old \in Fingerprints, NEW f \in Fingerprints,
             CommitRefusedRotation(s, old, f)
      PROVE  Grows
  BY <1>2, Enrolling DEF CommitRefusedRotation, Rotates, Insertable, WithEnrolment
<1>3. ASSUME NEW s \in Subjects, NEW f \in Fingerprints, NEW genuine \in BOOLEAN,
             NEW old \in Fingerprints \cup {None}, RawEnrolment(s, f, old, genuine)
      PROVE  Grows
  BY <1>3, Enrolling DEF RawEnrolment, Insertable
<1>4. ASSUME NEW f \in Fingerprints, NEW closure \in ClosureRows,
             RevokeRoot(f) \/ RawClosure(f, closure)
      PROVE  Grows
  <2>1. RevokeRoot(f) => Grows
    BY Closing, RevokedRow DEF RevokeRoot
  <2>2. RawClosure(f, closure) => Grows
    BY Closing DEF RawClosure
  <2> QED BY <1>4, <2>1, <2>2
<1>5. CASE UNCHANGED truth
  BY <1>5, NothingWritten
<1>6. ASSUME NEW s \in Subjects,
             \/ RepairCurrentRoot(s) \/ BeginResolving(s)
             \/ \E f \in Fingerprints \cup {None} : RawPointer(s, f)
             \/ ReadClosure \/ ReadCount
      PROVE  UNCHANGED truth
  BY <1>6 DEF RepairCurrentRoot, BeginResolving, RawPointer, ReadClosure, ReadCount, truth
<1>7. ReadClosure \/ ReadCount \/ UNCHANGED vars => UNCHANGED truth
  BY DEF ReadClosure, ReadCount, vars, truth
<1> QED BY <1>1, <1>2, <1>3, <1>4, <1>5, <1>6, <1>7, Rotating, RevokedRow DEF Next

\* What was enrolled or closed stays as it was.
LEMMA TruthStays ==
  ASSUME TypeOK, Grows, NEW f \in Fingerprints
  PROVE  /\ Enrolled(f) => enrolments'[f] = enrolments[f] /\ Enrolled(f)'
         /\ Closed(f) => closures'[f] = closures[f] /\ Closed(f)'
BY DEF Grows, Adds, Closes, Enrolled, Closed

-----------------------------------------------------------------------------
\* A key that a reader started from is its subject's, and those that stood then
\* were enrolled; past the closures' query it was among them, and past the count
\* no two of them are open.
ReaderInv ==
  reader # Idle =>
    /\ reader.stood \subseteq {f \in Fingerprints :
         Enrolled(f) /\ enrolments[f].subject = reader.subject}
    /\ Enrolled(reader.fingerprint)
    /\ reader.phase = "closure" =>
         reader.fingerprint \in reader.stood \/ Closed(reader.fingerprint)
    /\ reader.phase # "closure" => reader.fingerprint \in reader.stood
    /\ reader.phase = "answered" =>
         \A f, g \in reader.stood : ~Closed(f) /\ ~Closed(g) => f = g

Inv == TypeOK /\ ReaderInv

LEMMA Initially == Init => Inv
<1> SUFFICES ASSUME Init PROVE Inv
  OBVIOUS
<1>1. TypeOK
  BY RegistryInputs DEF Init, TypeOK, Closed, Enrolled
<1> QED BY <1>1 DEF Init, Inv, ReaderInv

LEMMA ReaderTypes ==
  ASSUME TypeOK
  PROVE  reader' \in Readers \cup {Idle} \/ ~[Next]_vars
<1> SUFFICES ASSUME [Next]_vars PROVE reader' \in Readers \cup {Idle}
  OBVIOUS
<1>1. ASSUME NEW s \in Subjects, BeginResolving(s)
      PROVE  reader' \in Readers
  <2>1. current[s] \in Fingerprints /\ OpenOf(s) \subseteq Fingerprints
    BY <1>1 DEF BeginResolving, TypeOK, OpenOf
  <2> QED BY <1>1, <2>1 DEF BeginResolving, Readers
<1>2. ASSUME ReadClosure \/ ReadCount
      PROVE  reader' \in Readers \cup {Idle}
  <2>1. reader.phase # "idle" => reader \in Readers
    BY DEF TypeOK, Idle
  <2>2. reader \in Readers
    BY <1>2, <2>1 DEF ReadClosure, ReadCount
  <2> QED BY <1>2, <2>2 DEF ReadClosure, ReadCount, Readers
<1>3. \/ reader' = reader \/ \E s \in Subjects : BeginResolving(s)
      \/ ReadClosure \/ ReadCount
  BY DEF Next, EnrolRoot, CommitRefusedEnrolment, RotateRoot, CommitRefusedRotation,
         RawEnrolment, RawWrite, RevokeRoot, RawClosure, RepairCurrentRoot,
         RawPointer, vars
<1> QED BY <1>1, <1>2, <1>3 DEF TypeOK

\* The pointer names an enrolled key of the state after the step, or none.
LEMMA PointerTypes ==
  ASSUME TypeOK, [Next]_vars
  PROVE  /\ current' \in [Subjects -> Fingerprints \cup {None}]
         /\ \A s \in Subjects : current'[s] # None => enrolments'[current'[s]] # NoEnrolment
<1>1. \A f \in Fingerprints : Enrolled(f) => Enrolled(f)'
  BY EveryStepGrows, TruthStays
<1>2. ASSUME current' = current
      PROVE  /\ current' \in [Subjects -> Fingerprints \cup {None}]
             /\ \A s \in Subjects : current'[s] # None => enrolments'[current'[s]] # NoEnrolment
  BY <1>1, <1>2 DEF TypeOK, Enrolled
<1>3. ASSUME NEW s \in Subjects, NEW f \in Fingerprints \cup {None},
             current' = [current EXCEPT ![s] = f], f # None => Enrolled(f)'
      PROVE  /\ current' \in [Subjects -> Fingerprints \cup {None}]
             /\ \A u \in Subjects : current'[u] # None => enrolments'[current'[u]] # NoEnrolment
  <2>1. \A u \in Subjects : current'[u] = IF u = s THEN f ELSE current[u]
    BY <1>3 DEF TypeOK
  <2> QED BY <1>1, <1>3, <2>1 DEF TypeOK, Enrolled
<1>4. ASSUME NEW s \in Subjects, NEW f \in Fingerprints, NEW old \in Fingerprints,
             EnrolRoot(s, f) \/ RotateRoot(s, old, f)
      PROVE  /\ f \in Fingerprints \cup {None}
             /\ current' = [current EXCEPT ![s] = f] /\ Enrolled(f)'
  <2>1. enrolments'[f] \in EnrolmentRows
    <3>1. PICK o \in {None, old} : enrolments' = WithEnrolment(s, f, o)
      BY <1>4 DEF EnrolRoot, RotateRoot
    <3>2. [subject |-> s, supersedes |-> o, genuine |-> TRUE] \in EnrolmentRows
      BY DEF EnrolmentRows
    <3> QED BY <3>1, <3>2 DEF WithEnrolment, TypeOK
  <2> QED BY <1>4, <2>1, RowsAreNotNull DEF EnrolRoot, RotateRoot, Enrolled
<1>5. ASSUME NEW s \in Subjects, NEW f \in Fingerprints \cup {None}, RawPointer(s, f)
      PROVE  current' = [current EXCEPT ![s] = f] /\ (f # None => Enrolled(f)')
  BY <1>1, <1>5 DEF RawPointer, RawWrite
<1>6. ASSUME NEW s \in Subjects, RepairCurrentRoot(s)
      PROVE  /\ current' = [current EXCEPT ![s] = Derived(s)]
             /\ Derived(s) \in Fingerprints \cup {None}
             /\ Derived(s) # None => enrolments'[Derived(s)] # NoEnrolment
  <2>1. Derived(s) # None => \E f \in Fingerprints : Derived(s) = f /\ OpenOf(s) = {f}
    BY DerivedIsTheOpenOne DEF Derived
  <2>2. \A f \in OpenOf(s) : f \in Fingerprints /\ Enrolled(f)
    BY RegistryInputs DEF OpenOf, Enrolled, NoEnrolment
  <2> QED BY <1>1, <1>6, <2>1, <2>2 DEF RepairCurrentRoot, Enrolled
<1>7. ASSUME NEW f \in Fingerprints, RevokeRoot(f)
      PROVE  /\ current' \in [Subjects -> Fingerprints \cup {None}]
             /\ \A u \in Subjects : current'[u] # None => enrolments'[current'[u]] # NoEnrolment
  <2>1. \A u \in Subjects : current'[u] \in {current[u], None}
    BY <1>7 DEF RevokeRoot
  <2>2. current' \in [Subjects -> Fingerprints \cup {None}]
    BY <1>7 DEF RevokeRoot, TypeOK
  <2> QED BY <1>1, <2>1, <2>2 DEF TypeOK, Enrolled
<1>8. \/ current' = current
      \/ \E s \in Subjects : \E f \in Fingerprints : \E old \in Fingerprints :
           EnrolRoot(s, f) \/ RotateRoot(s, old, f)
      \/ \E s \in Subjects : \E f \in Fingerprints \cup {None} : RawPointer(s, f)
      \/ \E s \in Subjects : RepairCurrentRoot(s)
      \/ \E f \in Fingerprints : RevokeRoot(f)
  BY DEF Next, CommitRefusedEnrolment, CommitRefusedRotation, RawEnrolment, RawWrite,
         RawClosure, BeginResolving, ReadClosure, ReadCount, vars
<1> QED BY <1>2, <1>3, <1>4, <1>5, <1>6, <1>7, <1>8 DEF Enrolled

LEMMA TypesKept == TypeOK /\ [Next]_vars => TypeOK'
<1> SUFFICES ASSUME TypeOK, [Next]_vars PROVE TypeOK'
  OBVIOUS
<1>1. Grows
  BY EveryStepGrows
<1>2. rawWrites' \in 0..MaxRawWrites
  BY RegistryInputs DEF Next, EnrolRoot, CommitRefusedEnrolment, RotateRoot,
     CommitRefusedRotation, RawEnrolment, RawWrite, RevokeRoot, RawClosure,
     RepairCurrentRoot, RawPointer, BeginResolving, ReadClosure, ReadCount, vars, TypeOK
<1>3. \A f \in Fingerprints : Closed(f)' =>
        /\ Enrolled(f)'
        /\ closures'[f].successor # None => enrolments'[closures'[f].successor] # NoEnrolment
  <2> SUFFICES ASSUME NEW f \in Fingerprints, Closed(f)'
               PROVE  /\ Enrolled(f)'
                      /\ closures'[f].successor # None =>
                           enrolments'[closures'[f].successor] # NoEnrolment
    OBVIOUS
  <2>1. CASE Closes(f)
    BY <1>1, <2>1, TruthStays DEF Closes, Enrolled
  <2>2. CASE closures'[f] = closures[f]
    <3>1. closures[f] \in ClosureRows
      BY <2>2 DEF Closed, TypeOK
    <3>2. closures[f].successor # None => closures[f].successor \in Fingerprints
      BY <3>1 DEF ClosureRows
    <3> QED BY <1>1, <2>2, <3>2, TruthStays DEF Closed, Enrolled, TypeOK
  <2> QED BY <1>1, <2>1, <2>2 DEF Grows
<1>4. reader' \in Readers \cup {Idle}
  BY ReaderTypes
<1>5. enrolments' \in [Fingerprints -> EnrolmentRows \cup {NoEnrolment}]
        /\ closures' \in [Fingerprints -> ClosureRows \cup {NoClosure}]
  BY <1>1 DEF Grows
<1> QED BY <1>2, <1>3, <1>4, <1>5, PointerTypes DEF TypeOK, Enrolled

\* Among the module's own steps only a rotation supersedes: the key its subject's
\* pointer names, by the new key of that subject.
LEMMA SuccessionStep ==
  ASSUME TypeOK, Next, rawWrites' = rawWrites,
         NEW f \in Fingerprints, ~Closed(f), closures'[f].kind = "superseded"
  PROVE  LET s == enrolments[f].subject
             next == closures'[f].successor
         IN /\ enrolments'[next].subject = s /\ enrolments'[next].supersedes = f
            /\ current[s] = f /\ current'[s] = next
<1>1. closures' # closures
  BY DEF Closed, NoClosure
<1>2. ~RawWrite
  BY DEF RawWrite, TypeOK
<1>3. \A g \in Fingerprints : RevokeRoot(g) => closures'[f].kind # "superseded"
  BY DEF RevokeRoot, TypeOK, Closed, NoClosure
<1>4. PICK s \in Subjects, old \in Fingerprints, k \in Fingerprints : RotateRoot(s, old, k)
  BY <1>1, <1>2, <1>3 DEF Next, EnrolRoot, CommitRefusedEnrolment, CommitRefusedRotation,
     RawEnrolment, RawClosure, RawPointer, RepairCurrentRoot, BeginResolving,
     ReadClosure, ReadCount, truth
<1>5. /\ enrolments[old].subject = s /\ current[s] = old
      /\ enrolments' = WithEnrolment(s, k, old)
      /\ closures' = [closures EXCEPT ![old] = [kind |-> "superseded", successor |-> k]]
      /\ current' = [current EXCEPT ![s] = k]
  BY <1>4 DEF RotateRoot, Rotates
<1>6. f = old
  BY <1>5 DEF TypeOK, Closed, NoClosure
<1>7. closures'[f].successor = k
  BY <1>5, <1>6 DEF TypeOK
<1>8. enrolments'[k].subject = s /\ enrolments'[k].supersedes = old
  BY <1>5 DEF WithEnrolment, TypeOK
<1>9. current'[s] = k
  BY <1>5 DEF TypeOK
<1> QED BY <1>5, <1>6, <1>7, <1>8, <1>9

\* Commits between a reader's queries change no key it has seen standing.
LEMMA ReaderKept ==
  ASSUME TypeOK, ReaderInv, [Next]_vars
  PROVE  ReaderInv'
<1>1. \A f \in Fingerprints :
        /\ Enrolled(f) => enrolments'[f] = enrolments[f] /\ Enrolled(f)'
        /\ Closed(f) => Closed(f)'
  BY EveryStepGrows, TruthStays
<1>2. reader # Idle =>
        /\ reader.stood \subseteq Fingerprints /\ reader.fingerprint \in Fingerprints
        /\ reader.phase \in {"closure", "count", "answered"}
        /\ reader.subject \in Subjects
  BY DEF TypeOK, Readers
<1>3. ASSUME reader' = reader
      PROVE  ReaderInv'
  BY <1>1, <1>2, <1>3 DEF ReaderInv
<1>4. ASSUME NEW s \in Subjects, BeginResolving(s)
      PROVE  ReaderInv'
  <2>1. UNCHANGED <<enrolments, closures>>
    BY <1>4 DEF BeginResolving, truth
  <2>2. reader' = [phase |-> "closure", subject |-> s, fingerprint |-> current[s],
                   stood |-> OpenOf(s)]
    BY <1>4 DEF BeginResolving
  <2>3. current[s] \in Fingerprints /\ Enrolled(current[s])
          /\ enrolments[current[s]].subject = s
    BY <1>4 DEF BeginResolving, TypeOK
  <2>4. \A f \in OpenOf(s) :
          f \in Fingerprints /\ Enrolled(f) /\ enrolments[f].subject = s
    BY RegistryInputs DEF OpenOf, Enrolled, NoEnrolment
  <2>5. current[s] \in OpenOf(s) \/ Closed(current[s])
    BY <2>3 DEF OpenOf
  <2> QED BY <2>1, <2>2, <2>3, <2>4, <2>5 DEF ReaderInv, Enrolled, Closed
<1>5. CASE ReadClosure
  <2>1. UNCHANGED <<enrolments, closures>> /\ reader # Idle
    BY <1>5 DEF ReadClosure, truth, Idle
  <2>2. CASE Closed(reader.fingerprint)
    BY <1>5, <2>2 DEF ReadClosure, ReaderInv
  <2>3. CASE ~Closed(reader.fingerprint)
    <3>1. reader' = [reader EXCEPT !.phase = "count"]
      BY <1>5, <2>3 DEF ReadClosure
    <3>2. reader'.phase = "count" /\ reader'.stood = reader.stood
            /\ reader'.fingerprint = reader.fingerprint
            /\ reader'.subject = reader.subject
      BY <2>1, <3>1 DEF TypeOK, Readers
    <3>3. reader.fingerprint \in reader.stood
      BY <1>5, <2>1, <2>3 DEF ReaderInv, ReadClosure
    <3> QED BY <2>1, <3>2, <3>3 DEF ReaderInv, Enrolled
  <2> QED BY <2>2, <2>3
<1>6. CASE ReadCount
  <2>1. UNCHANGED <<enrolments, closures>> /\ reader # Idle
    BY <1>6 DEF ReadCount, truth, Idle
  <2>2. CASE reader' = Idle
    BY <2>2 DEF ReaderInv
  <2>3. CASE reader' # Idle
    <3>1. ~Ambiguous(reader.subject) /\ reader' = [reader EXCEPT !.phase = "answered"]
      BY <1>6, <2>3 DEF ReadCount
    <3>2. reader'.phase = "answered" /\ reader'.stood = reader.stood
            /\ reader'.fingerprint = reader.fingerprint
            /\ reader'.subject = reader.subject
      BY <2>1, <3>1 DEF TypeOK, Readers
    <3>3. reader.fingerprint \in reader.stood
      BY <1>6, <2>1 DEF ReaderInv, ReadCount
    <3>4. \A f, g \in OpenOf(reader.subject) : f = g
      BY <3>1, AmbiguousIsTwo
    <3>5. \A f \in reader.stood : ~Closed(f) => f \in OpenOf(reader.subject)
      BY <1>2, <2>1 DEF ReaderInv, OpenOf
    <3> QED BY <2>1, <3>2, <3>3, <3>4, <3>5 DEF ReaderInv, Enrolled, Closed
  <2> QED BY <2>2, <2>3
<1>7. \/ reader' = reader \/ \E s \in Subjects : BeginResolving(s)
      \/ ReadClosure \/ ReadCount
  BY DEF Next, EnrolRoot, CommitRefusedEnrolment, RotateRoot, CommitRefusedRotation,
         RawEnrolment, RawWrite, RevokeRoot, RawClosure, RepairCurrentRoot,
         RawPointer, vars
<1> QED BY <1>3, <1>4, <1>5, <1>6, <1>7

LEMMA InvStep == Inv /\ [Next]_vars => Inv'
BY TypesKept, ReaderKept DEF Inv

\* The invariant of the registry, whoever writes to it.
THEOREM RegistryInvariant == Spec => []Inv
BY Initially, InvStep, PTL DEF Spec

\* The rows have their types and every foreign key holds.
THEOREM TypesHold == Spec => []TypeOK
<1>1. Inv => TypeOK
  BY DEF Inv
<1>2. QED
  BY <1>1, RegistryInvariant, PTL

\* No rotation crosses subjects, however the pointers were corrupted
\* (rotate_root).
THEOREM SuccessionHolds == Spec => SuccessionStaysWithin
<1>1. ASSUME Inv, [Next]_vars
      PROVE  [\A f \in Fingerprints :
                (~Closed(f) /\ closures'[f].kind = "superseded" /\ rawWrites' = rawWrites) =>
                  LET s == enrolments[f].subject
                      next == closures'[f].successor
                  IN /\ enrolments'[next].subject = s /\ enrolments'[next].supersedes = f
                     /\ current[s] = f /\ current'[s] = next]_vars
  <2>1. CASE Next
    BY <1>1, <2>1, SuccessionStep DEF Inv
  <2>2. CASE UNCHANGED vars
    BY <2>2
  <2> QED BY <1>1, <2>1, <2>2
<1>2. QED
  BY <1>1, RegistryInvariant, PTL DEF Spec, SuccessionStaysWithin

\* Resolving gives the one open genuine enrolment, whatever was written from
\* outside (resolve_current_root).
THEOREM ResolutionHolds == Spec => []ResolutionIsTruth
<1>1. Inv => ResolutionIsTruth
  BY ResolutionFollowsTruth DEF Inv
<1>2. QED
  BY <1>1, RegistryInvariant, PTL

\* The two reads of the registry agree (fingerprint_standing,
\* resolve_current_root).
THEOREM ReadsHold == Spec => []ReadsAgree
<1>1. Inv => ReadsAgree
  BY ReadsFollowTruth DEF Inv
<1>2. QED
  BY <1>1, RegistryInvariant, PTL

\* An unlocked reader names a key that stood when it began, and no other key
\* stood all along beside it.
THEOREM AnswersHold == Spec => []AnswersWereUndisputed
<1>1. ASSUME Inv
      PROVE  AnswersWereUndisputed
  <2> SUFFICES ASSUME reader.phase = "answered"
               PROVE  /\ reader.fingerprint \in reader.stood
                      /\ Cardinality(reader.stood \cap OpenOf(reader.subject)) > 1 =>
                           Closed(reader.fingerprint)
    BY DEF AnswersWereUndisputed
  <2> DEFINE still == reader.stood \cap OpenOf(reader.subject)
  <2>1. reader # Idle
    BY DEF Idle
  <2>2. \A f, g \in still : f = g
    BY <1>1, <2>1 DEF Inv, ReaderInv, OpenOf
  <2>3. IsFiniteSet(still) /\ Cardinality(still) \in Nat
    <3>1. still \subseteq Fingerprints
      BY DEF OpenOf
    <3> HIDE DEF still
    <3> QED BY <3>1, RegistryInputs, FS_Subset, FS_CardinalityType
  <2>4. still = {} \/ \E f : still = {f}
    BY <2>2
  <2>5. Cardinality(still) = 0 \/ Cardinality(still) = 1
    <3> HIDE DEF still
    <3> QED BY <2>3, <2>4, FS_EmptySet, FS_Singleton
  <2>6. ~(Cardinality(still) > 1)
    BY <2>3, <2>5
  <2> QED BY <1>1, <2>1, <2>6 DEF Inv, ReaderInv
<1>2. QED
  BY <1>1, RegistryInvariant, PTL

-----------------------------------------------------------------------------
(***************************************************************************)
(* The registry with its own writers alone.                                *)
(***************************************************************************)
\* The one open enrolment of a subject is the one its pointer names.
PointerInv ==
  \A s \in Subjects : OpenOf(s) = IF current[s] = None THEN {} ELSE {current[s]}

roots == [s \in Subjects |-> Derived(s)]
ever == {f \in Fingerprints : Enrolled(f)}

LEMMA RootIsPointer == TypeOK /\ PointerInv => roots = current
<1> SUFFICES ASSUME TypeOK, PointerInv PROVE roots = current
  OBVIOUS
<1>1. ASSUME NEW s \in Subjects
      PROVE  Derived(s) = current[s]
  <2>1. CASE current[s] = None
    BY <2>1, DerivedNone DEF PointerInv
  <2>2. CASE current[s] # None
    <3>1. current[s] \in Fingerprints /\ OpenOf(s) = {current[s]}
      BY <2>2 DEF PointerInv, TypeOK
    <3> QED BY <3>1, DerivedIsTheOpenOne
  <2> QED BY <2>1, <2>2
<1> QED BY <1>1 DEF roots, TypeOK

LEMMA RootIsPointerNext == (TypeOK /\ PointerInv => roots = current)'
BY RootIsPointer, PTL

\* What each writer does to the open enrolments and to the roots.
Keeps == PointerInv' /\ current' = current /\ ever' = ever
Installs(s, f) ==
  /\ PointerInv'
  /\ current[s] = None /\ current' = [current EXCEPT ![s] = f]
  /\ f \notin ever /\ ever' = ever \cup {f}
Replaces(s, f) ==
  /\ PointerInv'
  /\ current[s] # None /\ current' = [current EXCEPT ![s] = f]
  /\ f \notin ever /\ ever' = ever \cup {f}
Withdraws(s) ==
  /\ PointerInv'
  /\ current[s] # None /\ current' = [current EXCEPT ![s] = None]
  /\ ever' = ever

LEMMA EnrolInstalls ==
  ASSUME TypeOK, PointerInv, NEW s \in Subjects, NEW f \in Fingerprints, EnrolRoot(s, f)
  PROVE  Installs(s, f)
<1> DEFINE row == [subject |-> s, supersedes |-> None, genuine |-> TRUE]
<1>1. ~Enrolled(f) /\ ~Closed(f) /\ current[s] = None
  BY DEF EnrolRoot, Insertable, TypeOK
<1>2. row # NoEnrolment /\ row.subject = s
  BY RegistryInputs DEF NoEnrolment
<1>3. \A g \in Fingerprints : enrolments'[g] = IF g = f THEN row ELSE enrolments[g]
  BY DEF EnrolRoot, WithEnrolment, TypeOK
<1>4. closures' = closures /\ current' = [current EXCEPT ![s] = f]
  BY DEF EnrolRoot
<1>5. \A u \in Subjects : current'[u] = IF u = s THEN f ELSE current[u]
  BY <1>4 DEF TypeOK
<1>6. enrolments[f].subject \notin Subjects
  BY <1>1, RegistryInputs DEF Enrolled, NoEnrolment
<1> HIDE DEF row
<1>7. ever' = ever \cup {f} /\ f \notin ever
  BY <1>1, <1>2, <1>3 DEF ever, Enrolled
<1>8. ASSUME NEW u \in Subjects
      PROVE  OpenOf(u)' = IF current'[u] = None THEN {} ELSE {current'[u]}
  <2>1. CASE u = s
    <3>1. OpenOf(s) = {}
      BY <1>1 DEF PointerInv
    <3>2. OpenOf(s)' = {f}
      BY <1>1, <1>2, <1>3, <1>4, <3>1 DEF OpenOf, Closed
    <3> QED BY <1>5, <2>1, <3>2, RegistryInputs
  <2>2. CASE u # s
    <3>1. OpenOf(u)' = OpenOf(u)
      BY <1>2, <1>3, <1>4, <1>6, <2>2 DEF OpenOf, Closed
    <3> QED BY <1>5, <2>2, <3>1 DEF PointerInv
  <2> QED BY <2>1, <2>2
<1> QED BY <1>1, <1>4, <1>7, <1>8 DEF Installs, PointerInv

LEMMA RotationReplaces ==
  ASSUME TypeOK, PointerInv, NEW s \in Subjects, NEW old \in Fingerprints,
         NEW f \in Fingerprints, RotateRoot(s, old, f)
  PROVE  Replaces(s, f)
<1> DEFINE row == [subject |-> s, supersedes |-> old, genuine |-> TRUE]
           closure == [kind |-> "superseded", successor |-> f]
<1>1. ~Enrolled(f) /\ ~Closed(f) /\ f # old /\ Enrolled(old)
        /\ current[s] = old /\ current[s] # None
        /\ enrolments[old].subject = s
  BY DEF RotateRoot, Rotates, Insertable, TypeOK
<1>2. row # NoEnrolment /\ row.subject = s /\ closure # NoClosure
  BY RegistryInputs DEF NoEnrolment, NoClosure
<1>3. \A g \in Fingerprints :
        /\ enrolments'[g] = IF g = f THEN row ELSE enrolments[g]
        /\ closures'[g] = IF g = old THEN closure ELSE closures[g]
  BY DEF RotateRoot, WithEnrolment, TypeOK
<1>4. current' = [current EXCEPT ![s] = f]
  BY DEF RotateRoot
<1>5. \A u \in Subjects : current'[u] = IF u = s THEN f ELSE current[u]
  BY <1>4 DEF TypeOK
<1>6. enrolments[f].subject \notin Subjects
  BY <1>1, RegistryInputs DEF Enrolled, NoEnrolment
<1> HIDE DEF row, closure
<1>7. ever' = ever \cup {f} /\ f \notin ever
  BY <1>1, <1>2, <1>3 DEF ever, Enrolled
<1>8. ASSUME NEW u \in Subjects
      PROVE  OpenOf(u)' = IF current'[u] = None THEN {} ELSE {current'[u]}
  <2>1. CASE u = s
    <3>1. OpenOf(s) = {old}
      BY <1>1 DEF PointerInv
    <3>2. OpenOf(s)' = {f}
      BY <1>1, <1>2, <1>3, <3>1 DEF OpenOf, Closed
    <3> QED BY <1>5, <2>1, <3>2, RegistryInputs
  <2>2. CASE u # s
    <3>1. OpenOf(u)' = OpenOf(u)
      BY <1>1, <1>2, <1>3, <1>6, <2>2 DEF OpenOf, Closed
    <3> QED BY <1>5, <2>2, <3>1 DEF PointerInv
  <2> QED BY <2>1, <2>2
<1> QED BY <1>1, <1>4, <1>7, <1>8 DEF Replaces, PointerInv

LEMMA RevocationWithdraws ==
  ASSUME TypeOK, PointerInv, NEW f \in Fingerprints, RevokeRoot(f)
  PROVE  \E s \in Subjects : Withdraws(s)
<1> DEFINE s == enrolments[f].subject
           closure == [kind |-> "revoked", successor |-> None]
<1>1. Enrolled(f) /\ ~Closed(f)
  BY DEF RevokeRoot
<1>2. s \in Subjects /\ f \in OpenOf(s)
  BY <1>1 DEF TypeOK, Enrolled, EnrolmentRows, OpenOf
<1>3. current[s] = f /\ current[s] # None
  BY <1>2 DEF PointerInv
<1>4. closure # NoClosure
  BY DEF NoClosure
<1>5. enrolments' = enrolments
        /\ \A g \in Fingerprints : closures'[g] = IF g = f THEN closure ELSE closures[g]
  BY DEF RevokeRoot, TypeOK
<1> HIDE DEF closure
<1>6. current' = [current EXCEPT ![s] = None]
  BY <1>2, <1>3 DEF RevokeRoot, TypeOK
<1>7. \A u \in Subjects : current'[u] = IF u = s THEN None ELSE current[u]
  BY <1>6 DEF TypeOK
<1>8. ever' = ever
  BY <1>5 DEF ever, Enrolled
<1>9. ASSUME NEW u \in Subjects
      PROVE  OpenOf(u)' = IF current'[u] = None THEN {} ELSE {current'[u]}
  <2>1. CASE u = s
    <3>1. OpenOf(s) = {f}
      BY <1>2, <1>3 DEF PointerInv
    <3>2. OpenOf(u)' = {}
      BY <1>4, <1>5, <2>1, <3>1 DEF OpenOf, Closed
    <3> QED BY <1>7, <2>1, <3>2
  <2>2. CASE u # s
    <3>1. OpenOf(u)' = OpenOf(u)
      BY <1>5, <2>2 DEF OpenOf, Closed
    <3> QED BY <1>7, <2>2, <3>1 DEF PointerInv
  <2> QED BY <2>1, <2>2
<1>10. PointerInv'
  BY <1>9 DEF PointerInv
<1> QED BY <1>2, <1>3, <1>6, <1>8, <1>10 DEF Withdraws

LEMMA OwnWritersStep ==
  ASSUME Disciplined, TypeOK, PointerInv, [Next]_vars
  PROVE  \/ Keeps
         \/ \E s \in Subjects :
              \/ \E f \in Fingerprints : Installs(s, f) \/ Replaces(s, f)
              \/ Withdraws(s)
<1>1. ASSUME UNCHANGED truth, current' = current
      PROVE  Keeps
  BY <1>1 DEF Keeps, PointerInv, OpenOf, Closed, Enrolled, ever, truth
<1>2. ASSUME NEW s \in Subjects, RepairCurrentRoot(s)
      PROVE  Keeps
  <2>1. roots = current
    BY RootIsPointer
  <2>2. Derived(s) = current[s]
    BY <2>1 DEF roots
  <2>3. current' = current
    BY <1>2, <2>2 DEF RepairCurrentRoot, TypeOK
  <2> QED BY <1>1, <1>2, <2>3 DEF RepairCurrentRoot
<1>3. ~RawWrite /\ ~CommitsRefused
  BY DEF Disciplined, RawWrite, TypeOK
<1>4. \A s \in Subjects : BeginResolving(s) => UNCHANGED truth /\ current' = current
  BY DEF BeginResolving
<1>5. ReadClosure \/ ReadCount \/ UNCHANGED vars => UNCHANGED truth /\ current' = current
  BY DEF ReadClosure, ReadCount, vars
<1>6. \/ \E s \in Subjects : \E f \in Fingerprints :
           EnrolRoot(s, f) \/ \E old \in Fingerprints : RotateRoot(s, old, f)
      \/ \E f \in Fingerprints : RevokeRoot(f)
      \/ \E s \in Subjects : RepairCurrentRoot(s) \/ BeginResolving(s)
      \/ ReadClosure \/ ReadCount \/ UNCHANGED vars
  BY <1>3 DEF Next, CommitRefusedEnrolment, CommitRefusedRotation, RawEnrolment,
     RawClosure, RawPointer
<1> QED BY <1>1, <1>2, <1>4, <1>5, <1>6, EnrolInstalls, RotationReplaces,
           RevocationWithdraws

LEMMA PointerHolds ==
  ASSUME Disciplined
  PROVE  Spec => [](TypeOK /\ PointerInv)
<1>1. Init => PointerInv
  <2> SUFFICES ASSUME Init PROVE PointerInv
    OBVIOUS
  <2>1. \A f \in Fingerprints : enrolments[f].subject = None
    BY DEF Init, NoEnrolment
  <2> QED BY <2>1, RegistryInputs DEF Init, PointerInv, OpenOf
<1>2. TypeOK /\ PointerInv /\ [Next]_vars => PointerInv'
  BY OwnWritersStep DEF Keeps, Installs, Replaces, Withdraws
<1>3. QED
  BY <1>1, <1>2, TypesHold, PTL DEF Spec

\* With its own writers alone the pointers never drift from the truth: nothing
\* ever needs repair (reconcile_current_root).
THEOREM NothingEverDrifts ==
  ASSUME Disciplined
  PROVE  Spec => []NothingDrifts
<1>1. ASSUME TypeOK, PointerInv
      PROVE  NothingDrifts
  <2> SUFFICES ASSUME NEW s \in Subjects
               PROVE  Derived(s) = current[s] /\ ~Ambiguous(s)
    BY DEF NothingDrifts, Drifted
  <2>1. \A f, g \in OpenOf(s) : f = g
    BY <1>1 DEF PointerInv
  <2> QED BY <1>1, <2>1, RootIsPointer, AmbiguousIsTwo DEF roots
<1>2. QED
  BY <1>1, PointerHolds, PTL

\* The registry with its own writers alone is a register of roots: a subject
\* has one root or none, and a key is a root once, of one subject.
THEOREM RegistryIsARegister ==
  ASSUME Disciplined
  PROVE  Spec => KeepsOneRoot
<1>1. ASSUME Init
      PROVE  Register!RegisterInit
  <2>1. \A s \in Subjects : OpenOf(s) = {}
    BY <1>1, RegistryInputs DEF Init, OpenOf, NoEnrolment
  <2>2. \A s \in Subjects : Derived(s) = None
    BY <2>1, DerivedNone
  <2>3. \A f \in Fingerprints : ~Enrolled(f)
    BY <1>1 DEF Init, Enrolled
  <2> QED BY <2>2, <2>3 DEF Register!RegisterInit
<1>2. ASSUME TypeOK, PointerInv, TypeOK', PointerInv', [Next]_vars
      PROVE  [Register!RegisterNext]_(Register!registerVars)
  <2>1. roots = current /\ roots' = current'
    BY <1>2, RootIsPointer, RootIsPointerNext
  <2>2. CASE Keeps
    <3>1. roots' = roots /\ ever' = ever
      BY <2>1, <2>2 DEF Keeps
    <3> QED BY <3>1 DEF roots, ever, Register!registerVars
  <2>3. ASSUME NEW s \in Subjects, NEW f \in Fingerprints,
               Installs(s, f) \/ Replaces(s, f)
        PROVE  Register!RegisterNext
    <3>1. roots' = [roots EXCEPT ![s] = f] /\ f \notin ever /\ ever' = ever \cup {f}
      BY <2>1, <2>3 DEF Installs, Replaces
    <3>2. Register!Install(s, f) \/ Register!Replace(s, f)
      BY <3>1 DEF roots, ever, Register!Install, Register!Replace
    <3> QED BY <3>2 DEF Register!RegisterNext
  <2>4. ASSUME NEW s \in Subjects, Withdraws(s)
        PROVE  Register!RegisterNext
    <3>1. roots[s] # None /\ roots' = [roots EXCEPT ![s] = None] /\ ever' = ever
      BY <2>1, <2>4 DEF Withdraws
    <3>2. Register!Withdraw(s)
      BY <3>1 DEF roots, ever, Register!Withdraw
    <3> QED BY <3>2 DEF Register!RegisterNext
  <2> QED BY <1>2, <2>2, <2>3, <2>4, OwnWritersStep
<1>3. QED
  BY <1>1, <1>2, PointerHolds, PTL DEF Spec, KeepsOneRoot, Register!RegisterSpec
-----------------------------------------------------------------------------
(***************************************************************************)
(* Signed enrolments of hosts on their way to the registry.                *)
(***************************************************************************)
\* Whatever envelopes are presented, and in whatever order, the registry does
\* nothing but its own operations.
LEMMA EnrolmentStep == [EnrolmentNext]_enrolmentVars => [Next]_vars
<1>1. ASSUME NEW st \in Statements, Issue(st)
      PROVE  UNCHANGED vars
  BY <1>1 DEF Issue
<1>2. ASSUME NEW env \in Envelopes, Present(env)
      PROVE  Next
  <2> DEFINE st == env.statement
  <2>1. st \in Statements
    BY DEF Envelopes
  <2>2. st.host \in Subjects /\ st.key \in Fingerprints
          /\ (IsRotation(st) => st.supersedes \in Fingerprints)
    BY <2>1, EnrolmentInputs DEF Statements, IsRotation
  <2>3. IF IsRotation(st) THEN RotateRoot(st.host, st.supersedes, st.key)
                          ELSE EnrolRoot(st.host, st.key)
    BY <1>2 DEF Present
  <2> HIDE DEF st
  <2> QED BY <2>2, <2>3 DEF Next
<1>3. Other => Next
  BY EnrolmentInputs DEF Other, Next
<1>4. UNCHANGED enrolmentVars => UNCHANGED vars
  BY DEF enrolmentVars
<1> QED BY <1>1, <1>2, <1>3, <1>4 DEF EnrolmentNext

\* The enrolments of hosts, by signed statements a caller presents, are a use of
\* the registry: all that holds of the registry holds of it
\* (host_attester_enrolment.py over attestation_trust_registry.py).
THEOREM EnrolmentUsesRegistry == EnrolmentSpec => Spec
<1>1. EnrolmentInit => Init
  BY DEF EnrolmentInit
<1>2. QED
  BY <1>1, EnrolmentStep, PTL DEF EnrolmentSpec, Spec

\* While nobody wrote from outside, a key that another enrolment was made in the
\* place of is closed, also where a refused rotation was committed.
ReplacedAreClosed ==
  rawWrites = 0 =>
    \A f, g \in Fingerprints : enrolments[g].supersedes = f => Closed(f)

LEMMA ReplacedStayClosed ==
  ASSUME TypeOK, ReplacedAreClosed, [Next]_vars
  PROVE  ReplacedAreClosed'
<1>1. Grows
  BY EveryStepGrows
<1> SUFFICES ASSUME rawWrites' = 0, NEW f \in Fingerprints, NEW g \in Fingerprints,
                    enrolments'[g].supersedes = f
             PROVE  Closed(f)'
  BY DEF ReplacedAreClosed
<1>2. ~RawWrite
  BY DEF RawWrite, TypeOK
<1>3. rawWrites = 0
  BY <1>2 DEF Next, EnrolRoot, CommitRefusedEnrolment, RotateRoot, CommitRefusedRotation,
     RawEnrolment, RevokeRoot, RawClosure, RepairCurrentRoot, BeginResolving, RawPointer,
     ReadClosure, ReadCount, vars
<1>4. CASE enrolments'[g] = enrolments[g]
  BY <1>1, <1>3, <1>4, TruthStays DEF ReplacedAreClosed
<1>5. CASE enrolments'[g] # enrolments[g]
  <2>1. ASSUME NEW s \in Subjects, NEW k \in Fingerprints,
               NEW old \in Fingerprints \cup {None},
               enrolments' = WithEnrolment(s, k, old)
        PROVE  old = f
    BY <1>5, <2>1 DEF WithEnrolment, TypeOK
  <2>2. ASSUME NEW s \in Subjects, NEW k \in Fingerprints, NEW old \in Fingerprints,
               RotateRoot(s, old, k)
        PROVE  Closed(f)'
    <3>1. old = f
      BY <2>1, <2>2 DEF RotateRoot
    <3>2. closures'[f] = [kind |-> "superseded", successor |-> k]
      BY <2>2, <3>1 DEF RotateRoot, TypeOK
    <3> QED BY <3>2 DEF Closed, NoClosure
  <2>3. ASSUME NEW s \in Subjects, NEW k \in Fingerprints, NEW old \in Fingerprints,
               CommitRefusedRotation(s, old, k)
        PROVE  Closed(f)'
    <3>1. old = f
      BY <2>1, <2>3 DEF CommitRefusedRotation
    <3> QED BY <2>3, <3>1 DEF CommitRefusedRotation, Closed
  <2>4. ASSUME NEW s \in Subjects, NEW k \in Fingerprints,
               EnrolRoot(s, k) \/ CommitRefusedEnrolment(s, k)
        PROVE  FALSE
    BY <2>1, <2>4, RegistryInputs DEF EnrolRoot, CommitRefusedEnrolment
  <2>5. enrolments' # enrolments
    BY <1>5
  <2>6. \E s \in Subjects : \E k \in Fingerprints :
          \/ EnrolRoot(s, k) \/ CommitRefusedEnrolment(s, k)
          \/ \E old \in Fingerprints :
               RotateRoot(s, old, k) \/ CommitRefusedRotation(s, old, k)
    BY <1>2, <2>5 DEF Next, RawEnrolment, RevokeRoot, RawClosure, RepairCurrentRoot,
       BeginResolving, RawPointer, ReadClosure, ReadCount, vars, truth
  <2> QED BY <2>2, <2>3, <2>4, <2>6
<1> QED BY <1>4, <1>5

\* A record of the package's tables is the registry's row.
LEMMA RecordsAreRows ==
  ASSUME TypeOK, NEW f \in Fingerprints
  PROVE  /\ KnownFingerprint(f).status = "unknown" <=> ~Enrolled(f)
         /\ Enrolled(f) => KnownFingerprint(f).host = enrolments[f].subject
         /\ KnownFingerprint(f).status = "active" <=> Enrolled(f) /\ ~Closed(f)
         /\ Enrolled(f) /\ Closed(f) => KnownFingerprint(f).status = ClosedAs(f)
BY DEF KnownFingerprint, ClosedAs

\* The package admits what the registry enrols or rotates, under any tampering: the
\* conditions of the record of the key to be retired follow from the registry's
\* own; and while nobody wrote from outside it admits no more, since a key whose
\* place is taken is closed (_evaluate_enrolment, enrol_root, rotate_root).
THEOREM AdmissionsHold == EnrolmentSpec => []AdmissionsAgree
<1>1. Init => ReplacedAreClosed
  BY RegistryInputs DEF Init, ReplacedAreClosed, NoEnrolment
<1>2. TypeOK /\ ReplacedAreClosed /\ [Next]_vars => ReplacedAreClosed'
  BY ReplacedStayClosed
<1>3. ASSUME TypeOK, ReplacedAreClosed
      PROVE  AdmissionsAgree
  <2> SUFFICES ASSUME NEW st \in Statements
               PROVE  /\ RegistryAccepts(st) => Admits(st)
                      /\ rawWrites = 0 => (Admits(st) => RegistryAccepts(st))
    BY DEF AdmissionsAgree
  <2>1. /\ st.host \in Subjects /\ st.key \in Fingerprints
        /\ st.supersedes \in Fingerprints \cup {None} /\ st.supersedes # st.key
    BY EnrolmentInputs DEF Statements
  <2>2. KnownFingerprint(st.key).status = "unknown" <=> ~Enrolled(st.key)
    BY <1>3, <2>1, RecordsAreRows
  <2>3. CASE st.supersedes = None
    BY <2>2, <2>3 DEF Admits, RegistryAccepts, IsRotation, Insertable, ActiveByHost
  <2>4. CASE st.supersedes # None
    <3> DEFINE old == st.supersedes
    <3>1. old \in Fingerprints
      BY <2>1, <2>4
    <3>2. KnownFingerprint(old) = [host |-> st.host, status |-> "active"]
            <=> Enrolled(old) /\ ~Closed(old) /\ enrolments[old].subject = st.host
      BY <1>3, <2>1, <3>1, RecordsAreRows DEF KnownFingerprint
    <3>3. enrolments[old].subject = st.host => Enrolled(old)
      BY <2>1, RegistryInputs DEF Enrolled, NoEnrolment
    <3>4. RegistryAccepts(st) <=>
            /\ current[st.host] = old /\ ~Enrolled(st.key)
            /\ Enrolled(old) /\ ~Closed(old) /\ enrolments[old].subject = st.host
            /\ \A g \in Fingerprints : enrolments[g].supersedes # old
      BY <2>1, <2>4, <3>3 DEF RegistryAccepts, IsRotation, Rotates, Insertable
    <3>5. Admits(st) <=>
            /\ current[st.host] = old /\ ~Enrolled(st.key)
            /\ Enrolled(old) /\ ~Closed(old) /\ enrolments[old].subject = st.host
      BY <2>2, <2>4, <3>2 DEF Admits, IsRotation, ActiveByHost
    <3>6. rawWrites = 0 /\ ~Closed(old) =>
            \A g \in Fingerprints : enrolments[g].supersedes # old
      BY <1>3, <3>1 DEF ReplacedAreClosed
    <3> QED BY <3>4, <3>5, <3>6
  <2> QED BY <2>3, <2>4
<1>4. QED
  BY <1>1, <1>2, <1>3, EnrolmentUsesRegistry, TypesHold, PTL DEF Spec

\* Only what was signed enrols a host's key, with the terms that were signed.
LEMMA EnrolledStaysSigned ==
  ASSUME Disciplined, TypeOK, EnrolledAsSigned, [EnrolmentNext]_enrolmentVars
  PROVE  EnrolledAsSigned'
<1> SUFFICES ASSUME NEW f \in Fingerprints, enrolments'[f].subject \in Hosts
             PROVE  [host |-> enrolments'[f].subject, key |-> f,
                     supersedes |-> enrolments'[f].supersedes] \in signed'
  BY DEF EnrolledAsSigned
<1>1. signed \subseteq signed'
  BY DEF EnrolmentNext, Issue, Present, Other, enrolmentVars
<1>2. CASE enrolments'[f] = enrolments[f]
  BY <1>1, <1>2 DEF EnrolledAsSigned
<1>3. ASSUME NEW s \in Subjects, NEW k \in Fingerprints,
             NEW old \in Fingerprints \cup {None},
             enrolments' = WithEnrolment(s, k, old), enrolments'[f] # enrolments[f]
      PROVE  f = k /\ enrolments'[f] = [subject |-> s, supersedes |-> old, genuine |-> TRUE]
  BY <1>3 DEF WithEnrolment, TypeOK
<1>4. ASSUME NEW env \in Envelopes, Present(env), enrolments'[f] # enrolments[f]
      PROVE  [host |-> enrolments'[f].subject, key |-> f,
              supersedes |-> enrolments'[f].supersedes] \in signed
  <2> DEFINE st == env.statement
  <2>1. st \in Statements /\ st \in signed
    BY <1>4 DEF Envelopes, Present, Verifies
  <2>2. st = [host |-> st.host, key |-> st.key, supersedes |-> st.supersedes]
          /\ st.host \in Subjects /\ st.key \in Fingerprints
          /\ st.supersedes \in Fingerprints \cup {None}
    BY <2>1, EnrolmentInputs DEF Statements
  <2>3. enrolments' = WithEnrolment(st.host, st.key, st.supersedes)
    BY <1>4 DEF Present, RotateRoot, EnrolRoot, IsRotation
  <2> HIDE DEF st
  <2>4. f = st.key /\ enrolments'[f].subject = st.host
          /\ enrolments'[f].supersedes = st.supersedes
    <3>1. enrolments'[f] =
            [subject |-> st.host, supersedes |-> st.supersedes, genuine |-> TRUE]
            /\ f = st.key
      BY <1>3, <1>4, <2>2, <2>3
    <3> QED BY <3>1
  <2> QED BY <2>1, <2>2, <2>4
<1>5. ASSUME Other, enrolments'[f] # enrolments[f]
      PROVE  enrolments'[f].subject \notin Hosts
  <2>1. ~RawWrite /\ ~CommitsRefused
    BY DEF Disciplined, RawWrite, TypeOK
  <2>2. enrolments' # enrolments
    BY <1>5
  <2>3. PICK s \in Subjects \ Hosts, k \in Fingerprints :
          EnrolRoot(s, k) \/ \E old \in Fingerprints : RotateRoot(s, old, k)
    BY <1>5, <2>1, <2>2 DEF Other, CommitRefusedEnrolment, CommitRefusedRotation,
       RawEnrolment, RawClosure, RawPointer, RevokeRoot, RepairCurrentRoot,
       BeginResolving, ReadClosure, ReadCount, truth
  <2>4. PICK old \in Fingerprints \cup {None} : enrolments' = WithEnrolment(s, k, old)
    BY <2>3 DEF EnrolRoot, RotateRoot
  <2>5. enrolments'[f] = [subject |-> s, supersedes |-> old, genuine |-> TRUE]
    BY <1>3, <1>5, <2>4, EnrolmentInputs
  <2> QED BY <2>5
<1>6. ASSUME UNCHANGED enrolmentVars \/ \E st \in Statements : Issue(st)
      PROVE  enrolments' = enrolments
  BY <1>6 DEF Issue, enrolmentVars, vars, truth
<1> QED BY <1>1, <1>2, <1>4, <1>5, <1>6 DEF EnrolmentNext

\* Every key the registry holds for a host was bound to it, in the place of the
\* key it replaced, by one signed statement, and the registry and the package
\* give the same standing (verify_host_attester_enrolment, fingerprint_standing).
THEOREM EnrolmentsHold ==
  ASSUME Disciplined
  PROVE  EnrolmentSpec => []EnrolmentsAgree
<1>1. EnrolmentInit => EnrolledAsSigned
  BY EnrolmentInputs, RegistryInputs DEF EnrolmentInit, Init, EnrolledAsSigned, NoEnrolment
<1>2. TypeOK /\ EnrolledAsSigned /\ [EnrolmentNext]_enrolmentVars => EnrolledAsSigned'
  BY EnrolledStaysSigned
<1>3. ASSUME TypeOK, PointerInv
      PROVE  StandingsAgree
  <2> SUFFICES ASSUME NEW f \in Fingerprints
               PROVE  Standing(f) = AttesterStanding(enrolments[f].subject, f)
    BY DEF StandingsAgree
  <2> DEFINE h == enrolments[f].subject
  <2>1. CASE ~Enrolled(f)
    BY <2>1 DEF Standing, AttesterStanding, KnownFingerprint
  <2>2. CASE Enrolled(f) /\ Closed(f)
    BY <2>2 DEF Standing, AttesterStanding, KnownFingerprint, ClosedAs
  <2>3. CASE Enrolled(f) /\ ~Closed(f)
    <3>1. h \in Subjects /\ f \in OpenOf(h)
      BY <1>3, <2>3 DEF TypeOK, Enrolled, EnrolmentRows, OpenOf
    <3>2. current[h] = f /\ ~Ambiguous(h)
      BY <1>3, <3>1, AmbiguousIsTwo DEF PointerInv
    <3>3. f # None
      BY RegistryInputs
    <3>4. Standing(f) = "valid"
      BY <2>3, <3>2, <3>3 DEF Standing
    <3>5. AttesterStanding(h, f) = "valid"
      BY <2>3, <3>2, <3>3 DEF AttesterStanding, KnownFingerprint, ActiveByHost
    <3> QED BY <3>4, <3>5
  <2> QED BY <2>1, <2>2, <2>3
<1>4. QED
  BY <1>1, <1>2, <1>3, EnrolmentUsesRegistry, TypesHold, PointerHolds, PTL
     DEF EnrolmentSpec, EnrolmentsAgree
=============================================================================
