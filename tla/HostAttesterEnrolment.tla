------------------------- MODULE HostAttesterEnrolment -------------------------
(***************************************************************************)
(* Signed enrolments of host attesters (host_attester_enrolment.py) on     *)
(* their way to the attestation trust registry.  The enrolment authority   *)
(* signs a statement; a caller presents it, at any time, any number of     *)
(* times and in any order, perhaps with a term changed; what verifies is   *)
(* handed to enrol_root or rotate_root.  A statement has no validity       *)
(* window: it stays presentable.                                           *)
(*                                                                         *)
(* The package also judges statements and keys over two maps a caller      *)
(* supplies.  Here the maps are the registry's own tables, which is what   *)
(* the registry's functions took the place of.  A root of a release signer *)
(* has no such document: its caller hands the terms over by itself.        *)
(***************************************************************************)
EXTENDS AttestationRegistry

CONSTANTS
  Hosts,       \* the subjects that are hosts; the others are release signers
  MaxSigned    \* bound on the statements signed

ASSUME EnrolmentInputs == Hosts \subseteq Subjects /\ MaxSigned \in Nat

VARIABLE signed      \* the statements signed, hence valid wherever they turn up

enrolmentVars == <<vars, signed>>

\* HostAttesterEnrolmentStatementV1: a rotation names the key it replaces, and
\* that key is another one.
Statements ==
  {st \in [host: Hosts, key: Fingerprints, supersedes: Fingerprints \cup {None}] :
     st.supersedes # st.key}

IsRotation(st) == st.supersedes # None

\* An envelope: a statement, and what the signature it carries was made over,
\* which is one of the statements somebody signed.
Envelopes == [statement: Statements, over: signed]

-----------------------------------------------------------------------------
(***************************************************************************)
(* The package's own judgement, over the maps.                             *)
(***************************************************************************)
ActiveByHost(h) == current[h]

\* The registry's tables as FingerprintRecords; None is no record.
KnownFingerprint(f) ==
  IF Enrolled(f)
  THEN [host |-> enrolments[f].subject,
        status |-> IF Closed(f) THEN ClosedAs(f) ELSE "active"]
  ELSE [host |-> None, status |-> "unknown"]

\* _evaluate_enrolment: the presented key has never been seen; the host's
\* binding is the one the statement replaces; and the record of a key to be
\* retired says so too.
Admits(st) ==
  /\ KnownFingerprint(st.key).status = "unknown"
  /\ ActiveByHost(st.host) = st.supersedes
  /\ IsRotation(st) =>
       KnownFingerprint(st.supersedes) = [host |-> st.host, status |-> "active"]

\* _host_attester_standing.
AttesterStanding(h, f) ==
  LET known == KnownFingerprint(f)
  IN CASE known.status = "unknown" -> "absent"
       [] known.status \in {"revoked", "superseded"} -> known.status
       [] OTHER -> IF known.host # h THEN "wrong_host"
                   ELSE IF ActiveByHost(h) = None THEN "not_active_for_host"
                   ELSE IF ActiveByHost(h) # f THEN "registry_disagreement"
                   ELSE "valid"

-----------------------------------------------------------------------------
\* issue_host_attester_enrolment.
Issue(st) ==
  /\ Cardinality(signed) < MaxSigned
  /\ signed' = signed \cup {st}
  /\ UNCHANGED vars

\* Faulty variant: the host is not among the signed terms.
VerifiesWithoutHost(env) ==
  /\ env.statement.key = env.over.key
  /\ env.statement.supersedes = env.over.supersedes

\* verify_host_attester_enrolment: the signature is over these very terms.
Verifies(env) == env.statement = env.over

\* The caller hands the verified terms to the registry.
Present(env) ==
  LET st == env.statement
  IN /\ Verifies(env)
     /\ IF IsRotation(st) THEN RotateRoot(st.host, st.supersedes, st.key)
                          ELSE EnrolRoot(st.host, st.key)
     /\ UNCHANGED signed

\* What everybody else does meanwhile: roots of signers, revocations, repairs,
\* unlocked readers, writes from outside and refusals that are committed.
Other ==
  /\ \/ \E s \in Subjects \ Hosts : \E f \in Fingerprints :
          EnrolRoot(s, f) \/ \E old \in Fingerprints : RotateRoot(s, old, f)
     \/ \E f \in Fingerprints :
          RevokeRoot(f) \/ \E closure \in ClosureRows : RawClosure(f, closure)
     \/ \E s \in Subjects :
          \/ RepairCurrentRoot(s)
          \/ BeginResolving(s)
          \/ \E f \in Fingerprints \cup {None} : RawPointer(s, f)
          \/ \E f \in Fingerprints :
               \/ CommitRefusedEnrolment(s, f)
               \/ \E old \in Fingerprints \cup {None}, genuine \in BOOLEAN :
                    RawEnrolment(s, f, old, genuine)
               \/ \E old \in Fingerprints : CommitRefusedRotation(s, old, f)
     \/ ReadClosure
     \/ ReadCount
  /\ UNCHANGED signed

EnrolmentInit == Init /\ signed = {}

EnrolmentNext ==
  \/ \E st \in Statements : Issue(st)
  \/ \E env \in Envelopes : Present(env)
  \/ Other

EnrolmentSpec == EnrolmentInit /\ [][EnrolmentNext]_enrolmentVars

-----------------------------------------------------------------------------
(***************************************************************************)
(* Properties.                                                             *)
(***************************************************************************)
\* Every key the registry holds for a host was bound to its host, in the place of the very
\* key it replaced, by one signed statement, however the envelopes were altered,
\* repeated or reordered on the way.
EnrolledAsSigned ==
  \A f \in Fingerprints : enrolments[f].subject \in Hosts =>
    [host |-> enrolments[f].subject, key |-> f,
     supersedes |-> enrolments[f].supersedes] \in signed

\* What the registry would do with a statement.
RegistryAccepts(st) ==
  IF IsRotation(st)
  THEN Rotates(st.host, st.supersedes, st.key) /\ ~Closed(st.supersedes)
  ELSE Insertable(st.host, st.key, None) /\ current[st.host] = None

\* The package's own judgement refuses nothing the registry would do, also over
\* tables and pointers written from outside; and without such writes it admits
\* nothing the registry would refuse, also where callers committed what was
\* refused.  (A row from outside that claims to supersede an open key takes the
\* one place for its successor: the package, which does not look there, admits a
\* rotation that rotate_root then loses to the unique index.)
AdmissionsAgree ==
  \A st \in Statements :
    /\ RegistryAccepts(st) => Admits(st)
    /\ rawWrites = 0 => (Admits(st) => RegistryAccepts(st))

\* The registry's standing of a key is what the package's judgement says of it
\* for the host it was enrolled for.
StandingsAgree ==
  \A f \in Fingerprints :
    Standing(f) = AttesterStanding(enrolments[f].subject, f)

\* What Control holds of the hosts and what the package says of it are the same.
EnrolmentsAgree == EnrolledAsSigned /\ StandingsAgree
=============================================================================
