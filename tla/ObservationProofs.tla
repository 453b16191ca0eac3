--------------------------- MODULE ObservationProofs ---------------------------
(***************************************************************************)
(* Theorems about ObservationAdmission, for every value of its constants.  *)
(***************************************************************************)
EXTENDS ObservationAdmission, TLAPS

\* A call that waits has what it was called for.
Calls ==
  /\ \A c \in closing : credential[c.key] # NoCredential
  /\ \A c \in revoking : rollouts[c.rollout] # NoRollout

TypeInv == TypeOK /\ Calls

-----------------------------------------------------------------------------
(***************************************************************************)
(* What the ladder of dispositions can say.                                *)
(***************************************************************************)

\* A credential or rollout that exists is a row.
LEMMA RowsExist ==
  ASSUME TypeOK
  PROVE  /\ \A k \in Keys : credential[k] # NoCredential => credential[k] \in CredentialRows
         /\ \A a \in RolloutNames : rollouts[a] # NoRollout => rollouts[a] \in RolloutViews
BY DEF TypeOK

\* An authorization stands or fails in one of three ways.
LEMMA StandingVerdict ==
  ASSUME NEW row, NEW at
  PROVE  Standing(row, at) \in
           {"stands", "authorization_revoked", "authorization_invalid", "authorization_expired"}
BY DEF Standing

\* Every finding is a verdict.
LEMMA FindingIsVerdict ==
  ASSUME NEW t, NEW r \in Reports, NEW at
  PROVE  Disposition(t, r, at) \in Verdicts
<1>1. r.terms \in BindingDispositions \cup {"agree"}
  BY ObservationInputs
<1>2. Standing(rollouts[r.authorization], at) = "stands"
      \/ Standing(rollouts[r.authorization], at) \in Verdicts
  BY StandingVerdict DEF Verdicts
<1>3. Finding(t, r, at) \in Verdicts
  BY <1>1, <1>2 DEF Finding, Verdicts, BindingDispositions, TrustedDispositions
<1>4. QED
  BY <1>3 DEF Disposition, Verdicts

\* A trusted finding climbed the whole ladder.
LEMMA TrustedFinding ==
  ASSUME NEW t, NEW r \in Reports, NEW at,
         Disposition(t, r, at) \in TrustedDispositions
  PROVE  /\ Requested(r.authorization) /\ r.authorization[1] = t
         /\ r.sequence = r.authorization[2]
         /\ ~(r.attempt > rollouts[r.authorization].attempts)
         /\ Standing(rollouts[r.authorization], at) = "stands"
         /\ Disposition(t, r, at) = "accepted" <=> r.outcome # "failed"
<1>1. r.terms = "agree" \/ r.terms \notin TrustedDispositions
  BY ObservationInputs DEF BindingDispositions, TrustedDispositions
<1>2. Standing(rollouts[r.authorization], at) = "stands"
      \/ Standing(rollouts[r.authorization], at) \notin TrustedDispositions
  BY StandingVerdict DEF TrustedDispositions
<1>3. Disposition(t, r, at) = Finding(t, r, at)
  BY DEF Disposition, TrustedDispositions
<1>4. QED
  BY <1>1, <1>2, <1>3 DEF Finding, TrustedDispositions

\* A report that is trusted has a coordinate of the target.
LEMMA TrustedCoordinate ==
  ASSUME TypeOK, NEW t, NEW r \in Reports, NEW at,
         Disposition(t, r, at) \in TrustedDispositions
  PROVE  CoordinateOf(r) \in Coordinates
<1>1. /\ Requested(r.authorization) /\ r.sequence = r.authorization[2]
      /\ ~(r.attempt > rollouts[r.authorization].attempts)
  BY TrustedFinding
<1>2. r.authorization \in RolloutNames /\ rollouts[r.authorization] \in RolloutViews
  BY <1>1, RowsExist DEF Requested
<1>3. r.sequence \in Sequences
  BY <1>1, <1>2 DEF RolloutNames
<1>4. r.attempt \in Nat \ {0} /\ MaxAttempts \in Nat
  BY ObservationInputs
<1>5. rollouts[r.authorization].attempts \in 0..MaxAttempts
  BY <1>2 DEF RolloutViews
<1>6. r.attempt \in 1..MaxAttempts
  BY <1>1, <1>4, <1>5
<1>7. QED
  BY <1>3, <1>6 DEF CoordinateOf, Coordinates

\* What a report is placed as: a finding that is not trusted stays, a trusted
\* one stays or becomes one of two verdicts that are not trusted.
LEMMA PlacedVerdict ==
  ASSUME NEW t, NEW r \in Reports, NEW found \in Verdicts
  PROVE  /\ Placed(t, r, found) \in Verdicts
         /\ Placed(t, r, found) \in TrustedDispositions =>
              /\ Placed(t, r, found) = found
              /\ ~Before(CoordinateOf(r), projection[t].mark)
              /\ CoordinateOf(r) = projection[t].mark => projection[t].state = StateDigest(r)
<1>1. /\ "stale_observation" \in Verdicts \ TrustedDispositions
      /\ "execution_coordinate_conflict" \in Verdicts \ TrustedDispositions
  BY DEF Verdicts, TrustedDispositions, BindingDispositions
<1>2. QED
  BY <1>1 DEF Placed

-----------------------------------------------------------------------------
(***************************************************************************)
(* Type correctness.                                                       *)
(***************************************************************************)
\* Instants are numbers, and those before one are instants.
LEMMA InstantsAreNaturals ==
  /\ MaxTime \in Nat /\ Instants = 0..MaxTime /\ None \notin Instants
  /\ \A n \in Instants : \A i \in 0..n : i \in Instants
BY ObservationInputs DEF Instants

\* The instants and the counter of a rollout are numbers.
LEMMA RolloutNumbers ==
  ASSUME NEW row \in RolloutViews
  PROVE  row.issuedAt \in Nat /\ row.expiresAt \in Nat /\ row.attempts \in Nat
<1>1. row.issuedAt \in 0..MaxTime /\ row.expiresAt \in Lifetimes
      /\ row.attempts \in 0..MaxAttempts
  BY InstantsAreNaturals DEF RolloutViews
<1>2. row.expiresAt \in Nat
  BY <1>1, ObservationInputs
<1>3. row.issuedAt \in Nat
  BY <1>1, InstantsAreNaturals
<1>4. row.attempts \in Nat
  BY <1>1, ObservationInputs
<1>5. QED
  BY <1>2, <1>3, <1>4

\* A command leaves a row of the credentials table.
LEMMA CredentialAfterTyped ==
  ASSUME NEW command, NEW row \in CredentialRows, NEW at \in Instants
  PROVE  /\ CredentialAfter(command, row, at) \in CredentialRows
         /\ CredentialAfter(command, row, at).status # "absent"
BY DEF CredentialAfter, CredentialRows, CredentialStatuses

\* A decision leaves rows of every table it writes.
LEMMA DecideTyped ==
  ASSUME TypeInv, NEW o \in observing, Decide(o)
  PROVE  TypeInv'
<1> DEFINE r == o.report
           t == credential[r.key].target
           found == Disposition(t, r, o.at)
           placed == Placed(t, r, found)
<1>1. r \in Reports /\ o.at \in Instants /\ now \in Instants
  BY InstantsAreNaturals DEF TypeInv, TypeOK
<1>2. credential[r.key] \in CredentialRows /\ t \in Targets
  BY <1>1, ObservationInputs, RowsExist DEF TypeInv, Decide, Proven, CredentialRows
<1>3. found \in Verdicts /\ placed \in Verdicts
  BY <1>1, FindingIsVerdict, PlacedVerdict
<1>4. projection[t] \in Projections
  BY <1>2 DEF TypeInv, TypeOK
<1>5. found \in TrustedDispositions => CoordinateOf(r) \in Coordinates
  BY <1>1, TrustedCoordinate DEF TypeInv
<1>6. Projected(t, r, found) \in Projections
  BY <1>1, <1>4, <1>5 DEF Projected, Projections
<1>7. projection' = [projection EXCEPT ![t] = Projected(t, r, found)]
  BY DEF Decide
<1>8. receipts' = receipts \cup
        {[target |-> t, report |-> r, receivedAt |-> o.at, verdict |-> placed]}
  BY DEF Decide
<1>9. /\ observing' = observing \ {o}
      /\ arrivals' = arrivals \cup {[report |-> r, disposition |-> placed]}
      /\ UNCHANGED <<now, credential, rollouts, closing, revoking>>
  BY DEF Decide, Arrived
<1>10. [target |-> t, report |-> r, receivedAt |-> o.at, verdict |-> placed] \in ReceiptRows
  BY <1>1, <1>2, <1>3 DEF ReceiptRows
<1>11. [report |-> r, disposition |-> placed] \in [report: Reports, disposition: Dispositions]
  BY <1>1, <1>3 DEF Dispositions
<1>12. projection' \in [Targets -> Projections]
  BY <1>6, <1>7 DEF TypeInv, TypeOK
<1> HIDE DEF r, t, found, placed
<1>13. TypeOK'
  BY <1>8, <1>9, <1>10, <1>11, <1>12 DEF TypeInv, TypeOK
<1>14. QED
  BY <1>9, <1>13 DEF TypeInv, Calls

\* Every step keeps types, and waiting calls with what they were called for.
LEMMA TypeInvStep ==
  ASSUME TypeInv, [Next]_vars
  PROVE  TypeInv'
<1>1. CASE Tick
  <2>1. now' \in Instants /\ 0..now \subseteq 0..now'
    BY <1>1, InstantsAreNaturals DEF Tick, TypeInv, TypeOK
  <2>2. TypeOK'
    BY <1>1, <2>1 DEF Tick, waiting, TypeInv, TypeOK
  <2>3. QED
    BY <1>1, <2>2 DEF Tick, waiting, TypeInv, Calls
<1>2. ASSUME NEW k \in Keys, NEW t \in Targets, EnrolCredential(k, t)
      PROVE  TypeInv'
  <2> DEFINE row == [target |-> t, status |-> "pending", activatedAt |-> None,
                     retiredAt |-> None, revokedAt |-> None]
  <2>1. row \in CredentialRows /\ row # NoCredential
    <3>1. row \in CredentialRows
      BY DEF CredentialRows, CredentialStatuses
    <3>2. row.status # NoCredential.status
      BY DEF NoCredential
    <3>3. QED
      BY <3>1, <3>2
  <2>2. credential' = [credential EXCEPT ![k] = row]
    BY <1>2 DEF EnrolCredential
  <2> HIDE DEF row
  <2>3. TypeOK'
    BY <1>2, <2>1, <2>2 DEF EnrolCredential, waiting, TypeInv, TypeOK
  <2>4. Calls'
    BY <1>2, <2>1, <2>2 DEF EnrolCredential, waiting, TypeInv, TypeOK, Calls
  <2>5. QED
    BY <2>3, <2>4 DEF TypeInv
<1>3. ASSUME NEW k \in Keys, NEW command \in Commands, BeginClosing(command, k)
      PROVE  TypeInv'
  BY <1>3, InstantsAreNaturals DEF BeginClosing, TypeInv, TypeOK, Calls
<1>4. ASSUME NEW c \in closing, CommitClosing(c)
      PROVE  TypeInv'
  <2> DEFINE row == CredentialAfter(c.command, credential[c.key], c.at)
  <2>1. c.key \in Keys /\ c.at \in Instants
    BY InstantsAreNaturals DEF TypeInv, TypeOK
  <2>2. credential[c.key] \in CredentialRows
    BY <2>1, RowsExist DEF TypeInv, Calls
  <2>3. row \in CredentialRows /\ row # NoCredential
    BY <2>1, <2>2, CredentialAfterTyped DEF NoCredential
  <2>4. credential' = [credential EXCEPT ![c.key] = row]
    BY <1>4 DEF CommitClosing
  <2> HIDE DEF row
  <2>5. TypeOK'
    BY <1>4, <2>1, <2>3, <2>4 DEF CommitClosing, TypeInv, TypeOK
  <2>6. Calls'
    BY <1>4, <2>1, <2>3, <2>4 DEF CommitClosing, TypeInv, TypeOK, Calls
  <2>7. QED
    BY <2>5, <2>6 DEF TypeInv
<1>5. ASSUME NEW a \in RolloutNames, NEW expires \in Lifetimes, RequestRollout(a, expires)
      PROVE  TypeInv'
  <2> DEFINE row == [attempts |-> 0, issuedAt |-> now, expiresAt |-> expires, revokedAt |-> None]
  <2>1. row \in RolloutViews
    BY ObservationInputs DEF TypeInv, TypeOK, RolloutViews
  <2>2. row.issuedAt # NoRollout.issuedAt
    BY InstantsAreNaturals DEF TypeInv, TypeOK, NoRollout
  <2>3. row # NoRollout
    BY <2>2
  <2>4. rollouts' = [rollouts EXCEPT ![a] = row]
    BY <1>5 DEF RequestRollout
  <2> HIDE DEF row
  <2>5. TypeOK'
    BY <1>5, <2>1, <2>4 DEF RequestRollout, waiting, TypeInv, TypeOK
  <2>6. Calls'
    BY <1>5, <2>3, <2>4 DEF RequestRollout, waiting, TypeInv, TypeOK, Calls
  <2>7. QED
    BY <2>5, <2>6 DEF TypeInv
<1>6. ASSUME NEW a \in RolloutNames, DispatchAttempt(a)
      PROVE  TypeInv'
  <2> DEFINE row == [rollouts[a] EXCEPT !.attempts = @ + 1]
  <2>1. rollouts[a] \in RolloutViews
    BY <1>6, RowsExist DEF DispatchAttempt, TypeInv
  <2>2. row \in RolloutViews
    BY <1>6, <2>1, ObservationInputs DEF DispatchAttempt, RolloutViews
  <2>3. row.issuedAt # NoRollout.issuedAt
    BY <2>1, InstantsAreNaturals DEF RolloutViews, NoRollout
  <2>4. row # NoRollout
    BY <2>3
  <2>5. rollouts' = [rollouts EXCEPT ![a] = row]
    BY <1>6 DEF DispatchAttempt
  <2> HIDE DEF row
  <2>6. TypeOK'
    BY <1>6, <2>2, <2>5 DEF DispatchAttempt, waiting, TypeInv, TypeOK
  <2>7. Calls'
    BY <1>6, <2>4, <2>5 DEF DispatchAttempt, waiting, TypeInv, TypeOK, Calls
  <2>8. QED
    BY <2>6, <2>7 DEF TypeInv
<1>7. ASSUME NEW a \in RolloutNames, BeginRevoking(a)
      PROVE  TypeInv'
  BY <1>7, InstantsAreNaturals DEF BeginRevoking, TypeInv, TypeOK, Calls
<1>8. ASSUME NEW c \in revoking, CommitRevoking(c)
      PROVE  TypeInv'
  <2> DEFINE at == IF rollouts[c.rollout].revokedAt = None THEN c.at
                   ELSE rollouts[c.rollout].revokedAt
             row == [rollouts[c.rollout] EXCEPT !.revokedAt = at]
  <2>1. c.rollout \in RolloutNames /\ c.at \in Instants
    BY InstantsAreNaturals DEF TypeInv, TypeOK
  <2>2. rollouts[c.rollout] \in RolloutViews
    BY <2>1, RowsExist DEF TypeInv, Calls
  <2>3. row \in RolloutViews
    BY <2>1, <2>2 DEF RolloutViews
  <2>4. row.issuedAt # NoRollout.issuedAt
    BY <2>2, InstantsAreNaturals DEF RolloutViews, NoRollout
  <2>5. row # NoRollout
    BY <2>4
  <2>6. rollouts' = [rollouts EXCEPT ![c.rollout] = row]
    BY <1>8, <2>1 DEF CommitRevoking, TypeInv, TypeOK
  <2> HIDE DEF row
  <2>7. TypeOK'
    BY <1>8, <2>1, <2>3, <2>6 DEF CommitRevoking, TypeInv, TypeOK
  <2>8. Calls'
    BY <1>8, <2>1, <2>5, <2>6 DEF CommitRevoking, TypeInv, TypeOK, Calls
  <2>9. QED
    BY <2>7, <2>8 DEF TypeInv
<1>9. ASSUME NEW r \in Reports, BeginObserving(r)
      PROVE  TypeInv'
  BY <1>9, InstantsAreNaturals DEF BeginObserving, TypeInv, TypeOK, Calls
<1>10. ASSUME NEW o \in observing, RejectUnproven(o) \/ Replay(o) \/ RefuseIneligible(o)
       PROVE  TypeInv'
  <2>1. o.report \in Reports
    BY DEF TypeInv, TypeOK
  <2>2. PICK d \in Dispositions : Arrived(o, d)
    BY <1>10 DEF RejectUnproven, Replay, RefuseIneligible, Dispositions, Unproven
  <2>3. UNCHANGED <<projection, receipts>>
    BY <1>10 DEF RejectUnproven, Replay, RefuseIneligible
  <2>4. QED
    BY <2>1, <2>2, <2>3 DEF Arrived, TypeInv, TypeOK, Calls
<1>11. ASSUME NEW o \in observing, Decide(o)
       PROVE  TypeInv'
  BY <1>11, DecideTyped
<1>12. CASE UNCHANGED vars
  BY <1>12 DEF vars, waiting, TypeInv, TypeOK, Calls
<1>13. QED
  BY <1>1, <1>2, <1>3, <1>4, <1>5, <1>6, <1>7, <1>8, <1>9, <1>10, <1>11, <1>12 DEF Next

\* Types and waiting calls are invariant.
LEMMA TypeInvariant == Spec => []TypeInv
<1>1. Init => TypeInv
  BY InstantsAreNaturals DEF Init, TypeInv, TypeOK, Calls, Projections
<1>2. TypeInv /\ [Next]_vars => TypeInv'
  BY TypeInvStep
<1>3. QED
  BY <1>1, <1>2, PTL DEF Spec

\* Every reachable state of the admission holds rows of its tables, and no
\* command waits for something that does not exist.
THEOREM TypeCorrect == Spec => []TypeOK
<1>1. TypeInv => TypeOK
  BY DEF TypeInv
<1>2. QED
  BY <1>1, TypeInvariant, PTL

-----------------------------------------------------------------------------
(***************************************************************************)
(* The high-water mark.                                                    *)
(***************************************************************************)

\* Execution coordinates are totally ordered.
LEMMA BeforeIsAnOrder ==
  ASSUME NEW c \in Nat \X Nat, NEW d \in Nat \X Nat, NEW e \in Nat \X Nat
  PROVE  /\ ~Before(c, c)
         /\ Before(c, d) \/ c = d \/ Before(d, c)
         /\ Before(c, d) => ~Before(d, c)
         /\ Before(c, d) /\ ~Before(e, d) => Before(c, e)
         /\ Before(c, d) /\ Before(d, e) => Before(c, e)
<1>1. /\ c[1] \in Nat /\ c[2] \in Nat /\ c = <<c[1], c[2]>>
      /\ d[1] \in Nat /\ d[2] \in Nat /\ d = <<d[1], d[2]>>
      /\ e[1] \in Nat /\ e[2] \in Nat
  OBVIOUS
<1>2. Before(c, d) \/ (c[1] = d[1] /\ c[2] = d[2]) \/ Before(d, c)
  BY <1>1 DEF Before
<1>3. Before(c, d) \/ c = d \/ Before(d, c)
  BY <1>1, <1>2
<1>4. QED
  BY <1>1, <1>3 DEF Before

\* A coordinate, and the mark of a target without one, is a pair of numbers.
LEMMA CoordinatesAreNumbers ==
  /\ Coordinates \cup {NoCoordinate} \subseteq Nat \X Nat
  /\ NoCoordinate \notin Coordinates
<1>1. Sequences \subseteq Nat \ {0} /\ 1..MaxAttempts \subseteq Nat
  BY ObservationInputs
<1>2. \A c \in Coordinates : c \in Nat \X Nat /\ c[1] # 0
  BY <1>1 DEF Coordinates
<1>3. NoCoordinate \in Nat \X Nat /\ NoCoordinate[1] = 0
  BY DEF NoCoordinate
<1>4. QED
  BY <1>2, <1>3

\* Every trusted receipt has a coordinate, and is accepted unless its report
\* says the execution failed: without the second, a report that repeats the
\* newest state could be accepted where nothing was observed.
Coordinated(trusted) ==
  \A c \in trusted :
    /\ CoordinateOf(c.report) \in Coordinates
    /\ c.verdict = "accepted" <=> c.report.outcome # "failed"

\* HighWaterIsNewestTrusted and ObservedIsNewestAccepted, of one target.
Followed(trusted, row) ==
  /\ trusted = {} <=> row.mark = NoCoordinate
  /\ \A c \in trusted :
       /\ ~Before(row.mark, CoordinateOf(c.report))
       /\ CoordinateOf(c.report) = row.mark => row.state = StateDigest(c.report)
  /\ trusted # {} => \E c \in trusted : CoordinateOf(c.report) = row.mark

AcceptedOf(trusted) == {c \in trusted : c.verdict = "accepted"}
Observed(trusted, row) ==
  IF AcceptedOf(trusted) = {} THEN row.observed = None
  ELSE /\ \E c \in AcceptedOf(trusted) : c.report = row.observed
       /\ \A c \in AcceptedOf(trusted) :
            ~Before(CoordinateOf(row.observed), CoordinateOf(c.report))

MarkInv ==
  \A t \in Targets :
    /\ Coordinated(Trusted(t))
    /\ Followed(Trusted(t), projection[t])
    /\ Observed(Trusted(t), projection[t])

\* A report that repeats the newest state changes neither the mark nor what is
\* observed, and both still follow.
LEMMA RepeatedState ==
  ASSUME NEW trusted, NEW row, NEW new,
         Coordinated(trusted \cup {new}), Followed(trusted, row), Observed(trusted, row),
         CoordinateOf(new.report) = row.mark, row.state = StateDigest(new.report)
  PROVE  Followed(trusted \cup {new}, row) /\ Observed(trusted \cup {new}, row)
<1>1. row.mark \in Nat \X Nat /\ row.mark # NoCoordinate
  BY CoordinatesAreNumbers DEF Coordinated
<1>2. ~Before(row.mark, row.mark)
  BY <1>1, BeforeIsAnOrder
<1>3. PICK top \in trusted : CoordinateOf(top.report) = row.mark
  BY <1>1 DEF Followed
<1>4. Followed(trusted \cup {new}, row)
  BY <1>1, <1>2 DEF Followed
<1>5. top.report.outcome = new.report.outcome
  BY <1>3 DEF Followed, StateDigest
<1>6. top.verdict = "accepted" <=> new.verdict = "accepted"
  BY <1>5 DEF Coordinated
<1>7. CASE new.verdict = "accepted"
  <2>1. top \in AcceptedOf(trusted)
    BY <1>6, <1>7 DEF AcceptedOf
  <2>2. AcceptedOf(trusted \cup {new}) = AcceptedOf(trusted) \cup {new}
    BY <1>7 DEF AcceptedOf
  <2>3. ~Before(CoordinateOf(row.observed), CoordinateOf(new.report))
    BY <1>3, <2>1 DEF Observed
  <2>4. Observed(trusted \cup {new}, row)
    BY <2>1, <2>2, <2>3 DEF Observed
  <2>5. QED
    BY <1>4, <2>4
<1>8. CASE new.verdict # "accepted"
  <2>1. AcceptedOf(trusted \cup {new}) = AcceptedOf(trusted)
    BY <1>8 DEF AcceptedOf
  <2>2. QED
    BY <1>4, <2>1 DEF Observed
<1>9. QED
  BY <1>7, <1>8

\* A report above the mark becomes the mark, and what is observed if accepted.
LEMMA NewerState ==
  ASSUME NEW trusted, NEW row, NEW new, NEW next,
         Coordinated(trusted \cup {new}), Followed(trusted, row), Observed(trusted, row),
         row.mark \in Nat \X Nat, Before(row.mark, CoordinateOf(new.report)),
         next.mark = CoordinateOf(new.report), next.state = StateDigest(new.report),
         next.observed = IF new.verdict = "accepted" THEN new.report ELSE row.observed
  PROVE  Followed(trusted \cup {new}, next) /\ Observed(trusted \cup {new}, next)
<1>1. /\ next.mark \in Nat \X Nat /\ next.mark # NoCoordinate
      /\ \A c \in trusted : CoordinateOf(c.report) \in Nat \X Nat
  BY CoordinatesAreNumbers DEF Coordinated
<1>2. ~Before(next.mark, next.mark)
  BY <1>1, BeforeIsAnOrder
<1>3. \A c \in trusted : /\ ~Before(next.mark, CoordinateOf(c.report))
                         /\ next.mark # CoordinateOf(c.report)
  BY <1>1, BeforeIsAnOrder DEF Followed
<1>4. Followed(trusted \cup {new}, next)
  BY <1>1, <1>2, <1>3 DEF Followed
<1>5. CASE new.verdict = "accepted"
  <2>1. AcceptedOf(trusted \cup {new}) = AcceptedOf(trusted) \cup {new}
        /\ AcceptedOf(trusted) \subseteq trusted
    BY <1>5 DEF AcceptedOf
  <2>2. Observed(trusted \cup {new}, next)
    BY <1>2, <1>3, <1>5, <2>1 DEF Observed
  <2>3. QED
    BY <1>4, <2>2
<1>6. CASE new.verdict # "accepted"
  <2>1. AcceptedOf(trusted \cup {new}) = AcceptedOf(trusted)
    BY <1>6 DEF AcceptedOf
  <2>2. QED
    BY <1>4, <1>6, <2>1 DEF Observed
<1>7. QED
  BY <1>5, <1>6

\* What Decide leaves of one target, by what it found.
LEMMA DecideOutcome ==
  ASSUME TypeInv, NEW o \in observing, Decide(o),
         NEW t \in Targets
  PROVE  LET found == Disposition(t, o.report, o.at)
             new == [target |-> t, report |-> o.report, receivedAt |-> o.at,
                     verdict |-> Placed(t, o.report, found)]
         IN \/ /\ UNCHANGED projection[t]
               /\ Trusted(t)' = Trusted(t)
            \/ /\ found \in TrustedDispositions /\ new.verdict = found
               /\ CoordinateOf(o.report) \in Coordinates
               /\ found = "accepted" <=> o.report.outcome # "failed"
               /\ Trusted(t)' = Trusted(t) \cup {new}
               /\ projection'[t] = Projected(t, o.report, found)
               /\ \/ CoordinateOf(o.report) = projection[t].mark
                     /\ projection[t].state = StateDigest(o.report)
                  \/ Before(projection[t].mark, CoordinateOf(o.report))
<1> DEFINE r == o.report
           home == credential[r.key].target
           found == Disposition(home, r, o.at)
           placed == Placed(home, r, found)
           new == [target |-> home, report |-> r, receivedAt |-> o.at, verdict |-> placed]
<1>1. r \in Reports
  BY DEF TypeInv, TypeOK
<1>2. home \in Targets
  BY <1>1, ObservationInputs, RowsExist DEF TypeInv, Decide, Proven, CredentialRows
<1>3. projection' = [projection EXCEPT ![home] = Projected(home, r, found)]
      /\ receipts' = receipts \cup {new}
  BY DEF Decide
<1>4. projection \in [Targets -> Projections]
  BY DEF TypeInv, TypeOK
<1>5. CASE t # home
  <2>1. UNCHANGED projection[t]
    BY <1>3, <1>4, <1>5
  <2>2. Trusted(t)' = Trusted(t)
    BY <1>3, <1>5 DEF Trusted
  <2>3. QED
    BY <2>1, <2>2
<1>6. CASE t = home
  <2>1. found \in Verdicts
    BY <1>1, FindingIsVerdict
  <2>2. projection'[t] = Projected(t, r, found)
    BY <1>2, <1>3, <1>4, <1>6
  <2>3. CASE placed \notin TrustedDispositions
    <3>1. Trusted(t)' = Trusted(t)
      BY <1>3, <2>3 DEF Trusted
    <3>2. found \in TrustedDispositions => CoordinateOf(r) \in Coordinates
      BY <1>1, TrustedCoordinate DEF TypeInv
    <3>3. projection[t].mark \in Coordinates \cup {NoCoordinate}
      BY <1>4 DEF Projections
    <3>4. found \in TrustedDispositions => ~Before(projection[t].mark, CoordinateOf(r))
      BY <1>6, <2>3, <3>2, <3>3, CoordinatesAreNumbers, BeforeIsAnOrder DEF Placed
    <3>5. UNCHANGED projection[t]
      BY <1>6, <2>2, <3>4 DEF Projected
    <3>6. QED
      BY <3>1, <3>5
  <2>4. CASE placed \in TrustedDispositions
    <3>1. /\ placed = found
          /\ ~Before(CoordinateOf(r), projection[t].mark)
          /\ CoordinateOf(r) = projection[t].mark => projection[t].state = StateDigest(r)
      BY <1>1, <1>6, <2>1, <2>4, PlacedVerdict
    <3>2. CoordinateOf(r) \in Coordinates /\ (found = "accepted" <=> r.outcome # "failed")
      BY <1>1, <2>4, <3>1, TrustedCoordinate, TrustedFinding DEF TypeInv
    <3>3. projection[t].mark \in Coordinates \cup {NoCoordinate}
      BY <1>4 DEF Projections
    <3>4. CoordinateOf(r) = projection[t].mark \/ Before(projection[t].mark, CoordinateOf(r))
      BY <3>1, <3>2, <3>3, CoordinatesAreNumbers, BeforeIsAnOrder
    <3>5. Trusted(t)' = Trusted(t) \cup {new}
      BY <1>3, <1>6, <2>4 DEF Trusted
    <3>6. QED
      BY <1>6, <2>2, <2>4, <3>1, <3>2, <3>4, <3>5
  <2>5. QED
    BY <2>3, <2>4
<1>7. QED
  BY <1>5, <1>6

\* Every step keeps what the mark says of the trusted receipts.
LEMMA MarkInvStep ==
  ASSUME TypeInv, MarkInv, [Next]_vars
  PROVE  MarkInv'
<1>1. ASSUME NEW o \in observing, Decide(o), NEW t \in Targets
      PROVE  /\ Coordinated(Trusted(t)')
             /\ Followed(Trusted(t)', projection'[t])
             /\ Observed(Trusted(t)', projection'[t])
  <2> DEFINE r == o.report
             found == Disposition(t, r, o.at)
             new == [target |-> t, report |-> r, receivedAt |-> o.at,
                     verdict |-> Placed(t, r, found)]
             mark == projection[t].mark
             coordinate == CoordinateOf(r)
  <2>1. /\ Coordinated(Trusted(t)) /\ Followed(Trusted(t), projection[t])
        /\ Observed(Trusted(t), projection[t])
    BY DEF MarkInv
  <2>2. CASE UNCHANGED projection[t] /\ Trusted(t)' = Trusted(t)
    BY <2>1, <2>2
  <2>3. CASE /\ found \in TrustedDispositions /\ new.verdict = found
             /\ coordinate \in Coordinates
             /\ found = "accepted" <=> r.outcome # "failed"
             /\ Trusted(t)' = Trusted(t) \cup {new}
             /\ projection'[t] = Projected(t, r, found)
             /\ \/ coordinate = mark /\ projection[t].state = StateDigest(r)
                \/ Before(mark, coordinate)
    <3>1. Coordinated(Trusted(t) \cup {new})
      BY <2>1, <2>3 DEF Coordinated
    <3>2. mark \in Nat \X Nat /\ coordinate \in Nat \X Nat
      BY <2>3, CoordinatesAreNumbers DEF TypeInv, TypeOK, Projections
    <3>3. CASE coordinate = mark /\ projection[t].state = StateDigest(r)
      <4>1. UNCHANGED projection[t]
        BY <2>3, <3>2, <3>3, BeforeIsAnOrder DEF Projected
      <4>2. new.report = r
        OBVIOUS
      <4> HIDE DEF new, r
      <4>3. QED
        BY <2>1, <2>3, <3>1, <3>3, <4>1, <4>2, RepeatedState
    <3>4. CASE Before(mark, coordinate)
      <4>1. /\ projection'[t].mark = coordinate
            /\ projection'[t].state = StateDigest(r)
            /\ projection'[t].observed =
                 IF new.verdict = "accepted" THEN r ELSE projection[t].observed
        BY <2>3, <3>4 DEF Projected
      <4>2. new.report = r
        OBVIOUS
      <4> HIDE DEF new, r
      <4>3. QED
        BY <2>1, <2>3, <3>1, <3>2, <3>4, <4>1, <4>2, NewerState
    <3>5. QED
      BY <2>3, <3>3, <3>4
  <2>4. QED
    BY <1>1, <2>2, <2>3, DecideOutcome
<1>2. ASSUME NEW o \in observing, Decide(o)
      PROVE  MarkInv'
  BY <1>1, <1>2 DEF MarkInv
<1>3. CASE UNCHANGED <<projection, receipts>>
  BY <1>3 DEF MarkInv, Trusted
<1>4. QED
  BY <1>2, <1>3 DEF Next, vars, Tick, EnrolCredential, BeginClosing, CommitClosing, RequestRollout,
    DispatchAttempt, BeginRevoking, CommitRevoking, BeginObserving, RejectUnproven, Replay,
    RefuseIneligible

\* The inductive invariant of the projection.
LEMMA MarkInvariant == Spec => [](TypeInv /\ MarkInv)
<1>1. Init => MarkInv
  BY DEF Init, MarkInv, Coordinated, Followed, Observed, AcceptedOf, Trusted
<1>2. TypeInv /\ MarkInv /\ [Next]_vars => MarkInv'
  BY MarkInvStep
<1>3. QED
  BY <1>1, <1>2, TypeInvariant, PTL DEF Spec

\* In whatever order reports arrive, the high-water mark is the newest trusted
\* coordinate and the state kept with it is the one account of it.
THEOREM HighWaterIsRight == Spec => []HighWaterIsNewestTrusted
<1>1. MarkInv => HighWaterIsNewestTrusted
  BY DEF MarkInv, Followed, HighWaterIsNewestTrusted
<1>2. QED
  BY <1>1, MarkInvariant, PTL

\* What a target is seen to run is the newest execution that was accepted.
THEOREM ObservedIsRight == Spec => []ObservedIsNewestAccepted
<1>1. MarkInv => ObservedIsNewestAccepted
  BY DEF MarkInv, Observed, AcceptedOf, Accepted, ObservedIsNewestAccepted
<1>2. QED
  BY <1>1, MarkInvariant, PTL

\* The projection moves forward only, with a new trusted receipt.
THEOREM ProjectionsAdvance == Spec => ProjectionOnlyAdvances
<1> DEFINE Advance ==
      /\ receipts \subseteq receipts' /\ arrivals \subseteq arrivals'
      /\ \A t \in Targets : projection'[t] # projection[t] =>
           /\ Before(projection[t].mark, projection'[t].mark)
           /\ \E c \in receipts' \ receipts :
                /\ c.target = t /\ c.verdict \in TrustedDispositions
                /\ CoordinateOf(c.report) = projection'[t].mark
<1>1. ASSUME TypeInv, MarkInv, NEW o \in observing, Decide(o)
      PROVE  Advance
  <2>1. receipts \subseteq receipts' /\ arrivals \subseteq arrivals'
    BY <1>1 DEF Decide, Arrived
  <2>2. ASSUME NEW t \in Targets, projection'[t] # projection[t]
        PROVE  /\ Before(projection[t].mark, projection'[t].mark)
               /\ \E c \in receipts' \ receipts :
                    /\ c.target = t /\ c.verdict \in TrustedDispositions
                    /\ CoordinateOf(c.report) = projection'[t].mark
    <3> DEFINE r == o.report
               found == Disposition(t, r, o.at)
               new == [target |-> t, report |-> r, receivedAt |-> o.at,
                       verdict |-> Placed(t, r, found)]
    <3>1. /\ found \in TrustedDispositions /\ new.verdict = found
          /\ CoordinateOf(r) \in Coordinates
          /\ Trusted(t)' = Trusted(t) \cup {new}
          /\ projection'[t] = Projected(t, r, found)
      BY <1>1, <2>2, DecideOutcome
    <3>2. Before(projection[t].mark, CoordinateOf(r)) /\ projection'[t].mark = CoordinateOf(r)
      BY <2>2, <3>1 DEF Projected
    <3>3. \A c \in Trusted(t) : ~Before(projection[t].mark, CoordinateOf(c.report))
      BY <1>1 DEF MarkInv, Followed
    <3>4. new \in Trusted(t)' /\ new \notin Trusted(t) /\ new.report = r
      BY <3>1, <3>2, <3>3
    <3>5. new \in receipts' \ receipts /\ new.target = t /\ new.verdict \in TrustedDispositions
      BY <3>4 DEF Trusted
    <3> HIDE DEF new, r
    <3>6. QED
      BY <3>2, <3>4, <3>5
  <2>3. QED
    BY <2>1, <2>2
<1>2. ASSUME TypeInv, MarkInv, [Next]_vars
      PROVE  [Advance]_vars
  <2>1. CASE \E o \in observing : Decide(o)
    BY <1>1, <1>2, <2>1
  <2>2. CASE UNCHANGED <<projection, receipts>> /\ arrivals \subseteq arrivals'
    BY <2>2
  <2>3. QED
    BY <1>2, <2>1, <2>2 DEF Next, vars, Tick, EnrolCredential, BeginClosing, CommitClosing,
      RequestRollout, DispatchAttempt, BeginRevoking, CommitRevoking, BeginObserving,
      RejectUnproven, Replay, RefuseIneligible, Arrived
<1>3. QED
  BY <1>2, MarkInvariant, PTL DEF Spec, ProjectionOnlyAdvances

-----------------------------------------------------------------------------
(***************************************************************************)
(* Receipts.                                                               *)
(***************************************************************************)

\* One decision of record_observation adds exactly its receipt and its arrival.
LEMMA DecideRecords ==
  ASSUME TypeInv, NEW o \in observing, Decide(o)
  PROVE  LET t == credential[o.report.key].target
             found == Disposition(t, o.report, o.at)
             placed == Placed(t, o.report, found)
         IN /\ o.report \in Reports /\ o.report.key \in Keys /\ t \in Targets
            /\ credential[o.report.key] # NoCredential
            /\ Eligible(credential[o.report.key], o.at)
            /\ placed \in Verdicts
            /\ placed \in TrustedDispositions => placed = found
            /\ \A c \in receipts : ~(c.target = t /\ c.report.id = o.report.id)
            /\ receipts' = receipts \cup
                 {[target |-> t, report |-> o.report, receivedAt |-> o.at, verdict |-> placed]}
            /\ arrivals' = arrivals \cup {[report |-> o.report, disposition |-> placed]}
            /\ UNCHANGED <<credential, rollouts>>
<1> DEFINE t == credential[o.report.key].target
           found == Disposition(t, o.report, o.at)
<1>1. o.report \in Reports /\ o.report.key \in Keys
  BY ObservationInputs DEF TypeInv, TypeOK
<1>2. credential[o.report.key] # NoCredential
  BY DEF Decide, Proven
<1>3. t \in Targets
  BY <1>1, <1>2, RowsExist DEF TypeInv, CredentialRows
<1>4. found \in Verdicts
  BY <1>1, FindingIsVerdict
<1>5. /\ Placed(t, o.report, found) \in Verdicts
      /\ Placed(t, o.report, found) \in TrustedDispositions => Placed(t, o.report, found) = found
  BY <1>1, <1>4, PlacedVerdict
<1>6. \A c \in receipts : ~(c.target = t /\ c.report.id = o.report.id)
  BY DEF Decide, ReceiptsOf
<1>7. QED
  BY <1>1, <1>2, <1>3, <1>5, <1>6 DEF Decide, Arrived

\* A report id is decided once for a target, and every answer agrees with it.
THEOREM DecisionsStand == Spec => []DecidedOnce
<1>1. Init => DecidedOnce
  BY DEF Init, DecidedOnce
<1>2. ASSUME TypeInv, DecidedOnce, NEW o \in observing, Decide(o)
      PROVE  DecidedOnce'
  <2> DEFINE t == credential[o.report.key].target
             placed == Placed(t, o.report, Disposition(t, o.report, o.at))
             new == [target |-> t, report |-> o.report, receivedAt |-> o.at, verdict |-> placed]
  <2>1. /\ placed \in Verdicts
        /\ \A c \in receipts : ~(c.target = t /\ c.report.id = o.report.id)
        /\ receipts' = receipts \cup {new}
        /\ arrivals' = arrivals \cup {[report |-> o.report, disposition |-> placed]}
    BY <1>2, DecideRecords
  <2> HIDE DEF placed, t
  <2>2. \A c, d \in receipts' : c.target = d.target /\ c.report.id = d.report.id => c = d
    BY <1>2, <2>1 DEF DecidedOnce
  <2>3. placed # "idempotent_replay" /\ placed # "conflict"
    BY <2>1 DEF Verdicts, TrustedDispositions, BindingDispositions
  <2>4. new \in receipts' /\ new.report = o.report /\ new.verdict = placed
    BY <2>1
  <2> HIDE DEF new
  <2>5. ASSUME NEW v \in arrivals'
        PROVE  /\ v.disposition \in Verdicts =>
                    \E c \in receipts' : c.report = v.report /\ c.verdict = v.disposition
               /\ v.disposition = "idempotent_replay" =>
                    \E c \in receipts' : c.report = v.report
               /\ v.disposition = "conflict" =>
                    \E c \in receipts' : c.report.id = v.report.id /\ c.report # v.report
    <3>1. CASE v \in arrivals
      BY <1>2, <2>1, <3>1 DEF DecidedOnce
    <3>2. CASE v = [report |-> o.report, disposition |-> placed]
      BY <2>3, <2>4, <3>2
    <3>3. QED
      BY <2>1, <2>5, <3>1, <3>2
  <2>6. QED
    BY <2>2, <2>5 DEF DecidedOnce
<1>3. ASSUME TypeInv, DecidedOnce, NEW o \in observing,
             RejectUnproven(o) \/ Replay(o) \/ RefuseIneligible(o)
      PROVE  DecidedOnce'
  <2>1. UNCHANGED receipts
    BY <1>3 DEF RejectUnproven, Replay, RefuseIneligible
  <2>2. PICK d : /\ arrivals' = arrivals \cup {[report |-> o.report, disposition |-> d]}
                 /\ d \notin Verdicts
                 /\ d = "idempotent_replay" => \E c \in receipts : c.report = o.report
                 /\ d = "conflict" =>
                      \E c \in receipts : c.report.id = o.report.id /\ c.report # o.report
    <3>1. CASE RejectUnproven(o)
      BY <3>1 DEF RejectUnproven, Arrived, Verdicts, TrustedDispositions, BindingDispositions
    <3>2. CASE RefuseIneligible(o)
      BY <3>2 DEF RefuseIneligible, Arrived, Verdicts, TrustedDispositions, BindingDispositions
    <3>3. CASE Replay(o)
      BY <3>3 DEF Replay, ReceiptsOf, Arrived, Verdicts, TrustedDispositions, BindingDispositions
    <3>4. QED
      BY <1>3, <3>1, <3>2, <3>3
  <2>3. QED
    BY <1>3, <2>1, <2>2 DEF DecidedOnce
<1>4. ASSUME DecidedOnce, UNCHANGED <<receipts, arrivals>>
      PROVE  DecidedOnce'
  BY <1>4 DEF DecidedOnce
<1>5. TypeInv /\ DecidedOnce /\ [Next]_vars => DecidedOnce'
  BY <1>2, <1>3, <1>4 DEF Next, vars, Tick, EnrolCredential, BeginClosing, CommitClosing,
    RequestRollout, DispatchAttempt, BeginRevoking, CommitRevoking, BeginObserving
<1>6. QED
  BY <1>1, <1>5, TypeInvariant, PTL DEF Spec

\* Nothing that arrived at or after a revocation already committed is believed.
THEOREM RevocationsStopAdmission == Spec => RevocationStopsAdmission
<1> DEFINE Stop ==
      \A c \in receipts' \ receipts :
        LET key == credential[c.report.key]
        IN /\ key.revokedAt # None => c.receivedAt < key.revokedAt
           /\ c.verdict \in TrustedDispositions =>
                LET row == rollouts[c.report.authorization]
                IN row.revokedAt # None => c.receivedAt < row.revokedAt
<1>1. ASSUME TypeInv, NEW o \in observing, Decide(o)
      PROVE  Stop
  <2> DEFINE t == credential[o.report.key].target
             found == Disposition(t, o.report, o.at)
             new == [target |-> t, report |-> o.report, receivedAt |-> o.at,
                     verdict |-> Placed(t, o.report, found)]
  <2>1. /\ o.report \in Reports /\ receipts' = receipts \cup {new}
        /\ Eligible(credential[o.report.key], o.at)
        /\ new.verdict \in TrustedDispositions => found \in TrustedDispositions
    BY <1>1, DecideRecords
  <2>2. credential[o.report.key].revokedAt # None => o.at < credential[o.report.key].revokedAt
    BY <2>1 DEF Eligible
  <2>3. found \in TrustedDispositions =>
          LET row == rollouts[o.report.authorization]
          IN row.revokedAt # None => o.at < row.revokedAt
    <3>1. SUFFICES ASSUME found \in TrustedDispositions,
                          rollouts[o.report.authorization].revokedAt # None
                   PROVE  o.at < rollouts[o.report.authorization].revokedAt
      OBVIOUS
    <3>2. /\ Requested(o.report.authorization)
          /\ Standing(rollouts[o.report.authorization], o.at) = "stands"
      BY <2>1, <3>1, TrustedFinding
    <3>3. rollouts[o.report.authorization].revokedAt \in Nat /\ o.at \in Nat
      BY <1>1, <3>1, <3>2, RowsExist, InstantsAreNaturals
         DEF Requested, RolloutViews, TypeInv, TypeOK
    <3>4. QED
      BY <3>1, <3>2, <3>3 DEF Standing
  <2>4. QED
    BY <2>1, <2>2, <2>3
<1>2. ASSUME TypeInv, [Next]_vars
      PROVE  [Stop]_vars
  <2>1. CASE \E o \in observing : Decide(o)
    BY <1>1, <1>2, <2>1
  <2>2. CASE UNCHANGED receipts
    BY <2>2
  <2>3. QED
    BY <1>2, <2>1, <2>2 DEF Next, vars, Tick, EnrolCredential, BeginClosing, CommitClosing,
      RequestRollout, DispatchAttempt, BeginRevoking, CommitRevoking, BeginObserving,
      RejectUnproven, Replay, RefuseIneligible
<1>3. QED
  BY <1>2, TypeInvariant, PTL DEF Spec, RevocationStopsAdmission

-----------------------------------------------------------------------------
(***************************************************************************)
(* Authority.                                                              *)
(***************************************************************************)

\* An activated credential never waits for activation again, and a receipt
\* names a key that is enrolled.
Lifecycle ==
  /\ \A k \in Keys : credential[k] # NoCredential /\ credential[k].activatedAt # None =>
       credential[k].status # "pending"
  /\ \A c \in receipts : credential[c.report.key] # NoCredential

AuthorityInv == Lifecycle /\ TrustedWithinAuthority

\* A command never changes the target of a credential, nor its activation.
LEMMA ActivationStands ==
  ASSUME NEW row \in CredentialRows, NEW command, NEW at \in Instants,
         row.activatedAt # None => row.status # "pending"
  PROVE  LET after == CredentialAfter(command, row, at)
         IN /\ after.target = row.target
            /\ row.activatedAt # None => after.activatedAt = row.activatedAt
            /\ after.activatedAt # None => after.status # "pending"
BY DEF CredentialAfter, CredentialRows

\* What TrustedWithinAuthority reads of a row is kept by every step.
LEMMA RowsStand ==
  ASSUME TypeInv, Lifecycle, [Next]_vars
  PROVE  /\ \A k \in Keys : credential[k] # NoCredential =>
              /\ credential'[k] # NoCredential
              /\ credential'[k].target = credential[k].target
              /\ credential[k].activatedAt # None =>
                   credential'[k].activatedAt = credential[k].activatedAt
         /\ \A k \in Keys : credential'[k] # NoCredential /\ credential'[k].activatedAt # None =>
              credential'[k].status # "pending"
         /\ \A a \in RolloutNames : rollouts[a] # NoRollout =>
              /\ rollouts'[a] # NoRollout
              /\ rollouts'[a].issuedAt = rollouts[a].issuedAt
              /\ rollouts'[a].expiresAt = rollouts[a].expiresAt
              /\ rollouts'[a].attempts \in Nat
              /\ rollouts[a].attempts =< rollouts'[a].attempts
<1> DEFINE CredentialsStand ==
             /\ \A k \in Keys : credential[k] # NoCredential =>
                  /\ credential'[k] # NoCredential
                  /\ credential'[k].target = credential[k].target
                  /\ credential[k].activatedAt # None =>
                       credential'[k].activatedAt = credential[k].activatedAt
             /\ \A k \in Keys :
                  credential'[k] # NoCredential /\ credential'[k].activatedAt # None =>
                    credential'[k].status # "pending"
           RolloutStands(a) ==
             /\ rollouts'[a] # NoRollout
             /\ rollouts'[a].issuedAt = rollouts[a].issuedAt
             /\ rollouts'[a].expiresAt = rollouts[a].expiresAt
             /\ rollouts'[a].attempts \in Nat
             /\ rollouts[a].attempts =< rollouts'[a].attempts
           RolloutsStand == \A a \in RolloutNames : rollouts[a] # NoRollout => RolloutStands(a)
<1>1. UNCHANGED credential => CredentialsStand
  BY DEF Lifecycle
<1>2. \A a \in RolloutNames : rollouts[a] # NoRollout =>
        /\ rollouts[a] \in RolloutViews /\ rollouts[a].attempts \in Nat
        /\ rollouts[a].issuedAt # None
  BY RowsExist, ObservationInputs DEF RolloutViews, TypeInv
<1>3. UNCHANGED rollouts => RolloutsStand
  BY <1>2
<1>4. ASSUME NEW k \in Keys, NEW t \in Targets, EnrolCredential(k, t)
      PROVE  CredentialsStand /\ RolloutsStand
  <2>1. CredentialsStand
    BY <1>4 DEF EnrolCredential, Lifecycle, TypeInv, TypeOK
  <2>2. QED
    BY <1>3, <1>4, <2>1 DEF EnrolCredential
<1>5. ASSUME NEW c \in closing, CommitClosing(c)
      PROVE  CredentialsStand /\ RolloutsStand
  <2>1. /\ c.key \in Keys /\ c.at \in Instants
        /\ credential[c.key] # NoCredential /\ credential[c.key] \in CredentialRows
    BY RowsExist, InstantsAreNaturals DEF TypeInv, TypeOK, Calls
  <2> DEFINE row == credential[c.key]
             after == CredentialAfter(c.command, row, c.at)
  <2>2. /\ after.target = row.target
        /\ row.activatedAt # None => after.activatedAt = row.activatedAt
        /\ after.activatedAt # None => after.status # "pending"
    BY <2>1, ActivationStands DEF Lifecycle
  <2>3. after # NoCredential
    <3>1. after.status # "absent"
      BY <2>1, CredentialAfterTyped
    <3>2. QED
      BY <3>1 DEF NoCredential
  <2>4. credential' = [credential EXCEPT ![c.key] = after]
    BY <1>5 DEF CommitClosing
  <2> HIDE DEF after
  <2>5. CredentialsStand
    BY <2>1, <2>2, <2>3, <2>4 DEF Lifecycle, TypeInv, TypeOK
  <2>6. QED
    BY <1>3, <1>5, <2>5 DEF CommitClosing
<1>6. ASSUME NEW a \in RolloutNames, NEW expires \in Lifetimes, RequestRollout(a, expires)
      PROVE  CredentialsStand /\ RolloutsStand
  <2>1. RolloutsStand
    BY <1>2, <1>6 DEF RequestRollout, TypeInv, TypeOK
  <2>2. QED
    BY <1>1, <1>6, <2>1 DEF RequestRollout
<1>7. ASSUME NEW a \in RolloutNames, DispatchAttempt(a)
      PROVE  CredentialsStand /\ RolloutsStand
  <2>1. RolloutsStand
    BY <1>2, <1>7 DEF DispatchAttempt, RolloutViews, NoRollout, TypeInv, TypeOK
  <2>2. QED
    BY <1>1, <1>7, <2>1 DEF DispatchAttempt
<1>8. ASSUME NEW c \in revoking, CommitRevoking(c)
      PROVE  CredentialsStand /\ RolloutsStand
  <2>1. RolloutsStand
    BY <1>2, <1>8 DEF CommitRevoking, RolloutViews, NoRollout, TypeInv, TypeOK
  <2>2. QED
    BY <1>1, <1>8, <2>1 DEF CommitRevoking
<1>9. ASSUME UNCHANGED <<credential, rollouts>>
      PROVE  CredentialsStand /\ RolloutsStand
  BY <1>1, <1>3, <1>9
<1>10. \/ \E k \in Keys : \E t \in Targets : EnrolCredential(k, t)
       \/ \E c \in closing : CommitClosing(c)
       \/ \E a \in RolloutNames :
            (\E expires \in Lifetimes : RequestRollout(a, expires)) \/ DispatchAttempt(a)
       \/ \E c \in revoking : CommitRevoking(c)
       \/ UNCHANGED <<credential, rollouts>>
  <2> USE DEF BeginClosing, BeginRevoking, BeginObserving, Tick, RejectUnproven, Replay,
        RefuseIneligible, Decide, Arrived
  <2>1. CASE Next
    BY <2>1 DEF Next
  <2>2. CASE UNCHANGED vars
    BY <2>2 DEF vars
  <2>3. QED
    BY <2>1, <2>2
<1> HIDE DEF CredentialsStand, RolloutsStand
<1>11. CredentialsStand /\ RolloutsStand
  BY <1>4, <1>5, <1>6, <1>7, <1>8, <1>9, <1>10
<1>12. QED
  BY <1>11 DEF CredentialsStand, RolloutsStand

\* A report is believed only within the authority it carries.
THEOREM TrustHasAuthority == Spec => []TrustedWithinAuthority
<1>1. Init => AuthorityInv
  BY DEF Init, AuthorityInv, Lifecycle, TrustedWithinAuthority, Trusted
<1>2. ASSUME TypeInv, AuthorityInv, [Next]_vars
      PROVE  Lifecycle'
  <2>1. \A c \in receipts' : c.report.key \in Keys /\ credential[c.report.key] # NoCredential
    <3>1. \A c \in receipts : c.report.key \in Keys /\ credential[c.report.key] # NoCredential
      BY <1>2, ObservationInputs DEF AuthorityInv, Lifecycle, TypeInv, TypeOK, ReceiptRows
    <3>2. CASE \E o \in observing : Decide(o)
      BY <1>2, <3>1, <3>2, DecideRecords
    <3>3. CASE UNCHANGED receipts
      BY <3>1, <3>3
    <3>4. QED
      BY <1>2, <3>2, <3>3 DEF Next, vars, Tick, EnrolCredential, BeginClosing, CommitClosing,
        RequestRollout, DispatchAttempt, BeginRevoking, CommitRevoking, BeginObserving,
        RejectUnproven, Replay, RefuseIneligible
  <2>2. QED
    BY <1>2, <2>1, RowsStand DEF AuthorityInv, Lifecycle
<1>3. ASSUME TypeInv, TrustedWithinAuthority, NEW o \in observing, Decide(o)
      PROVE  TrustedWithinAuthority'
  <2> DEFINE target == credential[o.report.key].target
             found == Disposition(target, o.report, o.at)
             placed == Placed(target, o.report, found)
             new == [target |-> target, report |-> o.report, receivedAt |-> o.at,
                     verdict |-> placed]
  <2>1. /\ o.report \in Reports
        /\ Eligible(credential[o.report.key], o.at)
        /\ placed \in TrustedDispositions => placed = found
        /\ receipts' = receipts \cup {new}
        /\ UNCHANGED <<credential, rollouts>>
    BY <1>3, DecideRecords
  <2> DEFINE Within(t, c) ==
               LET row == rollouts[c.report.authorization]
                   key == credential[c.report.key]
               IN /\ Requested(c.report.authorization) /\ c.report.authorization[1] = t
                  /\ c.report.attempt =< row.attempts
                  /\ row.issuedAt =< c.receivedAt /\ c.receivedAt < row.expiresAt
                  /\ key.target = t /\ key.activatedAt # None
                  /\ key.activatedAt =< c.receivedAt
  <2>2. ASSUME placed \in TrustedDispositions
        PROVE  Within(target, new)
    <3> DEFINE row == rollouts[o.report.authorization]
    <3>1. /\ Requested(o.report.authorization) /\ o.report.authorization[1] = target
          /\ ~(o.report.attempt > row.attempts)
          /\ Standing(row, o.at) = "stands"
      BY <2>1, <2>2, TrustedFinding
    <3>2. /\ row.issuedAt \in Nat /\ row.expiresAt \in Nat /\ row.attempts \in Nat
          /\ o.report.attempt \in Nat /\ o.at \in Nat
      <4>1. row \in RolloutViews
        BY <1>3, <3>1, RowsExist DEF Requested, TypeInv
      <4>2. row.issuedAt \in Nat /\ row.expiresAt \in Nat /\ row.attempts \in Nat
        BY <4>1, RolloutNumbers
      <4>3. o.at \in Nat
        BY <1>3, InstantsAreNaturals DEF TypeInv, TypeOK
      <4>4. o.report.attempt \in Nat
        BY <2>1, ObservationInputs
      <4>5. QED
        BY <4>2, <4>3, <4>4
    <3>3. ~(o.at < row.issuedAt) /\ ~(o.at >= row.expiresAt)
      BY <3>1 DEF Standing
    <3>4. QED
      BY <2>1, <3>1, <3>2, <3>3 DEF Eligible
  <2>3. \A t \in Targets : \A c \in Trusted(t) : Within(t, c)
    BY <1>3 DEF TrustedWithinAuthority
  <2>4. new.target = target /\ new.verdict = placed
    OBVIOUS
  <2> HIDE DEF placed, new, Within
  <2>5. \A t \in Targets : \A c \in Trusted(t)' : Within(t, c)
    BY <2>1, <2>2, <2>3, <2>4 DEF Trusted
  <2>6. \A t \in Targets : \A c \in Trusted(t)' : Within(t, c)'
    BY <2>1, <2>5 DEF Within, Requested
  <2>7. QED
    BY <2>6 DEF TrustedWithinAuthority, Within
<1>4. ASSUME TypeInv, AuthorityInv, [Next]_vars, UNCHANGED receipts
      PROVE  TrustedWithinAuthority'
  <2> SUFFICES ASSUME NEW t \in Targets, NEW c \in Trusted(t)'
               PROVE  LET row == rollouts'[c.report.authorization]
                          key == credential'[c.report.key]
                      IN /\ Requested(c.report.authorization)'
                         /\ c.report.authorization[1] = t
                         /\ c.report.attempt =< row.attempts
                         /\ row.issuedAt =< c.receivedAt /\ c.receivedAt < row.expiresAt
                         /\ key.target = t /\ key.activatedAt # None
                         /\ key.activatedAt =< c.receivedAt
    BY DEF TrustedWithinAuthority
  <2> DEFINE a == c.report.authorization
             k == c.report.key
  <2>1. c \in Trusted(t) /\ c \in receipts
    BY <1>4 DEF Trusted
  <2>2. c.report \in Reports /\ k \in Keys /\ c.report.attempt \in Nat
    BY <1>4, <2>1, ObservationInputs DEF TypeInv, TypeOK, ReceiptRows
  <2>3. /\ a \in RolloutNames /\ rollouts[a] # NoRollout /\ a[1] = t
        /\ c.report.attempt =< rollouts[a].attempts
        /\ rollouts[a].issuedAt =< c.receivedAt /\ c.receivedAt < rollouts[a].expiresAt
        /\ credential[k].target = t /\ credential[k].activatedAt # None
        /\ credential[k].activatedAt =< c.receivedAt
        /\ credential[k] # NoCredential
    BY <1>4, <2>1 DEF AuthorityInv, TrustedWithinAuthority, Lifecycle, Requested
  <2>4. /\ rollouts'[a] # NoRollout
        /\ rollouts'[a].issuedAt = rollouts[a].issuedAt
        /\ rollouts'[a].expiresAt = rollouts[a].expiresAt
        /\ rollouts'[a].attempts \in Nat
        /\ rollouts[a].attempts =< rollouts'[a].attempts
        /\ credential'[k].target = credential[k].target
        /\ credential'[k].activatedAt = credential[k].activatedAt
    BY <1>4, <2>2, <2>3, RowsStand DEF AuthorityInv
  <2>5. rollouts[a].attempts \in Nat
    BY <1>4, <2>3, RowsExist, ObservationInputs DEF RolloutViews, TypeInv
  <2>6. c.report.attempt =< rollouts'[a].attempts
    BY <2>2, <2>3, <2>4, <2>5
  <2>7. QED
    BY <2>3, <2>4, <2>6 DEF Requested
<1>5. TypeInv /\ AuthorityInv /\ [Next]_vars => AuthorityInv'
  <2> SUFFICES ASSUME TypeInv, AuthorityInv, [Next]_vars
               PROVE  AuthorityInv'
    OBVIOUS
  <2>1. CASE \E o \in observing : Decide(o)
    BY <1>2, <1>3, <2>1 DEF AuthorityInv
  <2>2. CASE UNCHANGED receipts
    BY <1>2, <1>4, <2>2 DEF AuthorityInv
  <2>3. QED
    BY <2>1, <2>2 DEF Next, vars, Tick, EnrolCredential, BeginClosing, CommitClosing,
      RequestRollout, DispatchAttempt, BeginRevoking, CommitRevoking, BeginObserving,
      RejectUnproven, Replay, RefuseIneligible
<1>6. AuthorityInv => TrustedWithinAuthority
  BY DEF AuthorityInv
<1>7. QED
  BY <1>1, <1>5, <1>6, TypeInvariant, PTL DEF Spec
=============================================================================
