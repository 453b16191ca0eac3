---------------------------- MODULE AnswersProofs ----------------------------
(***************************************************************************)
(* What Control answers holds for every value of the constants: an         *)
(* authorization that is accepted was earned from both parties, a recovery *)
(* that reads as valid was authorized at an instant of the call, a         *)
(* rehearsal runs evidenced bytes once, drift follows the target, and a    *)
(* walk over the pages of a fleet pays for each change with one target     *)
(* missed and one repeated at most.  Each component has its inductive      *)
(* invariant; the last section composes them.                              *)
(***************************************************************************)
EXTENDS Answers, FiniteSetTheorems, TLAPS

-----------------------------------------------------------------------------
(***************************************************************************)
(* Authorizations over health evidence.                                    *)
(***************************************************************************)
\* What Control checked before it signed a statement.
Earned(s) ==
    LET t == s.terms
    IN  /\ t.evidence \in healthSigned
        /\ t.evidence.components = t.roster
        /\ t.evaluated = t.evidence.evaluated
        /\ t.until = t.evidence.until
        /\ t.roster # {}
        /\ t.expires <= t.until

\* What an acceptance stands on; the signatures stay once they are made.
AcceptedOnTerms ==
    Accepted =>
        LET t == answer.statement.terms
        IN  /\ answer.statement \in signed
            /\ t.evaluated <= answer.at
            /\ answer.at < t.expires
            /\ t.subject = answer.subject
            /\ answer.supplied \in {None, t.evidence}

HealthInv == TypeOK /\ (\A s \in signed : Earned(s)) /\ AcceptedOnTerms

-----------------------------------------------------------------------------
LEMMA ParsedTerms ==
    ASSUME NEW t, ParseRefusal(t) = None
    PROVE  t.roster # {} /\ ~(t.expires > t.until)
BY HealthAuthorizationAssumption DEF ParseRefusal

LEMMA CarriedIsStatement ==
    ASSUME NEW s \in Statement, NEW c \in Carried(s)
    PROVE  c \in Statement
BY DEF Carried, Statement, Terms

\* The last answer of the verifier's order is given only when every refusal
\* before it failed.
LEMMA AcceptanceChecks ==
    ASSUME NEW s, NEW subject, NEW supplied, NEW at,
           Verdict(s, subject, supplied, at) = "accepted"
    PROVE  /\ s \in signed
           /\ ~(s.terms.evaluated > at)
           /\ ~(at >= s.terms.expires)
           /\ s.terms.subject = subject
           /\ supplied # None => supplied = s.terms.evidence
<1> DEFINE t == s.terms
<1>1. ParseRefusal(t) = None
    BY DEF Verdict, ParseRefusal
<1> QED BY <1>1 DEF Verdict

LEMMA VerdictIsCode ==
    ASSUME NEW s, NEW subject, NEW supplied, NEW at
    PROVE  Verdict(s, subject, supplied, at) \in Codes
<1>1. ParseRefusal(s.terms) \in {None, "malformed", "evidence_window_exceeded"}
    BY DEF ParseRefusal
<1> QED BY <1>1 DEF Verdict, Codes

-----------------------------------------------------------------------------
LEMMA HealthInitially == Init => HealthInv
BY DEF Init, HealthInv, TypeOK, AcceptedOnTerms, Accepted

LEMMA SignEvidenceStep ==
    ASSUME HealthInv, NEW e \in Evidence, SignEvidence(e)
    PROVE  HealthInv'
<1>1. TypeOK'
    BY DEF SignEvidence, HealthInv, TypeOK
<1>2. \A s \in signed' : Earned(s)'
    BY DEF SignEvidence, HealthInv, Earned
<1>3. AcceptedOnTerms'
    BY DEF SignEvidence, HealthInv, AcceptedOnTerms, Accepted
<1> QED BY <1>1, <1>2, <1>3 DEF HealthInv

LEMMA IssueStep ==
    ASSUME HealthInv, NEW e \in Evidence, NEW roster \in SUBSET Components,
           NEW t \in Terms, Issue(e, roster, t)
    PROVE  HealthInv'
<1> DEFINE s == [terms |-> t, digest |-> t]
<1>1. s \in Statement /\ s.terms = t
    BY DEF Statement
<1>2. signed' = signed \cup {s} /\ UNCHANGED <<healthSigned, answer>>
    BY DEF Issue
<1>3. TypeOK'
    BY <1>1, <1>2 DEF HealthInv, TypeOK
<1>4. Earned(s)'
    <2>1. t.evidence = e /\ t.roster = roster /\ t.evaluated = e.evaluated
            /\ t.until = e.until /\ e \in healthSigned /\ e.components = roster
        BY DEF Issue, Binds
    <2>2. t.roster # {} /\ ~(t.expires > t.until)
        BY ParsedTerms DEF Issue
    <2>3. t.expires <= t.until
        BY <2>2, HealthAuthorizationAssumption DEF Terms, Instants
    <2> QED BY <1>1, <1>2, <2>1, <2>2, <2>3 DEF Earned
<1>5. \A u \in signed' : Earned(u)'
    BY <1>2, <1>4 DEF HealthInv, Earned
<1>6. AcceptedOnTerms'
    BY <1>2 DEF HealthInv, AcceptedOnTerms, Accepted
<1> QED BY <1>3, <1>5, <1>6 DEF HealthInv

LEMMA PresentStep ==
    ASSUME HealthInv, NEW s \in Statement, NEW subject \in Subjects,
           NEW supplied \in Evidence \cup {None}, NEW at \in Instants,
           Present(s, subject, supplied, at)
    PROVE  HealthInv'
<1>1. UNCHANGED <<healthSigned, signed>>
    BY DEF Present
<1> DEFINE code == Verdict(s, subject, supplied, at)
           a == [statement |-> s, subject |-> subject, supplied |-> supplied,
                 at |-> at, code |-> code]
<1>2. answer' = a
    BY DEF Present
<1>3. TypeOK'
    <2>1. code \in Codes
        BY VerdictIsCode
    <2> HIDE DEF code
    <2>2. a \in Answer
        BY <2>1 DEF Answer
    <2> QED BY <1>1, <1>2, <2>2 DEF HealthInv, TypeOK
<1>4. \A u \in signed' : Earned(u)'
    BY <1>1 DEF HealthInv, Earned
<1>5. AcceptedOnTerms'
    <2> HIDE DEF code
    <2>1. CASE code = "accepted"
        <3>1. /\ s \in signed
              /\ ~(s.terms.evaluated > at) /\ ~(at >= s.terms.expires)
              /\ s.terms.subject = subject
              /\ supplied # None => supplied = s.terms.evidence
            BY <2>1, AcceptanceChecks DEF code
        <3>2. s.terms.evaluated \in Nat /\ s.terms.expires \in Nat /\ at \in Nat
            BY HealthAuthorizationAssumption DEF Statement, Terms, Instants
        <3> QED BY <1>1, <1>2, <3>1, <3>2 DEF AcceptedOnTerms
    <2>2. CASE code # "accepted"
        BY <1>2, <2>2 DEF AcceptedOnTerms, Accepted
    <2> QED BY <2>1, <2>2
<1> QED BY <1>3, <1>4, <1>5 DEF HealthInv

LEMMA HealthStep == HealthInv /\ [Next]_vars => HealthInv'
<1> SUFFICES ASSUME HealthInv, [Next]_vars PROVE HealthInv'
    OBVIOUS
<1>1. ASSUME NEW e \in Evidence, Issuance(e)
      PROVE  HealthInv'
    <2>1. PICK roster \in SUBSET Components, x \in Subjects, a \in Approvals,
               issued \in Instants, expires \in Instants :
            Issue(e, roster, [subject |-> x, approval |-> a, evidence |-> e,
                              roster |-> roster, evaluated |-> e.evaluated,
                              until |-> e.until, issued |-> issued,
                              expires |-> expires])
        BY <1>1 DEF Issuance
    <2>2. [subject |-> x, approval |-> a, evidence |-> e, roster |-> roster,
           evaluated |-> e.evaluated, until |-> e.until, issued |-> issued,
           expires |-> expires] \in Terms
        BY DEF Terms, Evidence
    <2> QED BY <2>1, <2>2, IssueStep
<1>2. ASSUME NEW s \in signed, Presentation(s)
      PROVE  HealthInv'
    <2>1. PICK c \in Carried(s), x \in Subjects, supplied \in Beside(s),
               at \in Instants : Present(c, x, supplied, at)
        BY <1>2 DEF Presentation
    <2>2. s \in Statement
        BY <1>2 DEF HealthInv, TypeOK
    <2>3. c \in Statement
        BY <2>2, CarriedIsStatement
    <2>4. supplied \in Evidence \cup {None}
        BY <2>2 DEF Beside, Statement, Terms, Evidence
    <2> QED BY <2>1, <2>3, <2>4, PresentStep
<1>3. CASE UNCHANGED vars
    BY <1>3 DEF vars, HealthInv, TypeOK, Earned, AcceptedOnTerms, Accepted
<1> QED BY <1>1, <1>2, <1>3, SignEvidenceStep DEF Next

-----------------------------------------------------------------------------
(***************************************************************************)
(* Recovery grants.                                                        *)
(***************************************************************************)
SignedDocuments == [statement: Recovery!Statements, signature: Recovery!Signatures]
GrantRows == [envelope: SignedDocuments, revoked: BOOLEAN]

\* Rows are those of their grants.
RowsInv ==
  /\ grantClock \in 0..MaxGrantClock
  /\ row \in [RecoveryIds -> GrantRows \cup {Recovery!NoRow}]
  /\ \A g \in Recovery!Stored : row[g].envelope.statement.grant = g

\* A document that authorizes the recovery of the subject at the instant, unless
\* its grant was withdrawn.
Grants(document, subject, at) ==
  LET s == document.statement
  IN /\ document.signature = [over |-> s, key |-> "recovery"]
     /\ s.schema = "recovery_grant"
     /\ s.decision = "granted"
     /\ s.window.from <= at /\ at < s.window.until
     /\ s.subject = subject

\* A call under way holds the document of a row that is there.  Once it has its
\* clock, a document that grants what is asked, and is not withdrawn yet, did so
\* at an instant of the call: the one the clock was read at.
CallInv ==
  /\ reader.step = "row" =>
       reader \in [step: {"row"}, subject: Recoveries, envelope: SignedDocuments]
  /\ reader.step = "clock" =>
       reader \in [step: {"clock"}, subject: Recoveries, envelope: SignedDocuments,
                   at: 0..MaxGrantClock]
  /\ reader.step \in {"row", "clock"} =>
       LET g == reader.envelope.statement.grant
       IN /\ g \in Recovery!Stored /\ row[g].envelope = reader.envelope
          /\ reader.step = "clock" /\ ~row[g].revoked
               /\ Grants(reader.envelope, reader.subject, reader.at) => truth

\* What was answered.
AnswerInv ==
  /\ reader.step \in {"idle", "row", "clock", "answered"}
  /\ reader.step = "answered" =>
       /\ reader.standing \in Recovery!Standings
       /\ reader.refusal \in Recovery!Refusals
       /\ reader.standing \in {"valid", "absent"} <=> reader.refusal = "none"
       /\ reader.standing = "valid" => truth
       /\ reader.refusal \notin Recovery!AuthenticityRefusals \cup {"none"} =>
            reader.envelope.signature =
              [over |-> Recovery!Parsed(reader.envelope.statement), key |-> "recovery"]

RecoveryInv == truth \in BOOLEAN /\ RowsInv /\ CallInv /\ AnswerInv

LEMMA GrantClockBound == MaxGrantClock \in Nat
BY AnswersInputs DEF Recovery!GrantInputs

LEMMA NoRowIsNoRow == Recovery!NoRow \notin GrantRows
BY DEF Recovery!NoRow, GrantRows

LEMMA StoredIsRow ==
  ASSUME RowsInv, NEW g \in Recovery!Stored
  PROVE  g \in RecoveryIds /\ row[g] \in GrantRows
BY DEF RowsInv, Recovery!Stored

\* Of the terms that differ there is a first one.
LEMMA FirstTermIsTerm ==
  ASSUME NEW ks \in SUBSET Recovery!Terms, ks # {}
  PROVE  Recovery!FirstTerm(ks) \in Recovery!Terms
<1> DEFINE First(k) == k \in ks /\ \A l \in ks : Recovery!TermOrder[k] <= Recovery!TermOrder[l]
<1>1. \E k \in ks : First(k)
  <2> USE DEF Recovery!Terms, Recovery!TermOrder
  <2>1. CASE "product_code" \in ks
    <3>1. First("product_code")
      BY <2>1
    <3> QED BY <2>1, <3>1
  <2>7. CASE "product_code" \notin ks /\ "discriminator" \in ks
    <3>1. First("discriminator")
      BY <2>7
    <3> QED BY <2>7, <3>1
  <2>2. CASE ks \cap {"product_code", "discriminator"} = {} /\ "target" \in ks
    <3>1. First("target")
      BY <2>2
    <3> QED BY <2>2, <3>1
  <2>3. CASE /\ ks \cap {"product_code", "discriminator", "target"} = {}
             /\ "environment" \in ks
    <3>1. First("environment")
      BY <2>3
    <3> QED BY <2>3, <3>1
  <2>4. CASE /\ ks \cap {"product_code", "discriminator", "target", "environment"} = {}
             /\ "recovery_plan" \in ks
    <3>1. First("recovery_plan")
      BY <2>4
    <3> QED BY <2>4, <3>1
  <2>5. CASE ks \subseteq {"bundle", "prestate"} /\ "bundle" \in ks
    <3>1. First("bundle")
      BY <2>5
    <3> QED BY <2>5, <3>1
  <2>6. CASE ks = {"prestate"}
    BY <2>6
  <2> QED BY <2>1, <2>2, <2>3, <2>4, <2>5, <2>6, <2>7
<1>2. Recovery!FirstTerm(ks) \in ks
  BY <1>1 DEF Recovery!FirstTerm
<1> QED BY <1>2

\* What verify_recovery_grant says, and when it says nothing.
LEMMA RefusalSays ==
  ASSUME NEW e \in SignedDocuments, NEW subject \in Recoveries,
         NEW at \in 0..MaxGrantClock, NEW withdrawn
  PROVE  LET refusal == Recovery!Refusal(e, subject, at, withdrawn)
         IN /\ refusal \in Recovery!Refusals
            /\ refusal \notin Recovery!AuthenticityRefusals \cup {"none"} =>
                 e.signature = [over |-> Recovery!Parsed(e.statement), key |-> "recovery"]
            /\ refusal = "none" =>
                 /\ Grants(e, subject, at)
                 /\ e.statement.grant \notin withdrawn
<1> DEFINE s == Recovery!Parsed(e.statement)
           refusal == Recovery!Refusal(e, subject, at, withdrawn)
           differing == Recovery!Differing(s.subject, subject)
<1>1. e.statement \in Recovery!Statements
  BY DEF SignedDocuments
<1>2. /\ s.schema = e.statement.schema /\ s.grant = e.statement.grant
      /\ s.window = e.statement.window /\ s.decision = e.statement.decision
      /\ s.subject = [e.statement.subject EXCEPT !.discriminator =
           IF e.statement.subject.discriminator = AbsentKey THEN ""
           ELSE e.statement.subject.discriminator]
  BY <1>1 DEF Recovery!Parsed, Recovery!Statements
<1>3. differing # {} => Recovery!FirstTerm(differing) \in Recovery!Terms
  <2>1. differing \in SUBSET Recovery!Terms
    BY DEF Recovery!Differing
  <2> HIDE DEF differing
  <2> QED BY <2>1, FirstTermIsTerm
<1> DEFINE first == Recovery!Mismatch(Recovery!FirstTerm(differing))
<1>8. differing # {} => first \in Recovery!Refusals \ {"none"}
  <2> HIDE DEF differing
  <2> QED BY <1>3 DEF Recovery!Mismatch, Recovery!Refusals, Recovery!Terms
<1>4. refusal =
        IF s.schema # "recovery_grant" THEN "schema_mismatch"
        ELSE IF ~Recovery!WellFormed(s) THEN "malformed"
        ELSE IF ~Recovery!Verifies(e) THEN "signature_invalid"
        ELSE IF at < s.window.from THEN "not_yet_valid"
        ELSE IF at >= s.window.until THEN "expired"
        ELSE IF s.grant \in withdrawn THEN "revoked"
        ELSE IF s.decision # "granted" THEN "approval_not_standing"
        ELSE IF s.subject.discriminator = "" THEN "prestate_undiscriminated"
        ELSE IF s.subject.discriminator # Recovery!Discriminator
          THEN "prestate_unknown_discriminator"
        ELSE IF differing # {} THEN first ELSE "none"
  BY DEF Recovery!Refusal
<1>7. refusal \in Recovery!Refusals
  <2> HIDE DEF first, s, refusal, differing
  <2> QED BY <1>4, <1>8 DEF Recovery!Refusals, Recovery!AuthenticityRefusals
<1>5. refusal \notin Recovery!AuthenticityRefusals \cup {"none"} => Recovery!Verifies(e)
  BY DEF Recovery!Refusal, Recovery!AuthenticityRefusals
<1>6. ASSUME refusal = "none"
      PROVE  Grants(e, subject, at) /\ e.statement.grant \notin withdrawn
  <2>1. /\ s.schema = "recovery_grant" /\ Recovery!Verifies(e)
        /\ ~(at < s.window.from) /\ ~(at >= s.window.until)
        /\ s.grant \notin withdrawn /\ s.decision = "granted"
        /\ s.subject.discriminator = Recovery!Discriminator
        /\ differing = {}
    <3> HIDE DEF first, s, refusal, differing
    <3> QED BY <1>4, <1>6, <1>8
  <2>9. /\ e.statement.subject = [k \in Recovery!Terms |-> e.statement.subject[k]]
        /\ subject = [k \in Recovery!Terms |-> subject[k]]
    BY <1>1, AnswersInputs DEF Recovery!GrantInputs, Recovery!Statements
  <2>2. e.statement.subject.discriminator # AbsentKey
    BY <1>2, <2>1, <2>9 DEF Recovery!Discriminator, Recovery!Terms
  <2>3. s = e.statement
    <3>1. [e.statement.subject EXCEPT !.discriminator = e.statement.subject.discriminator]
            = e.statement.subject
      BY <2>9
    <3>2. e.statement = [e.statement EXCEPT !.subject = e.statement.subject]
      BY <1>1 DEF Recovery!Statements
    <3> QED BY <2>2, <3>1, <3>2 DEF Recovery!Parsed
  <2>4. e.statement.subject = subject
    <3>1. \A k \in Recovery!Terms : e.statement.subject[k] = subject[k]
      BY <2>1, <2>3 DEF Recovery!Differing
    <3>2. e.statement.subject \in Recoveries
      BY <1>1 DEF Recovery!Statements
    <3>3. \A v \in Recoveries : v = [k \in Recovery!Terms |-> v[k]]
      BY AnswersInputs DEF Recovery!GrantInputs
    <3> QED BY <3>1, <3>2, <3>3
  <2>5. e.statement.window.from \in Nat /\ e.statement.window.until \in Nat /\ at \in Nat
    <3>1. e.statement.window \in Windows
      BY <1>1 DEF Recovery!Statements
    <3>2. {e.statement.window.from, e.statement.window.until} \subseteq Nat
      BY <3>1, AnswersInputs DEF Recovery!GrantInputs
    <3> QED BY <3>2
  <2>6. e.signature = [over |-> e.statement, key |-> "recovery"]
    BY <2>1, <2>3 DEF Recovery!Verifies
  <2>7. ~(at < e.statement.window.from) /\ ~(at >= e.statement.window.until)
          /\ e.statement.schema = "recovery_grant" /\ e.statement.decision = "granted"
    BY <1>2, <2>1
  <2>8. e.statement.window.from <= at /\ at < e.statement.window.until
    BY <2>5, <2>7
  <2> QED BY <1>2, <2>1, <2>4, <2>6, <2>7, <2>8 DEF Grants
<1> QED BY <1>5, <1>6, <1>7 DEF Recovery!Verifies

-----------------------------------------------------------------------------
\* Rows only come to be, keep their document and lose no withdrawal.
RowsGrow ==
  \A g \in Recovery!Stored :
    /\ g \in Recovery!Stored'
    /\ row'[g].envelope = row[g].envelope
    /\ row[g].revoked => row'[g].revoked

LEMMA InsertStep ==
  ASSUME RowsInv, NEW d \in Inserted, Recovery!Insert(d)
  PROVE  RowsInv' /\ RowsGrow /\ UNCHANGED <<grantClock, reader>>
<1> DEFINE g == d.statement.grant
           new == [envelope |-> d, revoked |-> FALSE]
<1>1. d \in SignedDocuments /\ g \in RecoveryIds
  BY AnswersInputs DEF Recovery!GrantInputs, SignedDocuments, Recovery!Statements
<1>2. new \in GrantRows /\ new # Recovery!NoRow
  <2>1. new \in GrantRows
    BY <1>1 DEF GrantRows
  <2> QED BY <2>1, NoRowIsNoRow
<1>3. /\ row[g] = Recovery!NoRow /\ row' = [row EXCEPT ![g] = new]
      /\ UNCHANGED <<grantClock, reader>>
  BY DEF Recovery!Insert
<1>4. \A h \in RecoveryIds : row'[h] = IF h = g THEN new ELSE row[h]
  BY <1>3 DEF RowsInv
<1>5. Recovery!Stored' = Recovery!Stored \cup {g} /\ g \notin Recovery!Stored
  BY <1>1, <1>2, <1>3, <1>4 DEF Recovery!Stored
<1>6. RowsInv'
  <2>1. row' \in [RecoveryIds -> GrantRows \cup {Recovery!NoRow}]
    BY <1>2, <1>3 DEF RowsInv
  <2>2. \A h \in Recovery!Stored' : row'[h].envelope.statement.grant = h
    BY <1>1, <1>4, <1>5, StoredIsRow DEF RowsInv
  <2> QED BY <1>3, <2>1, <2>2 DEF RowsInv
<1>7. RowsGrow
  BY <1>4, <1>5, StoredIsRow DEF RowsGrow
<1> QED BY <1>3, <1>6, <1>7

LEMMA WithdrawStep ==
  ASSUME RowsInv, NEW g \in RecoveryIds, Recovery!Withdraw(g)
  PROVE  RowsInv' /\ RowsGrow /\ UNCHANGED <<grantClock, reader>>
<1> DEFINE new == [row[g] EXCEPT !.revoked = TRUE]
<1>1. g \in Recovery!Stored /\ row[g] \in GrantRows
  BY StoredIsRow DEF Recovery!Withdraw
<1>2. new \in GrantRows /\ new.envelope = row[g].envelope /\ new.revoked
  BY <1>1 DEF GrantRows
<1>3. row' = [row EXCEPT ![g] = new] /\ UNCHANGED <<grantClock, reader>>
  BY DEF Recovery!Withdraw
<1>4. \A h \in RecoveryIds : row'[h] = IF h = g THEN new ELSE row[h]
  BY <1>3 DEF RowsInv
<1>5. Recovery!Stored' = Recovery!Stored
  BY <1>1, <1>2, <1>4, NoRowIsNoRow DEF Recovery!Stored
<1>6. RowsInv'
  <2>1. row' \in [RecoveryIds -> GrantRows \cup {Recovery!NoRow}]
    BY <1>2, <1>3 DEF RowsInv
  <2>2. \A h \in Recovery!Stored' : row'[h].envelope.statement.grant = h
    BY <1>1, <1>2, <1>4, <1>5, StoredIsRow DEF RowsInv
  <2> QED BY <1>3, <2>1, <2>2 DEF RowsInv
<1>7. RowsGrow
  BY <1>2, <1>4, <1>5, StoredIsRow DEF RowsGrow
<1> QED BY <1>3, <1>6, <1>7

\* While a call goes on and others write, what it holds stays good.
LEMMA OthersWrite ==
  ASSUME RecoveryInv, RowsInv', RowsGrow, UNCHANGED reader, Recovery!Witness
  PROVE  RecoveryInv'
<1>1. truth' \in BOOLEAN /\ (truth => truth')
  <2>1. Recovery!Authorizes(reader.subject) \in BOOLEAN
          /\ (Recovery!Authorizes(reader.subject))' \in BOOLEAN
    BY DEF Recovery!Authorizes
  <2> QED BY <2>1 DEF Recovery!Witness, RecoveryInv
<1>2. CallInv'
  <2>1. /\ reader'.step = "row" =>
             reader' \in [step: {"row"}, subject: Recoveries, envelope: SignedDocuments]
        /\ reader'.step = "clock" =>
             reader' \in [step: {"clock"}, subject: Recoveries, envelope: SignedDocuments,
                          at: 0..MaxGrantClock]
    BY DEF RecoveryInv, CallInv
  <2>2. ASSUME reader.step \in {"row", "clock"}
        PROVE  LET g == reader.envelope.statement.grant
               IN /\ g \in Recovery!Stored' /\ row'[g].envelope = reader.envelope
                  /\ reader.step = "clock" /\ ~row'[g].revoked
                       /\ Grants(reader.envelope, reader.subject, reader.at) => truth'
    BY <1>1, <2>2 DEF RecoveryInv, CallInv, RowsGrow
  <2> QED BY <2>1, <2>2 DEF CallInv, Grants
<1>3. AnswerInv'
  BY <1>1 DEF RecoveryInv, AnswerInv
<1> QED BY <1>1, <1>2, <1>3 DEF RecoveryInv

\* What the caller's witness may become.
LEMMA WitnessIsBoolean ==
  ASSUME truth \in BOOLEAN, Recovery!Witness
  PROVE  /\ truth' \in BOOLEAN
         /\ reader.step \in {"row", "clock"} /\ reader'.step # "row" =>
              (truth => truth') /\ (Recovery!Authorizes(reader.subject) => truth')
<1>1. Recovery!Authorizes(reader.subject) \in BOOLEAN
        /\ (Recovery!Authorizes(reader.subject))' \in BOOLEAN
        /\ Recovery!Authorizes(reader'.subject) \in BOOLEAN
  BY DEF Recovery!Authorizes
<1> QED BY <1>1 DEF Recovery!Witness

LEMMA BeginStandingStep ==
  ASSUME RecoveryInv, NEW subject \in Recoveries, Recovery!BeginStanding(subject),
         Recovery!Witness
  PROVE  RecoveryInv'
<1>1. truth' \in BOOLEAN
  BY WitnessIsBoolean DEF RecoveryInv
<1>2. RowsInv' /\ UNCHANGED row
  BY DEF Recovery!BeginStanding, RecoveryInv, RowsInv, Recovery!Stored
<1>3. CASE Recovery!Stored = {}
  <2>1. reader' = [step |-> "answered", subject |-> subject,
                   standing |-> "absent", refusal |-> "none"]
    BY <1>3 DEF Recovery!BeginStanding
  <2>2. CallInv' /\ AnswerInv'
    BY <2>1 DEF CallInv, AnswerInv, Recovery!Standings, Recovery!Refusals
  <2> QED BY <1>1, <1>2, <2>2 DEF RecoveryInv
<1>4. CASE Recovery!Stored # {}
  <2>1. PICK g \in Recovery!Latest :
          reader' = [step |-> "row", subject |-> subject, envelope |-> row[g].envelope]
    BY <1>4 DEF Recovery!BeginStanding
  <2>2. g \in Recovery!Stored
    BY DEF Recovery!Latest
  <2>3. /\ row[g].envelope \in SignedDocuments
        /\ row[g].envelope.statement.grant = g
    BY <2>2, StoredIsRow DEF GrantRows, RecoveryInv, RowsInv
  <2>4. g \in Recovery!Stored'
    BY <1>2, <2>2 DEF Recovery!Stored
  <2>5. CallInv' /\ AnswerInv'
    BY <1>2, <2>1, <2>3, <2>4 DEF CallInv, AnswerInv
  <2> QED BY <1>1, <1>2, <2>5 DEF RecoveryInv
<1> QED BY <1>3, <1>4

LEMMA TakeClockStep ==
  ASSUME RecoveryInv, Recovery!TakeClock, Recovery!Witness
  PROVE  RecoveryInv'
<1> DEFINE g == reader.envelope.statement.grant
<1>1. /\ reader \in [step: {"row"}, subject: Recoveries, envelope: SignedDocuments]
      /\ g \in Recovery!Stored /\ row[g].envelope = reader.envelope
  BY DEF Recovery!TakeClock, RecoveryInv, CallInv
<1>2. reader' = [step |-> "clock", subject |-> reader.subject,
                 envelope |-> reader.envelope, at |-> grantClock]
        /\ UNCHANGED <<grantClock, row>>
  BY DEF Recovery!TakeClock
<1>3. truth' \in BOOLEAN /\ (Recovery!Authorizes(reader.subject) => truth')
  BY <1>2, WitnessIsBoolean DEF Recovery!TakeClock, RecoveryInv
<1>4. RowsInv' /\ Recovery!Stored' = Recovery!Stored
  BY <1>2 DEF RecoveryInv, RowsInv, Recovery!Stored
<1>5. ~row[g].revoked /\ Grants(reader.envelope, reader.subject, grantClock) => truth'
  <2>1. SUFFICES ASSUME ~row[g].revoked,
                        Grants(reader.envelope, reader.subject, grantClock)
                 PROVE  Recovery!Authorizes(reader.subject)
    BY <1>3
  <2>2. g \in Recovery!Stored \ Recovery!Withdrawn
    BY <1>1, <2>1 DEF Recovery!Withdrawn
  <2> QED BY <1>1, <2>1, <2>2 DEF Grants, Recovery!Authorizes
<1>6. CallInv'
  <2>1. reader' \in [step: {"clock"}, subject: Recoveries, envelope: SignedDocuments,
                     at: 0..MaxGrantClock]
    BY <1>1, <1>2 DEF RecoveryInv, RowsInv
  <2>2. Grants(reader.envelope, reader.subject, grantClock)
          = Grants(reader.envelope, reader.subject, grantClock)'
    BY <1>2 DEF Grants
  <2> QED BY <1>1, <1>2, <1>4, <1>5, <2>1 DEF CallInv
<1>7. AnswerInv'
  BY <1>2 DEF AnswerInv
<1> QED BY <1>3, <1>4, <1>6, <1>7 DEF RecoveryInv

LEMMA AnswerStep ==
  ASSUME RecoveryInv, Recovery!Answer, Recovery!Witness
  PROVE  RecoveryInv'
<1> DEFINE g == reader.envelope.statement.grant
           refusal == Recovery!Refusal(reader.envelope, reader.subject, reader.at,
                                       Recovery!Withdrawn)
           standing == Recovery!Standing(refusal)
<1>1. /\ reader \in [step: {"clock"}, subject: Recoveries, envelope: SignedDocuments,
                      at: 0..MaxGrantClock]
      /\ g \in Recovery!Stored
      /\ ~row[g].revoked /\ Grants(reader.envelope, reader.subject, reader.at) => truth
  BY DEF Recovery!Answer, RecoveryInv, CallInv
<1>2. reader' = [step |-> "answered", subject |-> reader.subject,
                 standing |-> standing, refusal |-> refusal,
                 envelope |-> reader.envelope]
        /\ UNCHANGED <<grantClock, row>>
  BY DEF Recovery!Answer
<1>3. truth' \in BOOLEAN /\ (truth => truth')
  BY <1>2, WitnessIsBoolean DEF Recovery!Answer, RecoveryInv
<1>4. RowsInv'
  BY <1>2 DEF RecoveryInv, RowsInv, Recovery!Stored
<1>5. /\ refusal \in Recovery!Refusals
      /\ refusal \notin Recovery!AuthenticityRefusals \cup {"none"} =>
           reader.envelope.signature =
             [over |-> Recovery!Parsed(reader.envelope.statement), key |-> "recovery"]
      /\ refusal = "none" =>
           /\ Grants(reader.envelope, reader.subject, reader.at)
           /\ g \notin Recovery!Withdrawn
  BY <1>1, RefusalSays
<1>6. refusal = "none" => truth'
  BY <1>1, <1>3, <1>5 DEF Recovery!Withdrawn
<1> HIDE DEF refusal
<1>7. /\ standing \in Recovery!Standings
      /\ standing \in {"valid", "absent"} <=> refusal = "none"
  BY DEF Recovery!Standing, Recovery!Standings
<1>8. CallInv' /\ AnswerInv'
  BY <1>2, <1>3, <1>5, <1>6, <1>7
     DEF CallInv, AnswerInv, Recovery!Standing
<1> QED BY <1>3, <1>4, <1>8 DEF RecoveryInv

LEMMA RecoveryStep == RecoveryInv /\ [Recovery!Next]_(Recovery!grantVars) => RecoveryInv'
<1> SUFFICES ASSUME RecoveryInv, [Recovery!Next]_(Recovery!grantVars) PROVE RecoveryInv'
  OBVIOUS
<1>1. CASE UNCHANGED Recovery!grantVars
  BY <1>1 DEF Recovery!grantVars, RecoveryInv, RowsInv, CallInv, AnswerInv, Recovery!Stored, Grants
<1>2. CASE Recovery!Next
  <2>0. Recovery!Step /\ Recovery!Witness
    BY <1>2 DEF Recovery!Next
  <2>1. CASE Recovery!Tick
    <3>1. grantClock' \in 0..MaxGrantClock /\ UNCHANGED <<row, reader>>
      BY <2>1, GrantClockBound DEF Recovery!Tick, RecoveryInv, RowsInv
    <3>2. RowsInv' /\ RowsGrow
      BY <3>1 DEF RecoveryInv, RowsInv, RowsGrow, Recovery!Stored
    <3> QED BY <2>0, <3>1, <3>2, OthersWrite
  <2>2. ASSUME NEW d \in Inserted, Recovery!Insert(d)
        PROVE  RecoveryInv'
    BY <2>0, <2>2, InsertStep, OthersWrite DEF RecoveryInv
  <2>3. ASSUME NEW g \in RecoveryIds, Recovery!Withdraw(g)
        PROVE  RecoveryInv'
    BY <2>0, <2>3, WithdrawStep, OthersWrite DEF RecoveryInv
  <2>4. ASSUME NEW subject \in Recoveries, Recovery!BeginStanding(subject)
        PROVE  RecoveryInv'
    BY <2>0, <2>4, BeginStandingStep
  <2>5. CASE Recovery!TakeClock
    BY <2>0, <2>5, TakeClockStep
  <2>6. CASE Recovery!Answer
    BY <2>0, <2>6, AnswerStep
  <2> QED BY <2>0, <2>1, <2>2, <2>3, <2>4, <2>5, <2>6 DEF Recovery!Step
<1> QED BY <1>1, <1>2

LEMMA RecoveryInitially == Recovery!Init => RecoveryInv
<1> SUFFICES ASSUME Recovery!Init PROVE RecoveryInv
  OBVIOUS
<1>1. Recovery!Stored = {}
  BY DEF Recovery!Init, Recovery!Stored
<1>2. RowsInv
  BY <1>1, GrantClockBound DEF Recovery!Init, RowsInv
<1>3. CallInv /\ AnswerInv
  BY DEF Recovery!Init, Recovery!Idle, CallInv, AnswerInv
<1> QED BY <1>2, <1>3 DEF Recovery!Init, RecoveryInv

LEMMA RecoveryInvEarns == RecoveryInv => RecoveryIsEarned
<1> SUFFICES ASSUME RecoveryInv PROVE RecoveryIsEarned
  OBVIOUS
<1>1. Recovery!TypeOK
  <2>1. \A g \in RecoveryIds : row[g] # Recovery!NoRow => row[g] \in GrantRows
    BY DEF RecoveryInv, RowsInv
  <2> QED
    BY <2>1 DEF RecoveryInv, RowsInv, AnswerInv, Recovery!TypeOK, Recovery!Clock,
                GrantRows, SignedDocuments
<1>2. Recovery!ValidWasTrue /\ Recovery!DiagnosticsAreEarned
  BY DEF RecoveryInv, AnswerInv, Recovery!ValidWasTrue, Recovery!DiagnosticsAreEarned
<1> QED BY <1>1, <1>2 DEF RecoveryIsEarned

-----------------------------------------------------------------------------
(***************************************************************************)
(* Rehearsal grants.                                                       *)
(***************************************************************************)
\* What an executor that presented a document holds.
ExecutorRows ==
  [step: {"ledger", "verified", "ran"}, document: Rehearsal!Documents,
   subject: [candidate: Rehearsal!Candidates, step: Published],
   withdrawn: SUBSET RehearsalIds, spent: SUBSET RehearsalIds]

\* What was verified was signed as it stands, for the bytes at hand.
Matches(e) ==
  /\ e.document.signed = e.document.statement
  /\ e.document.signed.candidate = e.subject.candidate
  /\ e.document.signed.step = e.subject.step

RehearsalInv ==
  /\ Rehearsal!TypeOK
  /\ evidence \subseteq attested \cup seen
  /\ \A d \in documents : d.signed.candidate \in evidence
  /\ executor \in [Executors -> ExecutorRows \cup {Rehearsal!Idle}]
  /\ \A x \in Executors : LET e == executor[x] IN
       /\ e.step # "idle" => e.document \in documents
       /\ e.step \in {"verified", "ran"} => Matches(e)
       /\ e.step = "ran" => state[e.document.statement.grant] = "spent"
  /\ Rehearsal!OneRunPerGrant

LEMMA IdleIsNoExecutorRow == Rehearsal!Idle.step = "idle" /\ Rehearsal!Idle \notin ExecutorRows
BY DEF Rehearsal!Idle, ExecutorRows

LEMMA RehearsalClockBound == MaxRehearsalClock \in Nat
BY AnswersInputs DEF Rehearsal!RehearsalInputs

LEMMA RehearsalInitially == Rehearsal!Init => RehearsalInv
<1> SUFFICES ASSUME Rehearsal!Init PROVE RehearsalInv
  OBVIOUS
<1> QED
  BY RehearsalClockBound DEF Rehearsal!Init, RehearsalInv, Rehearsal!TypeOK, Rehearsal!Idle,
              Rehearsal!OneRunPerGrant, Rehearsal!Ran

\* A step of no executor: evidence and documents only grow, a row that is spent
\* stays spent.
LEMMA WorldStep ==
  ASSUME RehearsalInv, Rehearsal!TypeOK', UNCHANGED executor,
         evidence' \subseteq attested' \cup seen',
         documents \subseteq documents',
         \A d \in documents' : d.signed.candidate \in evidence',
         \A g \in RehearsalIds : state[g] = "spent" => state'[g] = "spent"
  PROVE  RehearsalInv'
<1>1. \A x \in Executors : executor[x].step = "ran" =>
        executor[x].document.statement.grant \in RehearsalIds
  BY IdleIsNoExecutorRow
     DEF RehearsalInv, ExecutorRows, Rehearsal!Documents, Rehearsal!Statements
<1>2. \A x \in Executors : LET e == executor'[x] IN
        /\ e.step # "idle" => e.document \in documents'
        /\ e.step \in {"verified", "ran"} => Matches(e)
        /\ e.step = "ran" => state'[e.document.statement.grant] = "spent"
  BY <1>1 DEF RehearsalInv
<1>3. Rehearsal!OneRunPerGrant'
  BY DEF RehearsalInv, Rehearsal!OneRunPerGrant, Rehearsal!Ran
<1> QED BY <1>2, <1>3 DEF RehearsalInv, Matches

\* A step of one executor that spends nothing.
LEMMA ExecutorStep ==
  ASSUME RehearsalInv, NEW x \in Executors, NEW e \in ExecutorRows \cup {Rehearsal!Idle},
         e.step # "ran", e.step # "idle" => e.document \in documents,
         e.step = "verified" => Matches(e),
         executor' = [executor EXCEPT ![x] = e],
         UNCHANGED <<rehearsalClock, wheel, attested, seen, evidence, documents, state>>
  PROVE  RehearsalInv'
<1>1. \A y \in Executors : executor'[y] = IF y = x THEN e ELSE executor[y]
  BY DEF RehearsalInv
<1>2. executor' \in [Executors -> ExecutorRows \cup {Rehearsal!Idle}]
  BY DEF RehearsalInv
<1>3. e.step \in {"idle", "ledger", "verified"}
  BY IdleIsNoExecutorRow DEF ExecutorRows
<1>4. Rehearsal!TypeOK'
  BY <1>1, <1>3 DEF RehearsalInv, Rehearsal!TypeOK
<1>5. \A y \in Executors : LET f == executor'[y] IN
        /\ f.step # "idle" => f.document \in documents'
        /\ f.step \in {"verified", "ran"} => Matches(f)
        /\ f.step = "ran" => state'[f.document.statement.grant] = "spent"
  BY <1>1, <1>3 DEF RehearsalInv
<1>6. Rehearsal!OneRunPerGrant'
  BY <1>1 DEF RehearsalInv, Rehearsal!OneRunPerGrant, Rehearsal!Ran
<1> QED BY <1>2, <1>4, <1>5, <1>6 DEF RehearsalInv, Matches

\* verify_rehearsal_grant says valid of what was signed as it stands, for the
\* bytes and the step at hand.
LEMMA ValidMatches ==
  ASSUME NEW d, NEW subject, NEW at, NEW withdrawn, NEW spent,
         Rehearsal!Standing(Rehearsal!Refusal(d, subject, at, withdrawn, spent)) = "valid"
  PROVE  /\ d.signed = d.statement
         /\ d.statement.candidate = subject.candidate
         /\ d.statement.step = subject.step
<1> DEFINE refusal == Rehearsal!Refusal(d, subject, at, withdrawn, spent)
<1>1. refusal = "none"
  <2> HIDE DEF refusal
  <2> QED BY DEF Rehearsal!Standing, refusal
<1> QED BY <1>1 DEF Rehearsal!Refusal

LEMMA SpendStep ==
  ASSUME RehearsalInv, NEW x \in Executors, Rehearsal!Spend(x)
  PROVE  RehearsalInv'
<1> DEFINE e == executor[x]
           g == e.document.statement.grant
           ran == [e EXCEPT !.step = "ran"]
<1>1. e \in ExecutorRows /\ e.document \in documents /\ Matches(e) /\ g \in RehearsalIds
  BY IdleIsNoExecutorRow
     DEF RehearsalInv, Rehearsal!Spend, ExecutorRows, Rehearsal!Documents, Rehearsal!Statements
<1>2. /\ state[g] = "issued" /\ state' = [state EXCEPT ![g] = "spent"]
      /\ executor' = [executor EXCEPT ![x] = ran]
      /\ UNCHANGED <<rehearsalClock, wheel, attested, seen, evidence, documents>>
  BY DEF Rehearsal!Spend
<1>3. /\ ran \in ExecutorRows /\ ran.step = "ran"
      /\ ran.document = e.document /\ ran.subject = e.subject
  BY <1>1 DEF ExecutorRows
<1>4. \A y \in Executors : executor'[y] = IF y = x THEN ran ELSE executor[y]
  BY <1>2 DEF RehearsalInv
<1>5. /\ state' \in [RehearsalIds -> {"absent", "issued", "revoked", "spent"}]
      /\ \A h \in RehearsalIds : state'[h] = IF h = g THEN "spent" ELSE state[h]
  BY <1>2 DEF RehearsalInv, Rehearsal!TypeOK
<1>6. Rehearsal!TypeOK'
  BY <1>2, <1>3, <1>4, <1>5 DEF RehearsalInv, Rehearsal!TypeOK
<1>7. executor' \in [Executors -> ExecutorRows \cup {Rehearsal!Idle}]
  BY <1>2, <1>3 DEF RehearsalInv
<1>8. \A y \in Executors : executor[y].step = "ran" =>
        /\ executor[y].document.statement.grant \in RehearsalIds
        /\ executor[y].document.statement.grant # g
  BY <1>2, IdleIsNoExecutorRow
     DEF RehearsalInv, ExecutorRows, Rehearsal!Documents, Rehearsal!Statements
<1>9. \A y \in Executors : LET f == executor'[y] IN
        /\ f.step # "idle" => f.document \in documents'
        /\ f.step \in {"verified", "ran"} => Matches(f)
        /\ f.step = "ran" => state'[f.document.statement.grant] = "spent"
  <2>1. Matches(ran) /\ ran.document \in documents /\ state'[ran.document.statement.grant] = "spent"
    BY <1>1, <1>3, <1>5 DEF Matches
  <2>2. ASSUME NEW y \in Executors, y # x
        PROVE  /\ executor[y].step # "idle" => executor[y].document \in documents
               /\ executor[y].step \in {"verified", "ran"} => Matches(executor[y])
               /\ executor[y].step = "ran" =>
                    state'[executor[y].document.statement.grant] = "spent"
    BY <1>5, <1>8 DEF RehearsalInv
  <2> HIDE DEF ran
  <2> QED BY <1>2, <1>4, <2>1, <2>2
<1>10. Rehearsal!OneRunPerGrant'
  <2>1. ran.document.statement.grant = g
    BY <1>3
  <2>2. \A y \in Executors \ {x} : executor'[y].step = "ran" =>
          executor'[y] = executor[y] /\ executor[y].document.statement.grant # g
    BY <1>4, <1>8
  <2>3. executor'[x].document.statement.grant = g
    BY <1>4, <2>1
  <2> HIDE DEF ran, g
  <2> QED
    BY <2>2, <2>3 DEF RehearsalInv, Rehearsal!OneRunPerGrant, Rehearsal!Ran
<1> QED BY <1>2, <1>6, <1>7, <1>9, <1>10 DEF RehearsalInv, Matches

LEMMA RehearsalStep == RehearsalInv /\ [Rehearsal!Next]_(Rehearsal!rehearsalVars) => RehearsalInv'
<1> SUFFICES ASSUME RehearsalInv, [Rehearsal!Next]_(Rehearsal!rehearsalVars) PROVE RehearsalInv'
  OBVIOUS
<1> USE DEF Rehearsal!TypeOK
<1>1. CASE UNCHANGED Rehearsal!rehearsalVars
  BY <1>1 DEF Rehearsal!rehearsalVars, RehearsalInv, Matches, Rehearsal!OneRunPerGrant, Rehearsal!Ran
<1>2. CASE Rehearsal!Tick
  <2>1. rehearsalClock' \in 0..MaxRehearsalClock
    BY <1>2, RehearsalClockBound DEF Rehearsal!Tick, RehearsalInv
  <2> QED BY <1>2, <2>1, WorldStep DEF Rehearsal!Tick, RehearsalInv
<1>3. ASSUME NEW a \in Artifacts, Rehearsal!Attest(a) \/ Rehearsal!ReadOnHost(a)
      PROVE  RehearsalInv'
  <2>1. [artifact |-> a, digest |-> wheel[a]] \in Rehearsal!Candidates
    BY DEF RehearsalInv, Rehearsal!Candidates
  <2> QED
    BY <1>3, <2>1, WorldStep DEF Rehearsal!Attest, Rehearsal!ReadOnHost, RehearsalInv
<1>4. ASSUME NEW a \in Artifacts, NEW d \in Digests, Rehearsal!Rerun(a, d)
      PROVE  RehearsalInv'
  BY <1>4, WorldStep DEF Rehearsal!Rerun, RehearsalInv
<1>5. ASSUME NEW a \in Artifacts, NEW built \in Digests, NEW found \in Digests,
             Rehearsal!ParseEvidence(a, built, found)
      PROVE  RehearsalInv'
  <2>1. [artifact |-> a, digest |-> built] \in Rehearsal!Candidates \cap (attested \cup seen)
    BY <1>5 DEF Rehearsal!ParseEvidence, Rehearsal!ReadingsAgree, Rehearsal!Candidates
  <2> QED BY <1>5, <2>1, WorldStep DEF Rehearsal!ParseEvidence, RehearsalInv
<1>6. ASSUME NEW s \in Rehearsal!Statements, NEW c \in evidence, Rehearsal!Issue(s, c)
      PROVE  RehearsalInv'
  <2> DEFINE d == [statement |-> s, signed |-> s]
  <2>1. d \in Rehearsal!Documents /\ d.signed.candidate \in evidence
    BY <1>6 DEF Rehearsal!Issue, Rehearsal!Evidenced, Rehearsal!Documents
  <2>2. /\ documents' = documents \cup {d}
        /\ state' = [state EXCEPT ![s.grant] = "issued"] /\ state[s.grant] = "absent"
        /\ UNCHANGED <<rehearsalClock, wheel, attested, seen, evidence, executor>>
    BY <1>6 DEF Rehearsal!Issue
  <2> HIDE DEF d
  <2>3. Rehearsal!TypeOK'
    BY <2>1, <2>2 DEF RehearsalInv
  <2>4. \A g \in RehearsalIds : state[g] = "spent" => state'[g] = "spent"
    BY <2>2 DEF RehearsalInv
  <2> QED BY <2>1, <2>2, <2>3, <2>4, WorldStep DEF RehearsalInv
<1>7. ASSUME NEW d \in documents, NEW c \in Rehearsal!Candidates, Rehearsal!Alter(d, c)
      PROVE  RehearsalInv'
  <2> DEFINE altered == [d EXCEPT !.statement.candidate = c]
  <2>1. d \in Rehearsal!Documents /\ d.signed.candidate \in evidence
    BY DEF RehearsalInv
  <2>2. altered \in Rehearsal!Documents /\ altered.signed = d.signed
    BY <2>1 DEF Rehearsal!Documents, Rehearsal!Statements
  <2>3. documents' = documents \cup {altered}
          /\ UNCHANGED <<rehearsalClock, wheel, attested, seen, evidence, state, executor>>
    BY <1>7 DEF Rehearsal!Alter
  <2> HIDE DEF altered
  <2> QED BY <2>1, <2>2, <2>3, WorldStep DEF RehearsalInv
<1>8. ASSUME NEW g \in RehearsalIds, Rehearsal!Revoke(g)
      PROVE  RehearsalInv'
  BY <1>8, WorldStep DEF Rehearsal!Revoke, RehearsalInv
<1>9. ASSUME NEW x \in Executors, NEW d \in documents, NEW a \in Artifacts,
             NEW s \in Published, Rehearsal!Present(x, d, a, s)
      PROVE  RehearsalInv'
  <2> DEFINE e == [step |-> "ledger", document |-> d,
                   subject |-> [candidate |-> [artifact |-> a, digest |-> wheel[a]],
                                step |-> s],
                   withdrawn |-> {g \in RehearsalIds : state[g] = "revoked"},
                   spent |-> {g \in RehearsalIds : state[g] = "spent"}]
  <2>1. e \in ExecutorRows
    <3>1. [candidate |-> [artifact |-> a, digest |-> wheel[a]], step |-> s]
            \in [candidate: Rehearsal!Candidates, step: Published]
      BY DEF RehearsalInv, Rehearsal!Candidates
    <3> QED BY <3>1 DEF RehearsalInv, ExecutorRows
  <2>2. executor' = [executor EXCEPT ![x] = e]
          /\ UNCHANGED <<rehearsalClock, wheel, attested, seen, evidence, documents, state>>
    BY <1>9 DEF Rehearsal!Present
  <2>3. e.step = "ledger" /\ e.document = d
    OBVIOUS
  <2> HIDE DEF e
  <2> QED BY <2>1, <2>2, <2>3, ExecutorStep
<1>10. ASSUME NEW x \in Executors, Rehearsal!Verify(x)
       PROVE  RehearsalInv'
  <2> DEFINE e == executor[x]
             verdict == Rehearsal!Standing(Rehearsal!Refusal(e.document, e.subject,
                          rehearsalClock, e.withdrawn, e.spent))
             verified == [e EXCEPT !.step = "verified"]
  <2>1. e \in ExecutorRows /\ e.document \in documents
    BY <1>10, IdleIsNoExecutorRow DEF RehearsalInv, Rehearsal!Verify
  <2>2. /\ executor' = [executor EXCEPT ![x] =
             IF verdict = "valid" THEN verified ELSE Rehearsal!Idle]
        /\ UNCHANGED <<rehearsalClock, wheel, attested, seen, evidence, documents, state>>
    BY <1>10 DEF Rehearsal!Verify
  <2>3. CASE verdict = "valid"
    <3>1. /\ verified \in ExecutorRows /\ verified.step = "verified"
          /\ verified.document = e.document /\ verified.subject = e.subject
      BY <2>1 DEF ExecutorRows
    <3>2. Matches(verified)
      BY <2>3, <3>1, ValidMatches DEF Matches
    <3> HIDE DEF verified
    <3> QED BY <2>1, <2>2, <2>3, <3>1, <3>2, ExecutorStep
  <2>4. CASE verdict # "valid"
    BY <2>2, <2>4, IdleIsNoExecutorRow, ExecutorStep
  <2> QED BY <2>3, <2>4
<1>11. ASSUME NEW x \in Executors, Rehearsal!Spend(x)
       PROVE  RehearsalInv'
  BY <1>11, SpendStep
<1>12. ASSUME NEW x \in Executors, Rehearsal!GiveUp(x)
       PROVE  RehearsalInv'
  BY <1>12, IdleIsNoExecutorRow, ExecutorStep DEF Rehearsal!GiveUp
<1> QED
  BY <1>1, <1>2, <1>3, <1>4, <1>5, <1>6, <1>7, <1>8, <1>9, <1>10, <1>11, <1>12
     DEF Rehearsal!Next

LEMMA RehearsalInvEvidences == RehearsalInv => RehearsalIsEvidenced
<1> SUFFICES ASSUME RehearsalInv PROVE RehearsalIsEvidenced
  OBVIOUS
<1>1. Rehearsal!RunsEvidencedBytes
  BY DEF RehearsalInv, Matches, Rehearsal!RunsEvidencedBytes, Rehearsal!Ran
<1> QED BY <1>1 DEF RehearsalInv, RehearsalIsEvidenced

-----------------------------------------------------------------------------
(***************************************************************************)
(* Drift.                                                                  *)
(***************************************************************************)
\* Instants pass one execution at a time, what was read back since the last
\* change is what runs, and the observed columns are what the report of a
\* succeeded execution proves.
ReadBack(r) ==
  report[r] # None =>
    /\ report[r] \in Drift!Readings
    /\ report[r].at <= driftClock
    /\ report[r].at >= running.at => report[r].content = running.content

Observed(o) ==
  /\ o \in Drift!Finished /\ report[o] # None /\ Drift!Authorized(o)
  /\ observed.release = PlanOf[o].release
  /\ observed.revision = Drift!Proved(o)

DriftInv ==
  /\ Drift!TypeOK
  /\ running.at <= driftClock
  /\ \A r \in Rollouts : finishedAt[r] <= running.at
  /\ \A q, r \in Rollouts : finishedAt[q] = finishedAt[r] => q = r \/ finishedAt[r] = 0
  /\ \A r \in Rollouts \ undated : completedAt[r] \in {0, finishedAt[r]}
  /\ \A r \in Rollouts : report[r] # None => Drift!Executed(r)
  /\ \A r \in Rollouts : ReadBack(r)
  /\ observed.rollout # 0 => Observed(observed.rollout)

\* What the assumption on the instance says.
LEMMA DriftInstance ==
  /\ MaxDriftClock \in Nat \ {0} /\ None \notin Nat /\ Rollouts \subseteq Nat \ {0}
  /\ \A r \in Rollouts :
       /\ PlanOf[r].release \in Releases /\ PlanOf[r].spec \in Specs
       /\ PlanOf[r].revision \in Nat
  /\ \A q, r \in Rollouts :
       PlanOf[q].revision = PlanOf[r].revision => PlanOf[q] = PlanOf[r]
BY AnswersInputs DEF Drift!Deliveries

LEMMA DriftInitially == Drift!Init => DriftInv
<1> SUFFICES ASSUME Drift!Init PROVE DriftInv
  OBVIOUS
<1>1. running.at = 1 /\ running \in Drift!Readings
  BY DriftInstance DEF Drift!Init, Drift!Readings, Drift!Instants
<1>2. Drift!TypeOK
  BY <1>1, DriftInstance DEF Drift!Init, Drift!TypeOK, Drift!Instants
<1> QED
  BY <1>1, <1>2 DEF Drift!Init, DriftInv, ReadBack, Drift!Unobserved

\* What a change of the target leaves of the invariant.
LEMMA ChangeStep ==
  ASSUME DriftInv, NEW content \in Drift!Contents, Drift!Becomes(content)
  PROVE  /\ driftClock' \in Drift!Instants
         /\ running' \in Drift!Readings /\ running'.at = driftClock'
         /\ \A r \in Rollouts : finishedAt[r] < driftClock'
         /\ report' = report => \A r \in Rollouts : ReadBack(r)'
<1>1. /\ driftClock' = driftClock + 1 /\ driftClock \in Nat
      /\ driftClock' \in Drift!Instants
      /\ running' = [content |-> content, at |-> driftClock']
  BY DriftInstance DEF Drift!Becomes, DriftInv, Drift!TypeOK, Drift!Instants
<1>2. running' \in Drift!Readings /\ running'.at = driftClock'
  BY <1>1 DEF Drift!Readings
<1>3. \A r \in Rollouts : finishedAt[r] \in Nat /\ finishedAt[r] <= running.at
  BY DEF DriftInv, Drift!TypeOK, Drift!Instants
<1>4. running.at \in Nat /\ running.at <= driftClock
  BY DEF DriftInv, Drift!TypeOK, Drift!Readings, Drift!Instants
<1>5. \A r \in Rollouts : finishedAt[r] < driftClock'
  BY <1>1, <1>3, <1>4
<1>6. ASSUME report' = report, NEW r \in Rollouts
      PROVE  ReadBack(r)'
  <2>1. SUFFICES ASSUME report[r] # None
                 PROVE  /\ report[r] \in Drift!Readings
                        /\ report[r].at <= driftClock' /\ report[r].at < running'.at
    BY <1>2, <1>1, <1>6 DEF ReadBack, Drift!Readings, Drift!Instants
  <2>2. report[r] \in Drift!Readings /\ report[r].at <= driftClock
    BY <2>1 DEF DriftInv, ReadBack
  <2>3. report[r].at \in Nat
    BY <2>2 DEF Drift!Readings, Drift!Instants
  <2> QED BY <1>1, <1>2, <2>2, <2>3
<1> QED BY <1>1, <1>2, <1>5, <1>6

\* The observed columns stay proved while the reports and the executions they
\* rest on stay.
LEMMA ObservedStays ==
  ASSUME DriftInv, UNCHANGED observed,
         \A r \in Drift!Finished : r \in Drift!Finished',
         \A r \in Rollouts : report[r] # None => report'[r] = report[r]
  PROVE  (observed.rollout # 0 => Observed(observed.rollout))'
<1> SUFFICES ASSUME observed.rollout # 0
             PROVE  Observed(observed.rollout)'
  OBVIOUS
<1> DEFINE o == observed.rollout
<1>1. Observed(o) /\ o \in Rollouts
  BY DEF DriftInv, Observed, Drift!Finished
<1>2. report'[o] = report[o]
  BY <1>1 DEF Observed
<1> QED
  BY <1>1, <1>2 DEF Observed, Drift!Authorized, Drift!Proved

LEMMA DeliverStep ==
  ASSUME DriftInv, NEW r \in Rollouts, Drift!Deliver(r)
  PROVE  DriftInv'
<1>1. /\ Drift!Becomes(Drift!Frozen(r)) /\ finishedAt[r] = 0
      /\ finishedAt' = [finishedAt EXCEPT ![r] = driftClock']
      /\ UNCHANGED <<failed, report, mark, observed, completedAt, undated>>
  BY DEF Drift!Deliver, Drift!Executed
<1>2. Drift!Frozen(r) \in Drift!Contents
  BY DriftInstance DEF Drift!Frozen, Drift!Contents
<1>3. /\ driftClock' \in Drift!Instants
      /\ running' \in Drift!Readings /\ running'.at = driftClock'
      /\ \A q \in Rollouts : finishedAt[q] < driftClock'
      /\ \A q \in Rollouts : ReadBack(q)'
  BY <1>1, <1>2, ChangeStep
<1>4. /\ finishedAt' \in [Rollouts -> {0} \cup Drift!Instants]
      /\ \A q \in Rollouts : finishedAt'[q] = IF q = r THEN driftClock' ELSE finishedAt[q]
  BY <1>1, <1>3 DEF DriftInv, Drift!TypeOK
<1>5. driftClock' \in Nat \ {0} /\ \A q \in Rollouts : finishedAt[q] \in Nat
  BY <1>3 DEF Drift!Instants, DriftInv, Drift!TypeOK
<1>6. Drift!TypeOK'
  BY <1>1, <1>3, <1>4 DEF DriftInv, Drift!TypeOK
<1>7. running'.at <= driftClock' /\ \A q \in Rollouts : finishedAt'[q] <= running'.at
  BY <1>3, <1>4, <1>5
<1>8. \A p, q \in Rollouts :
        finishedAt'[p] = finishedAt'[q] => p = q \/ finishedAt'[q] = 0
  <2>1. \A q \in Rollouts : finishedAt[q] # driftClock'
    BY <1>3, <1>5
  <2> QED BY <1>4, <2>1 DEF DriftInv
<1>9. \A q \in Rollouts \ undated' : completedAt'[q] \in {0, finishedAt'[q]}
  BY <1>1, <1>4 DEF DriftInv
<1>10. (observed.rollout # 0 => Observed(observed.rollout))'
  <2>1. \A q \in Drift!Finished : q \in Drift!Finished'
    BY <1>4, <1>5 DEF Drift!Finished
  <2> QED BY <1>1, <2>1, ObservedStays
<1>11. \A q \in Rollouts : report'[q] # None => Drift!Executed(q)'
  BY <1>1, <1>4, <1>5 DEF DriftInv, Drift!Executed
<1> QED
  BY <1>3, <1>6, <1>7, <1>8, <1>9, <1>10, <1>11 DEF DriftInv

\* Of a failed execution and of a change by hand nothing is known but what runs.
LEMMA HandStep ==
  ASSUME DriftInv, NEW content \in Drift!Contents, Drift!Becomes(content),
         failed' \subseteq Rollouts, failed \subseteq failed',
         UNCHANGED <<finishedAt, report, mark, observed, completedAt, undated>>
  PROVE  DriftInv'
<1>1. /\ driftClock' \in Drift!Instants
      /\ running' \in Drift!Readings /\ running'.at = driftClock'
      /\ \A q \in Rollouts : finishedAt[q] < driftClock'
      /\ \A q \in Rollouts : ReadBack(q)'
  BY ChangeStep
<1>2. Drift!TypeOK'
  BY <1>1 DEF DriftInv, Drift!TypeOK
<1>3. driftClock' \in Nat /\ \A q \in Rollouts : finishedAt[q] \in Nat
  BY <1>1 DEF Drift!Instants, DriftInv, Drift!TypeOK
<1>4. running'.at <= driftClock' /\ \A q \in Rollouts : finishedAt'[q] <= running'.at
  BY <1>1, <1>3
<1>5. (observed.rollout # 0 => Observed(observed.rollout))'
  BY ObservedStays DEF Drift!Finished
<1> QED
  BY <1>1, <1>2, <1>4, <1>5 DEF DriftInv, Drift!Executed

LEMMA ReadStep ==
  ASSUME DriftInv, NEW r \in Rollouts, Drift!Read(r)
  PROVE  DriftInv'
<1> DEFINE m == [content |-> running.content, at |-> driftClock]
<1>1. /\ Drift!Executed(r) /\ report[r] = None /\ report' = [report EXCEPT ![r] = m]
      /\ UNCHANGED <<driftClock, running, finishedAt, failed, mark, observed,
                     completedAt, undated>>
  BY DEF Drift!Read
<1>2. m \in Drift!Readings /\ m.at <= driftClock /\ m.content = running.content
  BY DEF DriftInv, Drift!TypeOK, Drift!Readings, Drift!Instants
<1>3. /\ report' \in [Rollouts -> {None} \cup Drift!Readings]
      /\ \A q \in Rollouts : report'[q] = IF q = r THEN m ELSE report[q]
  BY <1>1, <1>2 DEF DriftInv, Drift!TypeOK
<1>4. Drift!TypeOK'
  BY <1>1, <1>3 DEF DriftInv, Drift!TypeOK
<1>5. \A q \in Rollouts : ReadBack(q)'
  BY <1>1, <1>2, <1>3 DEF DriftInv, ReadBack
<1>6. (observed.rollout # 0 => Observed(observed.rollout))'
  BY <1>1, <1>3, ObservedStays DEF Drift!Finished
<1>7. \A q \in Rollouts : report'[q] # None => Drift!Executed(q)'
  BY <1>1, <1>3 DEF DriftInv, Drift!Executed
<1> QED
  BY <1>1, <1>4, <1>5, <1>6, <1>7 DEF DriftInv

LEMMA ObserveStep ==
  ASSUME DriftInv, NEW r \in Rollouts, Drift!Observe(r)
  PROVE  DriftInv'
<1>1. /\ report[r] # None /\ Drift!Authorized(r) /\ mark' = r
      /\ UNCHANGED <<driftClock, running, finishedAt, failed, report, completedAt, undated>>
  BY DEF Drift!Observe
<1>2. report[r] \in Drift!Readings
  BY <1>1 DEF DriftInv, Drift!TypeOK
<1>3. CASE r \in failed
  <2>1. observed' = observed
    BY <1>3 DEF Drift!Observe
  <2>2. (observed.rollout # 0 => Observed(observed.rollout))'
    BY <1>1, <2>1, ObservedStays DEF Drift!Finished
  <2> QED BY <1>1, <2>1, <2>2 DEF DriftInv, Drift!TypeOK, ReadBack, Drift!Executed
<1>4. CASE r \notin failed
  <2>1. observed' = [release |-> report[r].content.release,
                     revision |-> Drift!Proved(r), rollout |-> r]
    BY <1>4 DEF Drift!Observe
  <2>2. Drift!Proved(r) \in {None} \cup Drift!Revisions
    BY DEF Drift!Proved, Drift!Revisions
  <2>3. report[r].content.release \in Releases
    BY <1>2 DEF Drift!Readings, Drift!Contents
  <2>4. Drift!TypeOK'
    BY <1>1, <2>1, <2>2, <2>3 DEF DriftInv, Drift!TypeOK
  <2>5. r \in Drift!Finished
    BY <1>1, <1>4 DEF Drift!Executed, Drift!Finished, DriftInv
  <2>6. Observed(r)'
    BY <1>1, <2>1, <2>5 DEF Observed, Drift!Authorized, Drift!Proved, Drift!Finished
  <2> QED BY <1>1, <2>1, <2>4, <2>6 DEF DriftInv, ReadBack, Drift!Executed
<1> QED BY <1>3, <1>4

LEMMA SettleStep ==
  ASSUME DriftInv, NEW r \in Rollouts, Drift!SettleSucceeded(r)
  PROVE  DriftInv'
<1>1. PICK settledAt \in {finishedAt[r], None} :
        /\ completedAt' = [completedAt EXCEPT ![r] = Drift!Completed(settledAt)]
        /\ undated' = IF settledAt = None THEN undated \cup {r} ELSE undated
  BY DEF Drift!SettleSucceeded
<1>2. /\ finishedAt[r] # 0
      /\ UNCHANGED <<driftClock, running, finishedAt, failed, report, mark, observed>>
  BY DEF Drift!SettleSucceeded
<1>3. Drift!Completed(settledAt) \in Drift!Instants
  BY <1>1, <1>2 DEF Drift!Completed, DriftInv, Drift!TypeOK
<1>4. Drift!TypeOK'
  BY <1>1, <1>2, <1>3 DEF DriftInv, Drift!TypeOK
<1>5. ASSUME NEW q \in Rollouts \ undated' PROVE completedAt'[q] \in {0, finishedAt[q]}
  <2>1. completedAt'[q] = IF q = r THEN Drift!Completed(settledAt) ELSE completedAt[q]
    BY <1>1 DEF DriftInv, Drift!TypeOK
  <2>2. q \notin undated
    BY <1>1, <1>5
  <2>3. q = r => settledAt = finishedAt[r] /\ settledAt # None
    BY <1>1, <1>5
  <2> QED BY <2>1, <2>2, <2>3 DEF DriftInv, Drift!Completed
<1>6. (observed.rollout # 0 => Observed(observed.rollout))'
  BY <1>2, ObservedStays DEF Drift!Finished
<1> QED
  BY <1>2, <1>4, <1>5, <1>6 DEF DriftInv, ReadBack, Drift!Executed

LEMMA DriftStep == DriftInv /\ [Drift!Next]_(Drift!driftVars) => DriftInv'
<1> SUFFICES ASSUME DriftInv, [Drift!Next]_(Drift!driftVars) PROVE DriftInv'
  OBVIOUS
<1>1. CASE UNCHANGED Drift!driftVars
  BY <1>1 DEF Drift!driftVars, DriftInv, Drift!TypeOK, ReadBack, Observed,
              Drift!Executed, Drift!Finished, Drift!Authorized, Drift!Proved
<1>2. CASE Drift!ChangeByHand
  BY <1>2, HandStep DEF Drift!ChangeByHand, DriftInv, Drift!TypeOK
<1>3. ASSUME NEW r \in Rollouts, Drift!Deliver(r) PROVE DriftInv'
  BY <1>3, DeliverStep
<1>4. ASSUME NEW r \in Rollouts, Drift!Fail(r) PROVE DriftInv'
  <2>1. failed' \subseteq Rollouts /\ failed \subseteq failed'
    BY <1>4 DEF Drift!Fail, DriftInv, Drift!TypeOK
  <2> QED BY <1>4, <2>1, HandStep DEF Drift!Fail
<1>5. ASSUME NEW r \in Rollouts, Drift!Read(r) PROVE DriftInv'
  BY <1>5, ReadStep
<1>6. ASSUME NEW r \in Rollouts, Drift!Observe(r) PROVE DriftInv'
  BY <1>6, ObserveStep
<1>7. ASSUME NEW r \in Rollouts, Drift!SettleSucceeded(r) PROVE DriftInv'
  BY <1>7, SettleStep
<1> QED BY <1>1, <1>2, <1>3, <1>4, <1>5, <1>6, <1>7 DEF Drift!Next

\* What the observed columns say of the plan they are compared with.
LEMMA ProvedIsFrozen ==
  ASSUME DriftInv, NEW o \in Rollouts, Observed(o)
  PROVE  /\ report[o].content \in Drift!Contents
         /\ report[o].content.release = PlanOf[o].release
         /\ observed.revision = PlanOf[o].revision <=> report[o].content = Drift!Frozen(o)
         /\ observed.revision \in {None, PlanOf[o].revision}
<1>1. report[o].content \in Drift!Contents /\ report[o].content.release = PlanOf[o].release
  BY DEF Observed, DriftInv, ReadBack, Drift!Readings, Drift!Authorized
<1>2. report[o].content = Drift!Frozen(o) <=> report[o].content.spec = PlanOf[o].spec
  BY <1>1 DEF Drift!Contents, Drift!Frozen
<1>3. PlanOf[o].revision # None
  BY DriftInstance
<1> QED
  BY <1>1, <1>2, <1>3 DEF Observed, Drift!Proved

LEMMA DriftInvSilence == DriftInv => Drift!SilenceIsEarned
<1> SUFFICES ASSUME DriftInv, NEW r \in Drift!RolledOut(Drift!Succeeded),
                    observed.rollout # 0, ~Drift!Drifted(r)
             PROVE  \E q \in Drift!Finished :
                      report[q] # None /\ report[q].content = Drift!Frozen(r)
  BY DEF Drift!SilenceIsEarned
<1> DEFINE o == observed.rollout
<1>1. o \in Drift!Finished /\ o \in Rollouts /\ Observed(o) /\ report[o] # None
  BY DEF DriftInv, Observed, Drift!Finished
<1>2. r \in Rollouts /\ observed.revision = PlanOf[r].revision
  BY DEF Drift!RolledOut, Drift!Succeeded, Drift!Drifted, Drift!Differs
<1>3. observed.revision # None
  BY <1>2, DriftInstance
<1>4. observed.revision = PlanOf[o].revision /\ report[o].content = Drift!Frozen(o)
  BY <1>1, <1>3, ProvedIsFrozen
<1>5. PlanOf[o] = PlanOf[r]
  BY <1>1, <1>2, <1>4, DriftInstance
<1> QED BY <1>1, <1>4, <1>5 DEF Drift!Frozen

LEMMA DriftInvTruth == DriftInv => Drift!DriftFollowsTruth
<1> SUFFICES ASSUME DriftInv, Drift!Finished = Drift!Succeeded, undated = {},
                    NEW last \in Rollouts, Drift!DeliveredLast(last),
                    Drift!ObservedSince(last), NEW r \in Drift!RolledOut(Drift!Succeeded)
             PROVE  Drift!Drifted(r) <=> running.content # Drift!Frozen(last)
  BY DEF Drift!DriftFollowsTruth
<1>1. \A q \in Drift!Succeeded :
        q \in Rollouts /\ completedAt[q] = finishedAt[q] /\ finishedAt[q] \in Nat \ {0}
  BY DEF Drift!Succeeded, Drift!Finished, DriftInv, Drift!TypeOK, Drift!Instants
<1>2. last \in Drift!Succeeded /\ \A q \in Drift!Succeeded : finishedAt[q] <= finishedAt[last]
  BY DEF Drift!DeliveredLast
<1>3. r = last
  <2>1. r \in Drift!Succeeded /\ completedAt[last] <= completedAt[r]
    BY <1>2 DEF Drift!RolledOut
  <2>2. finishedAt[r] = finishedAt[last]
    BY <1>1, <1>2, <2>1
  <2> QED BY <1>1, <1>2, <2>1, <2>2 DEF DriftInv
<1>4. observed.rollout = last /\ last # 0 /\ Observed(last)
  BY DriftInstance DEF Drift!ObservedSince, DriftInv
<1>5. report[last].content = running.content
  BY <1>4 DEF Drift!ObservedSince, DriftInv, ReadBack, Observed
<1>6. observed.release = PlanOf[last].release
  BY <1>4 DEF Observed
<1>7. observed.revision = PlanOf[last].revision <=> running.content = Drift!Frozen(last)
  BY <1>4, <1>5, ProvedIsFrozen
<1> QED
  BY <1>3, <1>4, <1>6, <1>7 DEF Drift!Drifted, Drift!Differs

LEMMA DriftInvFollowsTruth ==
  DriftInv => Drift!TypeOK /\ Drift!SilenceIsEarned /\ Drift!DriftFollowsTruth
BY DriftInvSilence, DriftInvTruth DEF DriftInv

-----------------------------------------------------------------------------
(***************************************************************************)
(* Pages of the fleet.                                                     *)
(***************************************************************************)
\* Where an element of a set of numbers stands.
Rank(S, r) == Cardinality({q \in S : q <= r})

LEMMA RankIsWithin ==
  ASSUME NEW S \in SUBSET Nat, IsFiniteSet(S), NEW r \in S
  PROVE  Rank(S, r) \in Nat /\ 1 <= Rank(S, r) /\ Rank(S, r) <= Cardinality(S)
<1> DEFINE below == {q \in S : q <= r}
<1>1. r \in below /\ below \subseteq S
  OBVIOUS
<1>2. IsFiniteSet(below) /\ Cardinality(below) <= Cardinality(S)
  BY <1>1, FS_Subset
<1>3. Cardinality(below) # 0
  BY <1>1, <1>2, FS_EmptySet
<1> QED BY <1>2, <1>3, FS_CardinalityType DEF Rank

LEMMA RankTellsApart ==
  ASSUME NEW S \in SUBSET Nat, IsFiniteSet(S), NEW p \in S, NEW r \in S,
         Rank(S, p) = Rank(S, r)
  PROVE  p = r
<1>1. ASSUME NEW a \in S, NEW b \in S, a < b
      PROVE  Rank(S, a) # Rank(S, b)
  <2> DEFINE A == {q \in S : q <= a}
             B == {q \in S : q <= b}
  <2>1. a \in Nat /\ b \in Nat
    OBVIOUS
  <2>4. A \subseteq B
    <3>1. ASSUME NEW q \in S, q <= a
          PROVE  q <= b
      <4>1. q \in Nat
        OBVIOUS
      <4> QED BY <1>1, <2>1, <3>1, <4>1
    <3> QED BY <3>1
  <2>5. b \in B /\ b \notin A
    BY <1>1, <2>1
  <2>2. IsFiniteSet(B)
    BY FS_Subset
  <2> HIDE DEF A, B
  <2>3. Cardinality(A) # Cardinality(B)
    BY <2>2, <2>4, <2>5, FS_Subset
  <2> QED BY <2>3 DEF Rank, A, B
<1> QED BY <1>1

\* One element more moves what stands behind it by one.
LEMMA RankMoves ==
  ASSUME NEW S \in SUBSET Nat, IsFiniteSet(S), NEW x \in Nat \ S, NEW r \in Nat
  PROVE  Rank(S \cup {x}, r) \in {Rank(S, r), Rank(S, r) + 1}
<1> DEFINE below == {q \in S : q <= r}
<1>1. IsFiniteSet(below)
  BY FS_Subset
<1>2. {q \in S \cup {x} : q <= r} = IF x <= r THEN below \cup {x} ELSE below
  OBVIOUS
<1>3. Cardinality(below \cup {x}) = Cardinality(below) + 1
  BY <1>1, FS_AddElement
<1> QED BY <1>2, <1>3 DEF Rank

\* A set that gains at most one element.
LEMMA OneMore ==
  ASSUME NEW S, NEW T, IsFiniteSet(S), \A a, b \in T \ S : a = b
  PROVE  IsFiniteSet(T) /\ Cardinality(T) <= Cardinality(S) + 1
<1>1. CASE T \subseteq S
  BY <1>1, FS_Subset, FS_CardinalityType
<1>2. CASE T \ S # {}
  <2>1. PICK a \in T \ S : TRUE
    BY <1>2
  <2>2. T \subseteq S \cup {a}
    BY <2>1
  <2>3. IsFiniteSet(S \cup {a}) /\ Cardinality(S \cup {a}) = Cardinality(S) + 1
    BY <2>1, FS_AddElement
  <2> QED BY <2>2, <2>3, FS_Subset
<1> QED BY <1>1, <1>2

-----------------------------------------------------------------------------
\* How many targets the pages before this one held.
Offset == (page - 1) * PageSize

\* The targets the walk will not come to any more: they moved to a page before,
\* or behind the last page while the count says it is the last.
Lost ==
  {r \in throughout :
     /\ shown[r] = 0
     /\ \/ step = "done"
        \/ Pages!Position(r) <= Offset
        \/ step = "page" /\ ~Pages!HasMore /\ Pages!Position(r) > Offset + PageSize}

\* The targets the walk has shown twice, or will.
Twice ==
  {r \in throughout :
     \/ shown[r] > 1
     \/ shown[r] = 1 /\ step # "done" /\ Pages!Position(r) > Offset}

PagesInv ==
  /\ Pages!TypeOK
  /\ throughout \subseteq matching
  /\ IsFiniteSet(Lost) /\ Cardinality(Lost) <= changes
  /\ IsFiniteSet(Twice) /\ Cardinality(Twice) <= changes

\* The instance counts as this module does.
LEMMA PagesCount ==
  ASSUME NEW S
  PROVE  Pages!Cardinality(S) = Cardinality(S) /\ (Pages!IsFiniteSet(S) <=> IsFiniteSet(S))
<1>1. Pages!Cardinality(S) = Cardinality(S)
  BY DEF Pages!Cardinality, Cardinality
<1>2. Pages!IsFiniteSet(S) <=> IsFiniteSet(S)
  BY DEF Pages!IsFiniteSet, IsFiniteSet
<1> QED BY <1>1, <1>2

LEMMA PositionIsRank ==
  ASSUME NEW r
  PROVE  Pages!Position(r) = Rank(matching, r) /\ Pages!Position(r)' = Rank(matching', r)
BY PagesCount DEF Pages!Position, Rank

LEMMA PagesBounds ==
  /\ Refs \subseteq Nat /\ IsFiniteSet(Refs) /\ Cardinality(Refs) \in Nat
  /\ PageSize \in Nat \ {0} /\ MaxChanges \in Nat
<1>1. Refs \subseteq Nat /\ IsFiniteSet(Refs) /\ PageSize \in Nat \ {0} /\ MaxChanges \in Nat
  BY AnswersInputs, PagesCount DEF Pages!PageBounds
<1> QED BY <1>1, FS_CardinalityType

\* The offset of the page under way and of the one behind it.
LEMMA OffsetIsNat ==
  ASSUME Pages!TypeOK
  PROVE  /\ Offset \in Nat /\ page * PageSize = Offset + PageSize
         /\ page \in Nat /\ (page + 1 - 1) * PageSize = Offset + PageSize
<1>1. page \in Nat \ {0} /\ PageSize \in Nat
  BY PagesBounds DEF Pages!TypeOK
<1>2. page - 1 \in Nat
  BY <1>1
<1>3. (page - 1) * PageSize \in Nat /\ page * PageSize = (page - 1) * PageSize + PageSize
        /\ page + 1 - 1 = page
  BY <1>1, <1>2
<1> QED BY <1>1, <1>3 DEF Offset

LEMMA MatchingIsFinite ==
  ASSUME PagesInv
  PROVE  /\ IsFiniteSet(matching) /\ matching \in SUBSET Nat
         /\ Cardinality(matching) \in 0..Cardinality(Refs)
<1>1. matching \subseteq Refs
  BY DEF PagesInv, Pages!TypeOK
<1>2. IsFiniteSet(matching) /\ Cardinality(matching) <= Cardinality(Refs)
  BY <1>1, PagesBounds, FS_Subset
<1> QED BY <1>1, <1>2, PagesBounds, FS_CardinalityType

LEMMA PositionIsWithin ==
  ASSUME PagesInv, NEW r \in matching
  PROVE  /\ Pages!Position(r) \in Nat /\ 1 <= Pages!Position(r)
         /\ Pages!Position(r) <= Cardinality(matching)
BY MatchingIsFinite, RankIsWithin, PositionIsRank

LEMMA PagesInitially == Pages!Init => PagesInv
<1> SUFFICES ASSUME Pages!Init PROVE PagesInv
  OBVIOUS
<1>1. Pages!TypeOK /\ throughout \subseteq matching
  BY PagesBounds, PagesCount DEF Pages!Init, Pages!TypeOK
<1>2. Offset = 0
  BY PagesBounds DEF Offset, Pages!Init
<1>3. \A r \in throughout : ~(Pages!Position(r) <= 0) /\ shown[r] = 0
  <2>1. IsFiniteSet(matching) /\ matching \in SUBSET Nat
    BY PagesBounds, FS_Subset DEF Pages!Init
  <2>2. \A r \in matching : 1 <= Rank(matching, r) /\ Rank(matching, r) \in Nat
    BY <2>1, RankIsWithin
  <2> QED BY <2>2, PositionIsRank DEF Pages!Init
<1>4. Lost = {} /\ Twice = {}
  BY <1>2, <1>3 DEF Lost, Twice, Pages!Init
<1> QED BY <1>1, <1>4, FS_EmptySet DEF PagesInv, Pages!Init

\* The count says the walk is over only when nothing stands behind this page.
LEMMA CountStep ==
  ASSUME PagesInv, Pages!CountMatching
  PROVE  PagesInv'
<1>1. /\ step = "count" /\ step' = "page" /\ total' = Cardinality(matching)
      /\ UNCHANGED <<matching, page, shown, changes, throughout>>
  BY PagesCount DEF Pages!CountMatching
<1>2. Pages!TypeOK' /\ throughout' \subseteq matching'
  BY <1>1, MatchingIsFinite, PagesCount DEF PagesInv, Pages!TypeOK
<1>3. Offset' = Offset /\ \A r : Pages!Position(r)' = Pages!Position(r)
  BY <1>1 DEF Offset, Pages!Position
<1>4. \A r \in throughout : ~Pages!HasMore' => ~(Pages!Position(r) > Offset + PageSize)
  BY <1>1, MatchingIsFinite, PositionIsWithin, OffsetIsNat, PagesBounds
     DEF PagesInv, Pages!HasMore
<1>5. Lost' \subseteq Lost
  BY <1>1, <1>3, <1>4 DEF Lost
<1>6. Twice' = Twice
  BY <1>1, <1>3 DEF Twice
<1> QED
  BY <1>1, <1>2, <1>5, <1>6, FS_Subset, FS_CardinalityType DEF PagesInv, Pages!TypeOK

\* Reading a page loses nothing that was not lost, and repeats nothing that had
\* not moved behind the pages that showed it.
LEMMA ReadPageStep ==
  ASSUME PagesInv, Pages!ReadPage
  PROVE  PagesInv'
<1> DEFINE InPage(r) == r \in Pages!PageOf(page)
<1>1. /\ step = "page" /\ UNCHANGED <<matching, total, changes, throughout>>
      /\ shown' = [r \in Refs |-> shown[r] + (IF InPage(r) THEN 1 ELSE 0)]
      /\ IF Pages!HasMore THEN step' = "count" /\ page' = page + 1
                          ELSE step' = "done" /\ page' = page
  BY DEF Pages!ReadPage
<1>2. /\ \A r \in throughout :
           InPage(r) <=> Offset < Pages!Position(r) /\ Pages!Position(r) <= Offset + PageSize
      /\ \A r \in throughout : r \in Refs /\ Pages!Position(r) \in Nat /\ shown[r] \in Nat
  BY OffsetIsNat, PositionIsWithin DEF PagesInv, Pages!TypeOK, Pages!PageOf, Offset
<1>3. Offset \in Nat /\ PageSize \in Nat
        /\ Offset' = IF Pages!HasMore THEN Offset + PageSize ELSE Offset
  BY <1>1, OffsetIsNat, PagesBounds DEF Offset, PagesInv
<1>4. \A r \in throughout : shown'[r] = IF InPage(r) THEN shown[r] + 1 ELSE shown[r]
  BY <1>1, <1>2
<1>5. \A r : Pages!Position(r)' = Pages!Position(r)
  BY <1>1 DEF Pages!Position
<1>6. Pages!TypeOK' /\ throughout' \subseteq matching'
  <2>1. shown' \in [Refs -> Nat]
    BY <1>1 DEF PagesInv, Pages!TypeOK
  <2>2. page' \in Nat \ {0}
    BY <1>1 DEF PagesInv, Pages!TypeOK
  <2>3. page' > 1 => (page' - 1) * PageSize < Cardinality(Refs)
    <3>1. CASE Pages!HasMore
      <4>1. Offset + PageSize < total /\ total \in 0..Cardinality(Refs)
        BY <3>1, OffsetIsNat, PagesCount DEF Pages!HasMore, PagesInv, Pages!TypeOK
      <4>2. (page' - 1) * PageSize = Offset + PageSize
        BY <1>1, <3>1, OffsetIsNat DEF PagesInv
      <4> QED BY <1>3, <4>1, <4>2, PagesBounds
    <3>2. CASE ~Pages!HasMore
      BY <1>1, <3>2, PagesCount DEF PagesInv, Pages!TypeOK
    <3> QED BY <3>1, <3>2
  <2> QED BY <1>1, <2>1, <2>2, <2>3, PagesCount DEF PagesInv, Pages!TypeOK
<1>7. Lost' \subseteq Lost
  <2>1. SUFFICES ASSUME NEW r \in throughout, shown'[r] = 0,
                        step' = "done" \/ Pages!Position(r) <= Offset'
                        \/ step' = "page"
                 PROVE  r \in Lost
    BY <1>1, <1>5 DEF Lost
  <2>2. shown[r] = 0 /\ ~InPage(r)
    BY <1>2, <1>4, <2>1
  <2>3. Pages!Position(r) <= Offset \/ Pages!Position(r) > Offset + PageSize
    BY <1>2, <1>3, <2>2
  <2>4. Pages!HasMore => Pages!Position(r) <= Offset
    BY <1>1, <1>2, <1>3, <2>1, <2>3
  <2> QED BY <1>1, <2>2, <2>3, <2>4 DEF Lost
<1>8. Twice' \subseteq Twice
  <2>0. throughout' = throughout
    BY <1>1
  <2>1. SUFFICES ASSUME NEW r \in throughout,
                        \/ shown'[r] > 1
                        \/ shown'[r] = 1 /\ step' # "done" /\ Pages!Position(r) > Offset'
                 PROVE  r \in Twice
    BY <1>5, <2>0 DEF Twice
  <2>2. shown[r] > 1 \/ (shown[r] = 1 /\ Pages!Position(r) > Offset)
    <3>1. CASE InPage(r)
      BY <1>1, <1>2, <1>3, <1>4, <2>1, <3>1
    <3>2. CASE ~InPage(r)
      <4>1. shown'[r] = shown[r]
        BY <1>4, <3>2
      <4>2. Pages!Position(r) > Offset' => Pages!Position(r) > Offset
        BY <1>2, <1>3
      <4> QED BY <2>1, <4>1, <4>2
    <3> QED BY <3>1, <3>2
  <2> QED BY <1>1, <2>2 DEF Twice
<1> QED
  BY <1>1, <1>6, <1>7, <1>8, FS_Subset, FS_CardinalityType DEF PagesInv, Pages!TypeOK

\* A change moves one target across the border of this page at most, either way.
LEMMA ChangeFleetStep ==
  ASSUME PagesInv, NEW x \in Refs, Pages!ChangeFleet(x)
  PROVE  PagesInv'
<1>1. /\ step # "done" /\ changes < MaxChanges /\ changes' = changes + 1
      /\ matching' = IF x \in matching THEN matching \ {x} ELSE matching \cup {x}
      /\ throughout' = throughout \ {x} /\ UNCHANGED <<page, step, total, shown>>
  BY DEF Pages!ChangeFleet
<1>2. Pages!TypeOK' /\ throughout' \subseteq matching'
  <2>1. changes' \in 0..MaxChanges
    BY <1>1, PagesBounds DEF PagesInv, Pages!TypeOK
  <2> QED BY <1>1, <2>1 DEF PagesInv, Pages!TypeOK
<1> DEFINE P(r) == Pages!Position(r)
           Q(r) == Pages!Position(r)'
<1>3. Offset' = Offset /\ Offset \in Nat /\ PageSize \in Nat
        /\ Pages!HasMore' = Pages!HasMore
  BY <1>1, OffsetIsNat, PagesBounds DEF Offset, PagesInv, Pages!HasMore
<1>4. \A r \in throughout' : r \in throughout /\ r \in matching /\ P(r) \in Nat
  BY <1>1, PositionIsWithin DEF PagesInv
<1>5. \A a, b \in throughout' : P(a) = P(b) => a = b
  BY <1>4, MatchingIsFinite, RankTellsApart, PositionIsRank
<1>6. \A r \in throughout' : Q(r) = Rank(matching', r)
  BY PositionIsRank
<1>9. ASSUME \A a, b \in Lost' \ Lost : a = b, \A a, b \in Twice' \ Twice : a = b
      PROVE  PagesInv'
  <2>1. /\ IsFiniteSet(Lost) /\ Cardinality(Lost) <= changes
        /\ IsFiniteSet(Twice) /\ Cardinality(Twice) <= changes
        /\ changes \in Nat
    BY DEF PagesInv, Pages!TypeOK
  <2>2. /\ IsFiniteSet(Lost') /\ Cardinality(Lost') <= Cardinality(Lost) + 1
        /\ IsFiniteSet(Twice') /\ Cardinality(Twice') <= Cardinality(Twice) + 1
    BY <1>9, <2>1, OneMore
  <2>3. /\ Cardinality(Lost) \in Nat /\ Cardinality(Twice) \in Nat
        /\ Cardinality(Lost') \in Nat /\ Cardinality(Twice') \in Nat
    BY <2>1, <2>2, FS_CardinalityType
  <2>4. Cardinality(Lost') <= changes' /\ Cardinality(Twice') <= changes'
    BY <1>1, <2>1, <2>2, <2>3
  <2> QED BY <1>2, <2>2, <2>4 DEF PagesInv
<1>7. CASE x \in matching
  <2>1. \A r \in throughout' : Q(r) \in {P(r), P(r) - 1} /\ Q(r) \in Nat
    <3>1. matching = (matching \ {x}) \cup {x} /\ matching' = matching \ {x}
      BY <1>1, <1>7
    <3>2. IsFiniteSet(matching \ {x}) /\ matching \ {x} \in SUBSET Nat
      BY MatchingIsFinite, FS_Subset
    <3>3. ASSUME NEW r \in throughout'
          PROVE  Q(r) \in {P(r), P(r) - 1} /\ Q(r) \in Nat
      <4>1. r \in Nat /\ r \in matching \ {x} /\ x \in Nat
        BY <1>1, <1>4, <1>7, MatchingIsFinite
      <4>2. Rank(matching, r) \in {Rank(matching \ {x}, r), Rank(matching \ {x}, r) + 1}
        BY <3>1, <3>2, <4>1, RankMoves
      <4>3. Rank(matching \ {x}, r) \in Nat
        BY <3>2, <4>1, RankIsWithin
      <4> QED BY <1>6, <3>1, <4>2, <4>3, PositionIsRank
    <3> QED BY <3>3
  <2>2. \A a \in Lost' \ Lost : a \in throughout' /\ P(a) = Offset + 1
    BY <1>1, <1>3, <1>4, <2>1 DEF Lost
  <2>3. Twice' \subseteq Twice
    BY <1>1, <1>3, <1>4, <2>1 DEF Twice
  <2>4. \A a, b \in Lost' \ Lost : a = b
    BY <1>5, <2>2
  <2>5. \A a, b \in Twice' \ Twice : a = b
    BY <2>3
  <2> QED BY <1>9, <2>4, <2>5
<1>8. CASE x \notin matching
  <2>1. \A r \in throughout' : Q(r) \in {P(r), P(r) + 1}
    <3>1. x \in Nat \ matching /\ \A r \in throughout' : r \in Nat
      BY <1>4, <1>8, MatchingIsFinite, PagesBounds
    <3> QED BY <1>1, <1>6, <1>8, <3>1, MatchingIsFinite, RankMoves, PositionIsRank
  <2>2. \A a \in Lost' \ Lost : a \in throughout' /\ P(a) = Offset + PageSize
    BY <1>1, <1>3, <1>4, <2>1 DEF Lost
  <2>3. \A a \in Twice' \ Twice : a \in throughout' /\ P(a) = Offset
    BY <1>1, <1>3, <1>4, <2>1 DEF Twice
  <2>4. \A a, b \in Lost' \ Lost : a = b
    BY <1>5, <2>2
  <2>5. \A a, b \in Twice' \ Twice : a = b
    BY <1>5, <2>3
  <2> QED BY <1>9, <2>4, <2>5
<1> QED BY <1>7, <1>8

LEMMA PagesStep == PagesInv /\ [Pages!Next]_(Pages!pageVars) => PagesInv'
<1> SUFFICES ASSUME PagesInv, [Pages!Next]_(Pages!pageVars) PROVE PagesInv'
  OBVIOUS
<1>1. CASE UNCHANGED Pages!pageVars
  BY <1>1 DEF Pages!pageVars, PagesInv, Pages!TypeOK, Lost, Twice, Offset,
              Pages!Position, Pages!HasMore
<1>2. ASSUME NEW x \in Refs, Pages!ChangeFleet(x)
      PROVE  PagesInv'
  BY <1>2, ChangeFleetStep
<1> QED BY <1>1, <1>2, CountStep, ReadPageStep DEF Pages!Next

LEMMA PagesInvCosts == PagesInv => Pages!TypeOK /\ Pages!EachChangeCostsOne
<1> SUFFICES ASSUME PagesInv PROVE Pages!EachChangeCostsOne
  BY DEF PagesInv
<1>1. Pages!Missed \subseteq Lost /\ Pages!Repeated \subseteq Twice
  BY DEF Pages!Missed, Pages!Repeated, Lost, Twice
<1>2. /\ Cardinality(Pages!Missed) <= Cardinality(Lost)
      /\ Cardinality(Pages!Repeated) <= Cardinality(Twice)
      /\ Cardinality(Pages!Missed) \in Nat /\ Cardinality(Pages!Repeated) \in Nat
      /\ Cardinality(Lost) \in Nat /\ Cardinality(Twice) \in Nat
  BY <1>1, FS_Subset, FS_CardinalityType DEF PagesInv
<1> QED BY <1>2, PagesCount DEF PagesInv, Pages!TypeOK, Pages!EachChangeCostsOne

-----------------------------------------------------------------------------
(***************************************************************************)
(* The whole.                                                              *)
(***************************************************************************)

\* The state stays in its types and every acceptance stands on its terms.
LEMMA HealthInvariant == Spec => []HealthInv
BY HealthInitially, HealthStep, PTL DEF Spec

LEMMA RecoveryInvariant == Recovery!Spec => []RecoveryInv
BY RecoveryInitially, RecoveryStep, PTL DEF Recovery!Spec

LEMMA RehearsalInvariant == Rehearsal!Spec => []RehearsalInv
BY RehearsalInitially, RehearsalStep, PTL DEF Rehearsal!Spec

LEMMA DriftInvariant == Drift!Spec => []DriftInv
BY DriftInitially, DriftStep, PTL DEF Drift!Spec

LEMMA PagesInvariant == Pages!Spec => []PagesInv
BY PagesInitially, PagesStep, PTL DEF Pages!Spec

\* Whatever is asked, each component behaves by its own specification: it answers,
\* or it stays where it is.  What is proved of one holds of the whole.
THEOREM ComponentsStandAlone ==
  AnswersSpec =>
    Spec /\ Recovery!Spec /\ Rehearsal!Spec /\ Drift!Spec /\ Pages!Spec
<1>1. AnswersInit => Init /\ Recovery!Init /\ Rehearsal!Init /\ Drift!Init /\ Pages!Init
  BY DEF AnswersInit
<1>2. [AnswersNext]_answersVars => [Next]_vars
  BY DEF AnswersNext, answersVars
<1>3. [AnswersNext]_answersVars => [Recovery!Next]_(Recovery!grantVars)
  BY DEF AnswersNext, answersVars, grantState, Recovery!grantVars
<1>4. [AnswersNext]_answersVars => [Rehearsal!Next]_(Rehearsal!rehearsalVars)
  BY DEF AnswersNext, answersVars, rehearsalState, Rehearsal!rehearsalVars
<1>5. [AnswersNext]_answersVars => [Drift!Next]_(Drift!driftVars)
  BY DEF AnswersNext, answersVars, driftState, Drift!driftVars
<1>6. [AnswersNext]_answersVars => [Pages!Next]_(Pages!pageVars)
  BY DEF AnswersNext, answersVars, pageState, Pages!pageVars
<1>7. QED
  BY <1>1, <1>2, <1>3, <1>4, <1>5, <1>6, PTL
     DEF AnswersSpec, Spec, Recovery!Spec, Rehearsal!Spec, Drift!Spec, Pages!Spec

\* Every document, statement and answer has its form.
THEOREM TypesHold == AnswersSpec => []TypeOK
<1>1. HealthInv => TypeOK
    BY DEF HealthInv
<1>2. QED
    BY <1>1, HealthInvariant, ComponentsStandAlone, PTL

\* What is accepted was earned from both parties and lies inside both windows
\* (verify_authorization_envelope_v3, IssuanceV3).
THEOREM AcceptanceIsEarned == AnswersSpec => []AcceptedWithinEvidence
<1>1. ASSUME HealthInv
      PROVE  AcceptedWithinEvidence
    <2> SUFFICES ASSUME Accepted
                 PROVE  LET t == answer.statement.terms
                        IN  /\ t.evidence \in healthSigned
                            /\ t.roster # {} /\ t.evidence.components = t.roster
                            /\ t.evidence.evaluated <= answer.at
                            /\ answer.at < t.expires
                            /\ t.expires <= t.evidence.until
                            /\ t.subject = answer.subject
        BY DEF AcceptedWithinEvidence
    <2>1. answer.statement \in signed
        BY <1>1 DEF HealthInv, AcceptedOnTerms
    <2>2. Earned(answer.statement)
        BY <1>1, <2>1 DEF HealthInv
    <2> QED BY <1>1, <2>2 DEF HealthInv, AcceptedOnTerms, Earned
<1>2. QED
    BY <1>1, HealthInvariant, ComponentsStandAlone, PTL

\* A statement altered on the way, or presented beside other evidence, is
\* refused (verify_authorization_envelope_v3).
THEOREM AlterationsAreRefused == AnswersSpec => []AlteredIsRefused
<1>1. HealthInv => AlteredIsRefused
    BY DEF HealthInv, AcceptedOnTerms, AlteredIsRefused
<1>2. QED
    BY <1>1, HealthInvariant, ComponentsStandAlone, PTL

\* A recovery that reads as valid was authorized at one instant of the call that
\* read it, for every set of grants, windows and documents anybody inserts and
\* withdraws meanwhile (recovery_standing_for_target, verify_recovery_grant).
THEOREM RecoveriesAreEarned == AnswersSpec => []RecoveryIsEarned
BY RecoveryInvariant, RecoveryInvEarns, ComponentsStandAlone, PTL

\* A rehearsal grant runs once, over bytes a reading outside it vouches for, for
\* every number of executors, artifacts and documents altered on the way
\* (verify_rehearsal_grant, _stage_rehearsal_consumption, CandidateArtifactV1).
THEOREM RehearsalsAreEvidenced == AnswersSpec => []RehearsalIsEvidenced
BY RehearsalInvariant, RehearsalInvEvidences, ComponentsStandAlone, PTL

\* No drift is reported only where an execution read back what was rolled out, and
\* a target observed through its last delivery since its last change is reported
\* as it runs, for every number of rollouts and every order and instant of their
\* executions, reports and settlements; and a walk over the pages of a fleet pays
\* for each change with one target missed and one repeated at most, for every
\* number of targets and every size of a page (drift, list_targets).
THEOREM FleetReportsHold == AnswersSpec => []FleetIsReported
<1>1. DriftInv /\ PagesInv => FleetIsReported
  BY DriftInvFollowsTruth, PagesInvCosts DEF FleetIsReported
<1>2. QED
  BY <1>1, DriftInvariant, PagesInvariant, ComponentsStandAlone, PTL
=============================================================================
