----------------------------- MODULE RecoveryGrants -----------------------------
(***************************************************************************)
(* Recovery grants: the signed document of recovery_grant.py, its rows,    *)
(* and recovery_standing_for_target of service.py, which asks whether one  *)
(* recovery may run now.                                                   *)
(*                                                                         *)
(* Nothing under src/ writes the rows: a grant is inserted and withdrawn   *)
(* from outside, at any time, and the stored envelope may be any document. *)
(* The reader loads the latest row, takes the clock and then loads the     *)
(* withdrawn ids, in that order and without locks.                         *)
(*                                                                         *)
(* A signature is the value it was made over together with the key.        *)
(***************************************************************************)
EXTENDS Naturals, FiniteSets

CONSTANTS
  Grants,      \* grant ids
  Subjects,    \* the recoveries asked for, as functions of their terms
  Windows,     \* windows a grant may carry
  Documents,   \* the documents somebody inserts: statement and signature
  MaxClock,    \* bound on the clock
  Absent       \* a key that is not in a statement

Terms == {"product_code", "discriminator", "target", "environment", "recovery_plan",
          "bundle", "prestate"}
Discriminator == "failed_system_observation.v1"
Decisions == {"granted", "approval_exempt"}
Clock == 0..MaxClock

\* RecoveryGrantStatementV1, with the terms of its subject.  A statement of a
\* Control older than the discriminator does not have that key.
Statements ==
  [schema: {"recovery_grant", "deployment_authorization"}, grant: Grants,
   subject: Subjects, window: Windows, decision: Decisions]
Signatures == [over: Statements, key: {"recovery", "other"}]

\* What an instance assumes.
GrantInputs ==
  /\ MaxClock \in Nat
  /\ \A w \in Windows : {w.from, w.issued, w.until} \subseteq Nat
  /\ \A s \in Subjects : s = [k \in Terms |-> s[k]]
  /\ Absent \notin {Discriminator, ""}
  /\ Documents \subseteq [statement: Statements, signature: Signatures]

VARIABLES
  clock,
  row,      \* recovery_grants, by grant id
  reader,   \* one call of recovery_standing_for_target
  truth     \* whether the recovery was authorized at an instant of the call

grantVars == <<clock, row, reader, truth>>

NoRow == [envelope |-> Absent]
Idle == [step |-> "idle"]
Standings == {"valid", "absent", "unresolved", "not_yet_valid", "expired", "revoked"}
AuthenticityRefusals == {"schema_mismatch", "malformed", "signature_invalid"}
Refusals ==
  AuthenticityRefusals \cup (Terms \ {"discriminator"}) \cup
  {"not_yet_valid", "expired", "revoked", "approval_not_standing",
   "prestate_undiscriminated", "prestate_unknown_discriminator", "none"}

\* Every answer is a standing with its refusal, and one never comes without the
\* other.
TypeOK ==
  /\ clock \in Clock
  /\ \A g \in Grants : row[g] # NoRow =>
       /\ row[g].envelope \in [statement: Statements, signature: Signatures]
       /\ row[g].revoked \in BOOLEAN
  /\ reader.step \in {"idle", "row", "clock", "answered"}
  /\ reader.step = "answered" =>
       /\ reader.standing \in Standings
       /\ reader.refusal \in Refusals
       /\ reader.standing \in {"valid", "absent"} <=> reader.refusal = "none"

-----------------------------------------------------------------------------
\* The statement the parser builds: a missing discriminator reads as "".
Parsed(statement) ==
  [statement EXCEPT !.subject.discriminator = IF @ = Absent THEN "" ELSE @]

\* The signature is checked over the bytes rendered again from what was parsed.
Verifies(envelope) ==
  envelope.signature = [over |-> Parsed(envelope.statement), key |-> "recovery"]

WellFormed(statement) ==
  /\ statement.window.from <= statement.window.issued
  /\ statement.window.issued < statement.window.until

\* The terms of the subject are compared in this order.
TermOrder ==
  [product_code |-> 1, discriminator |-> 2, target |-> 3, environment |-> 4,
   recovery_plan |-> 5, bundle |-> 6, prestate |-> 7]
Differing(a, b) == {k \in Terms : a[k] # b[k]}
FirstTerm(ks) == CHOOSE k \in ks : \A l \in ks : TermOrder[k] <= TermOrder[l]

\* The refusal a term that differs is given.
Mismatch(k) == IF k = "discriminator" THEN "prestate_unknown_discriminator" ELSE k

\* Faulty variant: the expiry instant itself is still inside the window.
RefusalAtExpiry(envelope, subject, at, withdrawn) ==
  LET s == Parsed(envelope.statement)
  IN
  IF s.schema # "recovery_grant" THEN "schema_mismatch"
  ELSE IF ~WellFormed(s) THEN "malformed"
  ELSE IF ~Verifies(envelope) THEN "signature_invalid"
  ELSE IF at < s.window.from THEN "not_yet_valid"
  ELSE IF at > s.window.until THEN "expired"
  ELSE IF s.grant \in withdrawn THEN "revoked"
  ELSE IF s.decision # "granted" THEN "approval_not_standing"
  ELSE IF s.subject.discriminator = "" THEN "prestate_undiscriminated"
  ELSE IF s.subject.discriminator # Discriminator THEN "prestate_unknown_discriminator"
  ELSE IF Differing(s.subject, subject) # {}
    THEN Mismatch(FirstTerm(Differing(s.subject, subject)))
  ELSE "none"

\* verify_recovery_grant: authenticity, then the window and the withdrawal, then
\* the subject term by term.
Refusal(envelope, subject, at, withdrawn) ==
  LET s == Parsed(envelope.statement)
  IN
  IF s.schema # "recovery_grant" THEN "schema_mismatch"
  ELSE IF ~WellFormed(s) THEN "malformed"
  ELSE IF ~Verifies(envelope) THEN "signature_invalid"
  ELSE IF at < s.window.from THEN "not_yet_valid"
  ELSE IF at >= s.window.until THEN "expired"
  ELSE IF s.grant \in withdrawn THEN "revoked"
  ELSE IF s.decision # "granted" THEN "approval_not_standing"
  ELSE IF s.subject.discriminator = "" THEN "prestate_undiscriminated"
  ELSE IF s.subject.discriminator # Discriminator THEN "prestate_unknown_discriminator"
  ELSE IF Differing(s.subject, subject) # {}
    THEN Mismatch(FirstTerm(Differing(s.subject, subject)))
  ELSE "none"

\* recovery_standing.
Standing(refusal) ==
  IF refusal = "none" THEN "valid"
  ELSE IF refusal \in {"not_yet_valid", "expired", "revoked"} THEN refusal
  ELSE "unresolved"

-----------------------------------------------------------------------------
Stored == {g \in Grants : row[g] # NoRow}
Withdrawn == {g \in Stored : row[g].revoked}

\* The grant the reader takes: the latest issued of the target's rows.
Latest ==
  {g \in Stored : \A h \in Stored :
     row[h].envelope.statement.window.issued <= row[g].envelope.statement.window.issued}

\* This recovery is authorized now, by what the signer of recovery grants signed.
Authorizes(subject) ==
  \E g \in Stored \ Withdrawn :
    LET e == row[g].envelope
        s == e.statement
    IN  /\ e.signature = [over |-> s, key |-> "recovery"]
        /\ s.schema = "recovery_grant"
        /\ s.grant = g
        /\ s.decision = "granted"
        /\ s.window.from <= clock /\ clock < s.window.until
        /\ s.subject = subject

Init ==
  /\ clock = 0
  /\ row = [g \in Grants |-> NoRow]
  /\ reader = Idle
  /\ truth = FALSE

\* A document is inserted under the grant id of its statement.
Insert(document) ==
  /\ row[document.statement.grant] = NoRow
  /\ row' = [row EXCEPT ![document.statement.grant] =
       [envelope |-> document, revoked |-> FALSE]]
  /\ UNCHANGED <<clock, reader>>

Withdraw(g) ==
  /\ g \in Stored \ Withdrawn
  /\ row' = [row EXCEPT ![g].revoked = TRUE]
  /\ UNCHANGED <<clock, reader>>

Tick ==
  /\ clock < MaxClock
  /\ clock' = clock + 1
  /\ UNCHANGED <<row, reader>>

-----------------------------------------------------------------------------
\* The caller states every term.  The envelope is taken from the latest row; no row
\* is an answer of its own.
BeginStanding(subject) ==
  /\ subject.discriminator # Absent
  /\ reader.step \in {"idle", "answered"}
  /\ IF Stored = {}
       THEN reader' = [step |-> "answered", subject |-> subject,
                       standing |-> "absent", refusal |-> "none"]
       ELSE \E g \in Latest :
              reader' = [step |-> "row", subject |-> subject,
                         envelope |-> row[g].envelope]
  /\ UNCHANGED <<clock, row>>

\* _control_now() is evaluated before the withdrawn ids are loaded.
TakeClock ==
  /\ reader.step = "row"
  /\ reader' = [step |-> "clock", subject |-> reader.subject,
                envelope |-> reader.envelope, at |-> clock]
  /\ UNCHANGED <<clock, row>>

Answer ==
  /\ reader.step = "clock"
  /\ LET refusal == Refusal(reader.envelope, reader.subject, reader.at, Withdrawn)
     IN  reader' = [step |-> "answered", subject |-> reader.subject,
                    standing |-> Standing(refusal), refusal |-> refusal,
                    envelope |-> reader.envelope]
  /\ UNCHANGED <<clock, row>>

Step ==
  \/ Tick
  \/ \E d \in Documents : Insert(d)
  \/ \E g \in Grants : Withdraw(g)
  \/ \E subject \in Subjects : BeginStanding(subject)
  \/ TakeClock
  \/ Answer

\* truth looks at every instant from the beginning of the call to its answer.
Witness ==
  truth' = CASE reader'.step = "row" /\ reader.step # "row" -> Authorizes(reader'.subject)
             [] reader.step \in {"row", "clock"} ->
                  truth \/ Authorizes(reader.subject) \/ Authorizes(reader.subject)'
             [] OTHER -> truth

Next == Step /\ Witness
Spec == Init /\ [][Next]_grantVars

-----------------------------------------------------------------------------
\* A recovery reads as authorized only if it was, at one single instant of the
\* call: the grant stored and not withdrawn, its window open, signed as it
\* stands, by the recovery key, for exactly this recovery.  Row, clock and
\* withdrawals are read at three different instants.
ValidWasTrue ==
  reader.step = "answered" /\ reader.standing = "valid" => truth

\* "a forged document never earns field-level diagnostics": a refusal about the
\* window, the withdrawal or a term is given only for a document that was signed
\* as it stands.
DiagnosticsAreEarned ==
  (reader.step = "answered" /\ reader.refusal \notin AuthenticityRefusals \cup {"none"}) =>
    reader.envelope.signature = [over |-> Parsed(reader.envelope.statement), key |-> "recovery"]
=============================================================================
