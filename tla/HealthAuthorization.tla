------------------------- MODULE HealthAuthorization -------------------------
(***************************************************************************)
(* Portable authorizations that bind Platform Health's evidence            *)
(* (authorization_v3.py).  Platform Health signs evidence documents;       *)
(* Control verifies one, binds it into a statement and signs that; whoever *)
(* carries the envelope presents it, as it is or altered, at any instant   *)
(* and for any subject.  Signatures are ideal: one is valid exactly for    *)
(* what its party signed.  A digest is the document it is computed over.   *)
(***************************************************************************)
EXTENDS Naturals, FiniteSets

CONSTANTS Subjects,    \* the deployments an authorization may be asked for
          Components,  \* codes of the components evidence speaks of
          MaxInstant,  \* bound on the instants documents and callers name
          MaxSigned,   \* bound on what each party signs
          None

ASSUME HealthAuthorizationAssumption ==
    /\ MaxInstant \in Nat
    /\ Subjects # {}
    /\ None \notin {"malformed", "evidence_window_exceeded"}

Instants == 0..MaxInstant

Approvals == {"granted", "approval_exempt", "revoked"}

\* What canonical_bytes says: components do not repeat.
Evidence == [components : SUBSET Components, evaluated : Instants, until : Instants]

\* The terms a statement signs, its own digest apart.
Terms == [subject : Subjects, approval : Approvals, evidence : Evidence,
          roster : SUBSET Components, evaluated : Instants, until : Instants,
          issued : Instants, expires : Instants]

Statement == [terms : Terms, digest : Terms]

VARIABLES healthSigned,  \* the evidence Platform Health signed
          signed,        \* the statements Control signed
          answer         \* the last presentation and what was answered

vars == <<healthSigned, signed, answer>>

-----------------------------------------------------------------------------
(* Parsing *)

\* Faulty variant: Control's expiry may outlive the evidence.
ParseRefusalIgnoresWindow(t) ==
    IF t.roster = {} \/ t.expires <= t.issued THEN "malformed" ELSE None

\* What the constructor of a statement refuses.
ParseRefusal(t) ==
    IF t.roster = {} \/ t.expires <= t.issued THEN "malformed"
    ELSE IF t.expires > t.until THEN "evidence_window_exceeded"
    ELSE None

\* _require_evidence_temporal_order
InOrder(t) == t.evaluated <= t.issued /\ t.evaluated <= t.until

Standing(t) == t.approval \in {"granted", "approval_exempt"}

-----------------------------------------------------------------------------
(* Issuance *)

\* Platform Health signs what it evaluated; Control does not look inside.
SignEvidence(e) ==
    /\ Cardinality(healthSigned \cup {e}) <= MaxSigned
    /\ healthSigned' = healthSigned \cup {e}
    /\ UNCHANGED <<signed, answer>>

\* The signature over the exact bytes, and exactly the required roster.
Binds(e, roster) == e \in healthSigned /\ e.components = roster

\* The caller names the subject, the approval and the instants; the terms of
\* the evidence are Control's own reading of it.
Issue(e, roster, t) ==
    /\ Cardinality(signed \cup {[terms |-> t, digest |-> t]}) <= MaxSigned
    /\ Binds(e, roster)
    /\ t.evidence = e
    /\ t.roster = roster
    /\ t.evaluated = e.evaluated
    /\ t.until = e.until
    /\ ParseRefusal(t) = None
    /\ InOrder(t)
    /\ Standing(t)
    /\ signed' = signed \cup {[terms |-> t, digest |-> t]}
    /\ UNCHANGED <<healthSigned, answer>>

-----------------------------------------------------------------------------
(* Presentation *)

\* What may arrive for a signed statement: itself, or one term replaced.
Carried(s) ==
    {s} \cup {[s EXCEPT !.terms.subject = x] : x \in Subjects}
        \cup {[s EXCEPT !.terms.approval = x] : x \in Approvals}
        \cup {[s EXCEPT !.terms.roster = x] : x \in SUBSET Components}
        \cup {[s EXCEPT !.terms.evaluated = x] : x \in Instants}
        \cup {[s EXCEPT !.terms.until = x] : x \in Instants}
        \cup {[s EXCEPT !.terms.issued = x] : x \in Instants}
        \cup {[s EXCEPT !.terms.expires = x] : x \in Instants}

\* Evidence that may be handed in beside it: none, the evidence, or another.
Beside(s) == {None} \cup {[s.terms.evidence EXCEPT !.until = x] : x \in Instants}

\* verify_authorization_envelope_v3, in its order.  The subject is compared
\* term by term, each with a code of its own.
Verdict(s, subject, supplied, at) ==
    LET t == s.terms
    IN  CASE ParseRefusal(t) # None -> ParseRefusal(t)
          [] s \notin signed        -> "signature_invalid"
          [] ~InOrder(t)            -> "evidence_future_dated"
          [] t.evaluated > at       -> "evidence_future_dated"
          [] at < t.issued          -> "not_yet_valid"
          [] at >= t.until          -> "evidence_expired"
          [] at >= t.expires        -> "expired"
          [] ~Standing(t)           -> "approval_not_standing"
          [] s.digest # t           -> "control_plan_digest_mismatch"
          [] supplied # None /\ supplied # t.evidence -> "evidence_digest_mismatch"
          [] t.subject # subject    -> "subject_mismatch"
          [] OTHER                  -> "accepted"

\* The carrier may hand in evidence beside the envelope.
Present(s, subject, supplied, at) ==
    /\ answer' = [statement |-> s, subject |-> subject, supplied |-> supplied,
                  at |-> at, code |-> Verdict(s, subject, supplied, at)]
    /\ UNCHANGED <<healthSigned, signed>>

-----------------------------------------------------------------------------

Init ==
    /\ healthSigned = {}
    /\ signed = {}
    /\ answer = None

\* One evaluation is enough for an issuance; the caller chooses the rest.
Issuance(e) ==
    \E roster \in SUBSET Components, x \in Subjects, a \in Approvals,
       issued, expires \in Instants :
        Issue(e, roster, [subject |-> x, approval |-> a, evidence |-> e,
                          roster |-> roster, evaluated |-> e.evaluated,
                          until |-> e.until, issued |-> issued, expires |-> expires])

Presentation(s) ==
    \E c \in Carried(s), x \in Subjects, supplied \in Beside(s), at \in Instants :
        Present(c, x, supplied, at)

Next ==
    \/ \E e \in Evidence : SignEvidence(e) \/ Issuance(e)
    \/ \E s \in signed : Presentation(s)

Spec == Init /\ [][Next]_vars

-----------------------------------------------------------------------------

Codes == {"malformed", "evidence_window_exceeded", "signature_invalid",
          "evidence_future_dated", "not_yet_valid", "evidence_expired", "expired",
          "approval_not_standing", "control_plan_digest_mismatch",
          "evidence_digest_mismatch", "subject_mismatch", "accepted"}

Answer == [statement : Statement, subject : Subjects,
           supplied : Evidence \cup {None}, at : Instants, code : Codes]

\* Types of the state.
TypeOK ==
    /\ healthSigned \subseteq Evidence
    /\ signed \subseteq Statement
    /\ answer \in Answer \cup {None}

Accepted == answer # None /\ answer.code = "accepted"

\* What is accepted was earned from both parties: Platform Health signed
\* evidence for exactly the components the statement requires, Control bound
\* that evidence and no other, and the instant of the presentation lies after
\* the evaluation and inside both windows, of which Control's never outlasts
\* the evidence's (authorization_v3.py:29-34, 1079-1086).
AcceptedWithinEvidence ==
    Accepted =>
        LET t == answer.statement.terms
        IN  /\ t.evidence \in healthSigned
            /\ t.roster # {} /\ t.evidence.components = t.roster
            /\ t.evidence.evaluated <= answer.at
            /\ answer.at < t.expires /\ t.expires <= t.evidence.until
            /\ t.subject = answer.subject

\* A statement that was altered on the way is never accepted, and neither is
\* one presented beside evidence it does not bind (authorization_v3.py:1081-1085).
AlteredIsRefused ==
    Accepted => /\ answer.statement \in signed
                /\ answer.supplied \in {None, answer.statement.terms.evidence}
=============================================================================
