---------------------------- MODULE RehearsalLedger ----------------------------
(***************************************************************************)
(* The two ledgers of rehearsal authority: the authorizations to operate   *)
(* the rehearsal issuer, one for each lease, and the rehearsal grants.     *)
(* A command stages its write in a transaction that commits or aborts, or  *)
(* waits for the locks of another.                                         *)
(***************************************************************************)
EXTENDS Integers

CONSTANTS
  Ids,          \* authorizations to operate the issuer, one for each minting
  Grants,       \* rehearsal grants, issued by others
  Commands,     \* command ids of issuance
  Plans,        \* the issuer plans
  Targets,
  TargetOf,     \* the target of a plan
  Leases,
  Controllers,
  Evidence,     \* what the harness signs: a lease, a controller, a target, when
  Lifetime,     \* how long evidence is valid
  Ttl,          \* how long an authorization is valid at most
  MaxClock,     \* the last instant
  Calls,        \* the sessions that run the commands
  None          \* nothing yet

ASSUME RehearsalAssumption ==
  /\ Ids \cap Grants = {}
  /\ TargetOf \in [Plans -> Targets]
  /\ Evidence \subseteq
       [lease : Leases, controller : Controllers, target : Targets, at : Nat]
  /\ {Lifetime, Ttl} \subseteq Nat \ {0}
  /\ MaxClock \in Nat
  /\ None \notin Ids \cup Grants \cup Commands \cup Plans \cup Evidence

VARIABLES
  ledger,     \* the committed state of each row
  doc,        \* the signed statement of each minted authorization
  plan,       \* whether the plan's terms stand
  active,     \* whether the target is active
  clock,
  call,       \* what each session is doing
  acts,       \* how many callers were told they ended the authority of a row
  spentWith,  \* the evidence an authorization was spent with
  truth       \* whether what a reader asks has been true since it asked

rows == <<ledger, doc, acts, spentWith>>
world == <<plan, active, clock>>
vars == <<rows, world, call, truth>>

References == Ids \cup Grants
States == {"absent", "issued", "spent", "revoked"}
Statements ==
  [plan : Plans, command : Commands, evidence : Evidence,
   issued : 0..MaxClock, expires : Nat]
\* NULL is no statement and no holder.
ASSUME NoneIsNoRow ==
  None \notin Statements \cup [lease : Leases, controller : Controllers]

Idle ==
  [op |-> "none", step |-> "idle", id |-> None, plan |-> None,
   command |-> None, evidence |-> None, now |-> 0, row |-> "absent"]

Least(a, b) == IF a < b THEN a ELSE b

Init ==
  /\ ledger = [i \in References |-> IF i \in Grants THEN "issued" ELSE "absent"]
  /\ doc = [i \in Ids |-> None]
  /\ plan = [p \in Plans |-> "proposed"]
  /\ active = [t \in Targets |-> TRUE]
  /\ clock = 0
  /\ call = [c \in Calls |-> Idle]
  /\ acts = [i \in References |-> 0]
  /\ spentWith = [i \in Ids |-> None]
  /\ truth = [c \in Calls |-> FALSE]

-----------------------------------------------------------------------------
\* Locks, and what a session sees.

\* Faulty variant: Consumption reads its plan and target without their locks.
IssuersOnly(t) ==
  {c \in Calls : call[c].op = "issue" /\ call[c].step = "staged"
                 /\ TargetOf[call[c].plan] = t}

\* The sessions that hold the lock of the target.
TargetHolders(t) ==
  {c \in Calls : /\ call[c].op \in {"issue", "consume"}
                 /\ call[c].step \in {"locked", "staged"}
                 /\ TargetOf[call[c].plan] = t}

\* The sessions that hold the lock of the row.
RowHolders(i) ==
  {c \in Calls : /\ call[c].op \in {"consume", "spend", "revoke"}
                 /\ call[c].step = "staged"
                 /\ call[c].id = i}

\* The sessions that inserted a row and have not committed it.
Inserting == {c \in Calls : call[c].op = "issue" /\ call[c].step = "staged"}
Recorded == {i \in Ids : ledger[i] # "absent"}
Minted == {i \in Ids : doc[i] # None}
Results(cmd) == {i \in Recorded : doc[i].command = cmd}

\* The only state a row leaves: the guard of the commands and the trigger.
MayEnd(i) == ledger[i] = "issued"

Live(e, now) == e.at <= now /\ now < e.at + Lifetime

\* Faulty variant: The ledger's rows are read and no unique index makes an insert wait.
ReadBindingFree(e) ==
  \A i \in Recorded :
    /\ doc[i].evidence.lease # e.lease
    /\ doc[i].evidence.controller # e.controller

\* Lease and controller are free in the ledger and in what waits to enter it:
\* the unique indexes make an insert wait for another session's.
BindingFree(e) ==
  \A i \in Recorded \cup {call[c].id : c \in Inserting} :
    /\ doc[i].evidence.lease # e.lease
    /\ doc[i].evidence.controller # e.controller

\* Faulty variant: The evidence of the issuance is as good as a later one.
FreshEnough(i, e) == e.at >= doc[i].issued

\* A second presentation, made after the authorization was issued.
FreshFor(i, e) == e # doc[i].evidence /\ e.at > doc[i].issued

InWindow(i, now) == doc[i].issued <= now /\ now < doc[i].expires
Bears(i, e) ==
  doc[i].evidence.lease = e.lease /\ doc[i].evidence.controller = e.controller

Begin(c, r) ==
  /\ call[c] = Idle
  /\ call' = [call EXCEPT ![c] = [r EXCEPT !.now = clock, !.step = "waiting"]]
  /\ UNCHANGED <<rows, world>>

Goes(c, step) == call' = [call EXCEPT ![c].step = step]

Ends(c) == call' = [call EXCEPT ![c] = Idle]

-----------------------------------------------------------------------------
\* issue_rehearsal_issuer_authorization_for_plan

\* The clock and the evidence come before any lock.
BeginIssue(c) ==
  \E p \in Plans, cmd \in Commands, e \in Evidence :
    /\ Live(e, clock)
    /\ Begin(c, [Idle EXCEPT !.op = "issue", !.plan = p, !.command = cmd,
                             !.evidence = e])

\* The handler, under the locks of the target and the plan.
StageIssue(c) ==
  LET r == call[c]  e == r.evidence IN
  /\ r.op = "issue" /\ r.step = "waiting"
  /\ Results(r.command) = {}
  /\ \A d \in Inserting : call[d].command # r.command
  /\ TargetHolders(TargetOf[r.plan]) = {}
  /\ plan[r.plan] = "stands"
  /\ active[TargetOf[r.plan]]
  /\ e.target = TargetOf[r.plan]
  /\ BindingFree(e)
  /\ r.now < Least(r.now + Ttl, e.at + Lifetime)
  /\ \E i \in Ids \ Minted :
       /\ doc' = [doc EXCEPT ![i] =
            [plan |-> r.plan, command |-> r.command, evidence |-> e,
             issued |-> r.now, expires |-> Least(r.now + Ttl, e.at + Lifetime)]]
       /\ call' = [call EXCEPT ![c].id = i, ![c].step = "staged"]
  /\ UNCHANGED <<ledger, acts, spentWith, world>>

\* A command that ran before skips the handler: its result is looked up again,
\* and is answered only while it is issued for the plan asked for.
ReplayIssue(c) ==
  /\ call[c].op = "issue" /\ call[c].step = "waiting"
  /\ \E i \in Results(call[c].command) :
       /\ doc[i].plan = call[c].plan
       /\ ledger[i] = "issued"
  /\ Ends(c)
  /\ UNCHANGED <<rows, world>>

-----------------------------------------------------------------------------
\* stage_rehearsal_issuer_consumption, _stage_rehearsal_consumption and the
\* two revocations

BeginConsume(c) ==
  \E i \in Minted, e \in Evidence :
    /\ Live(e, clock)
    /\ Begin(c, [Idle EXCEPT !.op = "consume", !.id = i, !.evidence = e,
                             !.plan = doc[i].plan])

\* The target and the plan are locked before the row.
LockPlan(c) ==
  /\ call[c].op = "consume" /\ call[c].step = "waiting"
  /\ TargetHolders(TargetOf[call[c].plan]) = {}
  /\ Goes(c, "locked")
  /\ UNCHANGED <<rows, world>>

StageConsume(c) ==
  LET r == call[c]  i == r.id  e == r.evidence IN
  /\ r.op = "consume" /\ r.step = "locked"
  /\ RowHolders(i) = {}
  /\ i \in Recorded
  /\ FreshFor(i, e)
  /\ plan[r.plan] = "stands"
  /\ active[TargetOf[r.plan]]
  /\ e.target = TargetOf[r.plan]
  /\ InWindow(i, r.now)
  /\ Bears(i, e)
  /\ MayEnd(i)
  /\ Goes(c, "staged")
  /\ UNCHANGED <<rows, world>>

\* A rehearsal grant, and any revocation, takes the lock of its row alone.
BeginAlone(c) ==
  \/ \E g \in Grants : Begin(c, [Idle EXCEPT !.op = "spend", !.id = g])
  \/ \E i \in Minted \cup Grants :
       Begin(c, [Idle EXCEPT !.op = "revoke", !.id = i])

StageAlone(c) ==
  /\ call[c].op \in {"spend", "revoke"} /\ call[c].step = "waiting"
  /\ RowHolders(call[c].id) = {}
  /\ MayEnd(call[c].id)
  /\ Goes(c, "staged")
  /\ UNCHANGED <<rows, world>>

\* The caller commits what it staged.
Commit(c) ==
  LET r == call[c]  i == r.id IN
  /\ r.step = "staged"
  /\ ledger' = [ledger EXCEPT ![i] =
       CASE r.op = "issue" -> "issued"
         [] r.op \in {"consume", "spend"} -> "spent"
         [] r.op = "revoke" -> "revoked"]
  /\ acts' = [acts EXCEPT ![i] = IF r.op = "issue" THEN @ ELSE @ + 1]
  /\ spentWith' = IF r.op = "consume"
                  THEN [spentWith EXCEPT ![i] = r.evidence] ELSE spentWith
  /\ Ends(c)
  /\ UNCHANGED <<doc, world>>

\* A refusal, a rollback or a lost session: nothing of the call remains but
\* the document it signed.
Abandon(c) ==
  /\ call[c] # Idle
  /\ Ends(c)
  /\ UNCHANGED <<rows, world>>

-----------------------------------------------------------------------------
\* rehearsal_issuer_standing_for: a session of its own, without locks

BeginStanding(c) ==
  \E i \in Minted, e \in Evidence :
    /\ Live(e, clock)
    /\ Begin(c, [Idle EXCEPT !.op = "standing", !.id = i, !.evidence = e,
                             !.plan = doc[i].plan])

\* First the row of the document.
ReadRow(c) ==
  /\ call[c].op = "standing" /\ call[c].step = "waiting"
  /\ call' = [call EXCEPT ![c].row = ledger[call[c].id], ![c].step = "read"]
  /\ UNCHANGED <<rows, world>>

\* Faulty variant: A document resolves to its plan though no row records it.
ReadTermsOfDocument(c) ==
  LET r == call[c] IN
  /\ r.op = "standing" /\ r.step = "read"
  /\ IF r.row \in {"absent", "issued"} /\ plan[r.plan] = "stands"
     THEN Goes(c, "valid") ELSE Ends(c)
  /\ UNCHANGED <<rows, world>>

\* Then the terms of its plan; the answer is "valid" or it is not.
ReadTerms(c) ==
  LET r == call[c] IN
  /\ r.op = "standing" /\ r.step = "read"
  /\ IF /\ r.row = "issued"
        /\ plan[r.plan] = "stands"
        /\ InWindow(r.id, r.now)
        /\ Bears(r.id, r.evidence)
     THEN Goes(c, "valid") ELSE Ends(c)
  /\ UNCHANGED <<rows, world>>

-----------------------------------------------------------------------------
\* The rest of Control, under the lock of the target, and the clock

ChangeTarget(t) ==
  /\ TargetHolders(t) = {}
  /\ \/ /\ active' = [active EXCEPT ![t] = ~@]
        /\ UNCHANGED plan
     \/ /\ \E p \in Plans :
             /\ TargetOf[p] = t
             /\ plan[p] # "withdrawn"
             /\ plan' = [plan EXCEPT ![p] =
                  IF @ = "proposed" THEN "stands" ELSE "withdrawn"]
        /\ UNCHANGED active
  /\ UNCHANGED <<rows, clock, call>>

Tick ==
  /\ clock < MaxClock
  /\ clock' = clock + 1
  /\ UNCHANGED <<rows, plan, active, call>>

Step ==
  \/ \E c \in Calls :
       \/ BeginIssue(c) \/ StageIssue(c) \/ ReplayIssue(c)
       \/ BeginConsume(c) \/ LockPlan(c) \/ StageConsume(c)
       \/ BeginAlone(c) \/ StageAlone(c)
       \/ Commit(c) \/ Abandon(c)
       \/ BeginStanding(c) \/ ReadRow(c) \/ ReadTerms(c)
  \/ \E t \in Targets : ChangeTarget(t)
  \/ Tick

\* The document a reader asks about is in force at this instant.
InForce(c) ==
  call[c].op = "standing" /\ ledger[call[c].id] = "issued"
    /\ plan[call[c].plan] = "stands"

Witness ==
  truth' = [c \in Calls |->
    /\ call'[c] # Idle
    /\ truth[c] \/ InForce(c) \/ InForce(c)']

Next == Step /\ Witness
Spec == Init /\ [][Next]_vars

-----------------------------------------------------------------------------
\* Properties

\* Every variable holds what the ledger, the plan or a session can hold.
TypeOK ==
  /\ ledger \in [References -> States]
  /\ doc \in [Ids -> Statements \cup {None}]
  /\ plan \in [Plans -> {"proposed", "stands", "withdrawn"}]
  /\ active \in [Targets -> BOOLEAN]
  /\ clock \in 0..MaxClock
  /\ acts \in [References -> Nat]
  /\ spentWith \in [Ids -> Evidence \cup {None}]
  /\ truth \in [Calls -> BOOLEAN]
  /\ Recorded \subseteq Minted
  /\ \A c \in Calls :
       /\ call[c].op \in {"none", "issue", "consume", "spend", "revoke", "standing"}
       /\ call[c].id \in References \cup {None}
       /\ call[c].step = "idle" <=> call[c] = Idle
       /\ call[c].op \in {"consume", "standing"} => call[c].id \in Minted

\* A caller that was told it spent an authority, or revoked it, is the only
\* one: a committed spend wins over a revocation that waited for it, and the
\* reverse (stage_*_consumption, revoke_*).
EndedOnce == \A i \in References : acts[i] <= 1

\* One presentation of the harness serves one act: the evidence an
\* authorization was issued or spent with never issues or spends another, and
\* never does both (STALE_HARNESS_EVIDENCE, the unique lease).
OnePresentationOneUse ==
  \A i, j \in Recorded :
    /\ spentWith[i] # None => spentWith[i] # doc[j].evidence
    /\ i # j => /\ doc[i].evidence # doc[j].evidence
                /\ spentWith[i] # None => spentWith[i] # spentWith[j]

\* What is spent is spent under a plan that stands on a target that is active
\* at the commit, whatever was withdrawn while the call waited
\* (stage_rehearsal_issuer_consumption re-derives its terms under the locks).
SpentOnStandingTerms ==
  [][\A i \in Ids : ledger'[i] = "spent" /\ ledger[i] # "spent" =>
       /\ plan[doc[i].plan] = "stands"
       /\ active[TargetOf[doc[i].plan]]]_vars

\* A reader that is told "valid" was told something true at one instant of its
\* call: the row was committed and issued while the plan stood, though the two
\* were read apart (rehearsal_issuer_standing_for).
ValidWasTrue == \A c \in Calls : call[c].step = "valid" => truth[c]

\* Both ledgers keep the promise of a single-use authority: one lease and one
\* controller for each authorization, across all targets, and one end.
holder ==
  [i \in References |->
    IF i \in Recorded
    THEN [lease |-> doc[i].evidence.lease,
          controller |-> doc[i].evidence.controller]
    ELSE None]
Authority == INSTANCE AuthorityLedger WITH fate <- ledger
KeepsAuthority == Authority!AuthoritySpec
=============================================================================
