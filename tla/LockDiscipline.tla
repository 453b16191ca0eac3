---------------------------- MODULE LockDiscipline ----------------------------
(***************************************************************************)
(* The row locks the commands of the control plane take, in the order the  *)
(* code takes them.  A command runs in one transaction: it locks rows with *)
(* SELECT ... FOR UPDATE one after the other and holds them until it ends; *)
(* a row held by another transaction is waited for.  The service speaks of *)
(* one global order (target, credential, plan, then the rollout), of       *)
(* subjects sorted before they are locked, and of settlement and           *)
(* cancellation locking the rollout alone.                                 *)
(*                                                                         *)
(* Data are left out: a command is the sequence of rows it locks.  A row   *)
(* that the transaction holds already is not repeated.  The rows that      *)
(* foreign keys reference when something is inserted are rows the command  *)
(* holds, or rows nobody locks (attempts, enrolments, associations), so    *)
(* they add no waiting.                                                    *)
(***************************************************************************)
EXTENDS Naturals, Sequences

CONSTANTS
  Sessions,        \* the database transactions that run at once
  Commands,        \* idempotency keys of process_once_platform
  Targets, Credentials, Plans, Rollouts, Ledger,
  Signers, Hosts,  \* attestation subjects, by custody domain
  CredentialTarget, PlanTarget, RolloutPlan, LedgerPlan

ASSUME ReferencesAssumption ==
  /\ CredentialTarget \in [Credentials -> Targets]
  /\ PlanTarget \in [Plans -> Targets]
  /\ RolloutPlan \in [Rollouts -> Plans]
  /\ LedgerPlan \in [Ledger -> Plans]

VARIABLES
  todo,            \* the rows a transaction has still to lock, in order
  held             \* the rows it has locked

vars == <<todo, held>>

Row(class, id) == [class |-> class, id |-> id]

\* The classes of rows, numbered in the order in which every command goes through
\* them.  Subjects are sorted by custody domain first, and
\* "candidate_release_signer" is the lesser of the two.
KeyRow == 1
TargetRow == 2
CredentialRow == 3
HostRow == 4
PolicyRow == 5
SignerRow == 6
AttesterRow == 7
PlanRow == 8
RolloutRow == 9
LedgerRow == 10

Classes == 1 .. 10

Ids == Commands \cup Targets \cup Credentials \cup Plans \cup Rollouts
         \cup Ledger \cup Signers \cup Hosts

Rows == [class : Classes, id : Ids]

-------------------------------------------------------------------------------
(***************************************************************************)
(* What each handler locks                                                 *)
(***************************************************************************)

\* set_desired_state, suspend and decommission, enrol_credential, propose_plan
LocksOfTarget(t) == <<Row(TargetRow, t)>>

\* activate, revoke and expire a credential
LocksOfCredential(c) ==
  <<Row(TargetRow, CredentialTarget[c]), Row(CredentialRow, c)>>

\* approve, revoke the approval, cancel the plan, request a rollout, issue a
\* rehearsal-issuer authorization
LocksOfPlan(p) == <<Row(TargetRow, PlanTarget[p]), Row(PlanRow, p)>>

\* dispatch_attempt
LocksOfDispatch(r) ==
  <<Row(TargetRow, PlanTarget[RolloutPlan[r]]), Row(PlanRow, RolloutPlan[r]),
    Row(RolloutRow, r)>>

\* Faulty variant: settlement locks the rollout first and then goes upward.
SettlementUpward(r) ==
  <<Row(RolloutRow, r), Row(TargetRow, PlanTarget[RolloutPlan[r]])>>

\* settle_attempt, cancel_rollout, require_manual_repair: the rollout alone
LocksOfSettlement(r) == <<Row(RolloutRow, r)>>

\* Faulty variant: the key the report names is locked before its target.
CredentialFirst(c, p) ==
  <<Row(CredentialRow, c), Row(TargetRow, CredentialTarget[c]), Row(PlanRow, p)>>

\* record_observation
LocksOfObservation(c, p) ==
  <<Row(TargetRow, CredentialTarget[c]), Row(CredentialRow, c), Row(PlanRow, p)>>

\* bind, rotate and revoke a host; set, revise and revoke an admission policy
LocksOfHost(t) == <<Row(TargetRow, t), Row(HostRow, t)>>
LocksOfPolicy(t) ==
  <<Row(TargetRow, t), Row(HostRow, t), Row(PolicyRow, t)>>

\* enrol_root, close, revoke and repair: one subject
LocksOfSubject(class, subject) == <<Row(class, subject)>>

\* finalize_host_admission and the consumption it stages
LocksOfAdmission(c, r, signer, host) ==
  <<Row(TargetRow, CredentialTarget[c]), Row(CredentialRow, c),
    Row(HostRow, CredentialTarget[c]), Row(PolicyRow, CredentialTarget[c]),
    Row(SignerRow, signer), Row(AttesterRow, host),
    Row(PlanRow, RolloutPlan[r]), Row(RolloutRow, r)>>

\* consumption of a rehearsal-issuer authorization
LocksOfSpending(l) ==
  <<Row(TargetRow, PlanTarget[LedgerPlan[l]]), Row(PlanRow, LedgerPlan[l]),
    Row(LedgerRow, l)>>

\* revocation of one, and the two endings of a rehearsal grant
LocksOfLedger(l) == <<Row(LedgerRow, l)>>

Once(k, locks) == <<Row(KeyRow, k)>> \o locks

\* Handlers that run under process_once_platform, whose first write is the
\* unique row of the command's key.
KeyedWork ==
  {LocksOfTarget(t) : t \in Targets}
    \cup {LocksOfCredential(c) : c \in Credentials}
    \cup {LocksOfPlan(p) : p \in Plans}
    \cup {LocksOfDispatch(r) : r \in Rollouts}
    \cup {LocksOfSettlement(r) : r \in Rollouts}
    \cup {LocksOfObservation(x[1], x[2]) :
            x \in {y \in Credentials \X Plans :
                     PlanTarget[y[2]] = CredentialTarget[y[1]]}}

\* Handlers that run in the caller's transaction as they are.
PlainWork ==
  {LocksOfHost(t) : t \in Targets}
    \cup {LocksOfPolicy(t) : t \in Targets}
    \cup {LocksOfSubject(SignerRow, s) : s \in Signers}
    \cup {LocksOfSubject(AttesterRow, h) : h \in Hosts}
    \cup {LocksOfAdmission(x[1], x[2], x[3], x[4]) :
            x \in {y \in Credentials \X Rollouts \X Signers \X Hosts :
                     PlanTarget[RolloutPlan[y[2]]] = CredentialTarget[y[1]]}}
    \cup {LocksOfSpending(l) : l \in Ledger}
    \cup {LocksOfLedger(l) : l \in Ledger}

Work == PlainWork \cup {Once(x[1], x[2]) : x \in Commands \X KeyedWork}

-------------------------------------------------------------------------------
(***************************************************************************)
(* Transactions                                                            *)
(***************************************************************************)

Running(s) == todo[s] # <<>> \/ held[s] # {}

Init ==
  /\ todo = [s \in Sessions |-> <<>>]
  /\ held = [s \in Sessions |-> {}]

Begin(s) ==
  /\ ~Running(s)
  /\ \E locks \in Work : todo' = [todo EXCEPT ![s] = locks]
  /\ UNCHANGED held

\* Lock the next row.  What is read there may end the command: a refusal, or the
\* recorded result of a command that ran before.
Acquire(s) ==
  /\ todo[s] # <<>>
  /\ \A u \in Sessions \ {s} : Head(todo[s]) \notin held[u]
  /\ held' = [held EXCEPT ![s] = @ \cup {Head(todo[s])}]
  /\ \E rest \in {Tail(todo[s]), <<>>} : todo' = [todo EXCEPT ![s] = rest]

\* Commit or roll back.
End(s) ==
  /\ todo[s] = <<>>
  /\ held[s] # {}
  /\ held' = [held EXCEPT ![s] = {}]
  /\ UNCHANGED todo

Next == \E s \in Sessions : Begin(s) \/ Acquire(s) \/ End(s)

\* A command that was started goes on.  PostgreSQL queues the transactions that
\* wait for a row, so one of them is not passed over for ever.
Fairness == \A s \in Sessions : SF_vars(Acquire(s)) /\ WF_vars(End(s))

Spec == Init /\ [][Next]_vars /\ Fairness

-------------------------------------------------------------------------------
(***************************************************************************)
(* Properties                                                              *)
(***************************************************************************)

\* The type invariant: and a row is held by one transaction at a time.
TypeOK ==
  /\ todo \in [Sessions -> Seq(Rows)]
  /\ held \in [Sessions -> SUBSET Rows]
  /\ \A s, u \in Sessions : s # u => held[s] \cap held[u] = {}

WaitsFor(s, u) ==
  /\ u # s
  /\ todo[s] # <<>>
  /\ Head(todo[s]) \in held[u]

\* Never a circle of transactions that wait for one another, whatever commands
\* run at once: dispatch, settlement and cancellation of one rollout, revocation
\* of the approval or the credential beside the finalizer, reports, registry
\* changes (the "deadlock lottery" the consumption's lock order is to avoid).
NoCircularWait ==
  \A Q \in (SUBSET Sessions) \ {{}} :
    \E s \in Q : \A u \in Q : ~WaitsFor(s, u)

\* Every command that is started ends, and gives its rows back.
EveryCommandEnds == \A s \in Sessions : Running(s) ~> ~Running(s)

\* The inductive form: a transaction goes upward in the one order.
Upward(locks) ==
  \A i, j \in DOMAIN locks : i < j => locks[i].class < locks[j].class

UpwardOnly ==
  \A s \in Sessions :
    /\ Upward(todo[s])
    /\ \A r \in held[s], i \in DOMAIN todo[s] : r.class < todo[s][i].class
===============================================================================
