------------------------------ MODULE HostAdmission ------------------------------
(***************************************************************************)
(* From a presented dispatch to its consumption (ADR-0073), for one        *)
(* target: the append-only host associations and admission policies of     *)
(* host_admission_service.py, and the calls of the coordinator, which      *)
(* resolve a context without a lock, query by query, then take every lock  *)
(* and decide again.  The registry of roots is taken as it promises to be  *)
(* (TrustRegister); AttestationRegistry implements it.                     *)
(***************************************************************************)
EXTENDS Naturals, Sequences, FiniteSets

CONSTANTS
  Hosts, Signers,    \* the subjects of the two custody domains
  Keys,              \* root keys
  Dispatches,        \* signed dispatches of the target, by attempt
  Presentations,     \* signed presentations, each with its evidence
  Named,             \* the dispatch each presentation names
  Calls,             \* callers of the coordinator
  MayLapse,          \* what the clock may pass: roots, presentations, dispatches
  MaxRows,           \* bound on the rows of each history
  None

ASSUME AdmissionInputs ==
  /\ Named \in [Presentations -> Dispatches]
  /\ MayLapse \subseteq Keys \cup Presentations \cup Dispatches
  /\ MaxRows \in Nat
  /\ None \notin Hosts \cup Signers \cup Keys \cup Presentations \cup Dispatches \cup Calls

VARIABLES
  hosts,        \* the host associations of the target
  policies,     \* its admission policies
  root, spent,  \* the registry of trust roots
  eligible,     \* whether the presenting credential is active
  withdrawn,    \* dispatches that a command settled, cancelled or revoked
  lapsed,       \* what the clock has passed
  calls,        \* each caller: its query, context or answer
  tx,           \* the transaction that holds the target, or None
  consumed      \* the committed consumption of each dispatch

registry == <<root, spent>>
fleet == <<hosts, policies>>
clock == <<eligible, withdrawn, lapsed>>
vars == <<fleet, registry, clock, calls, tx, consumed>>

Roots == INSTANCE TrustRegister WITH Subjects <- Hosts \cup Signers

-----------------------------------------------------------------------------
(***************************************************************************)
(* A history: append-only rows and closures, and the current pointer.      *)
(***************************************************************************)
Histories(Row) ==
  [rows: {r \in Seq(Row) : Len(r) <= MaxRows}, closed: SUBSET (1..MaxRows), current: 0..MaxRows]
EmptyHistory == [rows |-> <<>>, closed |-> {}, current |-> 0]

Associations == Hosts
PolicyRows == [association: 1..MaxRows, signer: Signers]

OpenRows(h) == (DOMAIN h.rows) \ h.closed

\* require_current_..._locked: one open row, which the pointer names.
StandingRow(h) == IF OpenRows(h) = {h.current} THEN h.current ELSE 0

\* Faulty variant: a row that was closed is opened again.
OpenedAgain(h, row) ==
  [rows |-> IF row \in {h.rows[i] : i \in h.closed} THEN h.rows ELSE Append(h.rows, row),
   closed |-> (h.closed \cup {h.current}) \ {i \in 0..Len(h.rows) : i = 0 \/ h.rows[i] = row},
   current |-> IF row \in {h.rows[i] : i \in h.closed}
               THEN CHOOSE i \in h.closed : h.rows[i] = row ELSE Len(h.rows) + 1]

\* The first row, or one after the current: its successor closes that.
Opened(h, row) ==
  [rows |-> Append(h.rows, row),
   closed |-> IF h.current = 0 THEN h.closed ELSE h.closed \cup {h.current},
   current |-> Len(h.rows) + 1]

\* Revoked without a successor.
Withdrawn(h) == [h EXCEPT !.closed = @ \cup {h.current}, !.current = 0]

-----------------------------------------------------------------------------
(***************************************************************************)
(* Calls.                                                                  *)
(***************************************************************************)
NoContext == [presentation |-> None, association |-> 0, policy |-> 0,
              signerRoot |-> None, hostRoot |-> None]
Contexts ==
  [presentation: Presentations \cup {None}, association: 0..MaxRows, policy: 0..MaxRows,
   signerRoot: Keys \cup {None}, hostRoot: Keys \cup {None}]

Phases ==
  {"idle", "host", "hostPointer", "policy", "policyPointer", "signerRoot", "hostRoot",
   "resolved", "admitting", "staged", "unknown", "answered", "drift"}

\* NULL is no context and no transaction.
ASSUME NoneIsNoContext ==
  None \notin Contexts \cup [call: Calls, context: Contexts]

\* `then' is what had lapsed when the call read its clock.
CallRows ==
  [phase: Phases, context: Contexts, then: SUBSET MayLapse]
IdleCall == [phase |-> "idle", context |-> NoContext, then |-> {}]

\* One query found f(context): the call goes on with the next.
Goes(c, phase, context) ==
  calls' = [calls EXCEPT ![c].phase = phase, ![c].context = context]
Refused(c) == calls' = [calls EXCEPT ![c] = IdleCall]

DispatchOf(c) == Named[calls[c].context.presentation]

TypeOK ==
  /\ hosts \in Histories(Associations)
  /\ policies \in Histories(PolicyRows)
  /\ root \in [Hosts \cup Signers -> Keys \cup {None}]
  /\ spent \subseteq Keys
  /\ eligible \in BOOLEAN
  /\ withdrawn \subseteq Dispatches
  /\ lapsed \subseteq MayLapse
  /\ calls \in [Calls -> CallRows]
  /\ tx \in [call: Calls, context: Contexts] \cup {None}
  /\ consumed \in [Dispatches -> Contexts \cup {None}]

Init ==
  /\ hosts = EmptyHistory /\ policies = EmptyHistory
  /\ Roots!RegisterInit
  /\ eligible = TRUE /\ withdrawn = {} /\ lapsed = {}
  /\ calls = [c \in Calls |-> IdleCall]
  /\ tx = None
  /\ consumed = [d \in Dispatches |-> None]

-----------------------------------------------------------------------------
(***************************************************************************)
(* Commands.  One that takes the target's lock waits for tx; one of the    *)
(* registry waits for it only if its subject is among those tx locked.     *)
(***************************************************************************)
TargetFree == tx = None

LockedSubjects ==
  IF tx = None THEN {}
  ELSE {hosts.rows[tx.context.association], policies.rows[tx.context.policy].signer}

BindHost(h) ==
  /\ TargetFree
  /\ OpenRows(hosts) = {} /\ hosts.current = 0
  /\ Len(hosts.rows) < MaxRows
  /\ hosts' = Opened(hosts, h)
  /\ UNCHANGED <<policies, registry, clock, calls, tx, consumed>>

\* The policy stays bound to the association that is closed.
RotateHost(h) ==
  /\ TargetFree
  /\ StandingRow(hosts) # 0
  /\ Len(hosts.rows) < MaxRows
  /\ hosts' = Opened(hosts, h)
  /\ UNCHANGED <<policies, registry, clock, calls, tx, consumed>>

RevokeHost ==
  /\ TargetFree
  /\ StandingRow(hosts) # 0
  /\ hosts' = Withdrawn(hosts)
  /\ UNCHANGED <<policies, registry, clock, calls, tx, consumed>>

NewPolicy(s) == [association |-> StandingRow(hosts), signer |-> s]

SetPolicy(s) ==
  /\ TargetFree
  /\ StandingRow(hosts) # 0
  /\ OpenRows(policies) = {} /\ policies.current = 0
  /\ Len(policies.rows) < MaxRows
  /\ policies' = Opened(policies, NewPolicy(s))
  /\ UNCHANGED <<hosts, registry, clock, calls, tx, consumed>>

RevisePolicy(s) ==
  /\ TargetFree
  /\ StandingRow(hosts) # 0
  /\ StandingRow(policies) # 0
  /\ Len(policies.rows) < MaxRows
  /\ policies' = Opened(policies, NewPolicy(s))
  /\ UNCHANGED <<hosts, registry, clock, calls, tx, consumed>>

RevokePolicy ==
  /\ TargetFree
  /\ StandingRow(policies) # 0
  /\ policies' = Withdrawn(policies)
  /\ UNCHANGED <<hosts, registry, clock, calls, tx, consumed>>

\* Faulty variant: the registry moves a root under the admission that locked it.
MoveAnyRoot(s) ==
  /\ Roots!Withdraw(s) \/ \E k \in Keys : Roots!Install(s, k) \/ Roots!Replace(s, k)
  /\ UNCHANGED <<fleet, clock, calls, tx, consumed>>

\* enrol_root, rotate_root, revoke_root, as the register of roots promises.
MoveRoot(s) ==
  /\ s \notin LockedSubjects
  /\ Roots!Withdraw(s) \/ \E k \in Keys : Roots!Install(s, k) \/ Roots!Replace(s, k)
  /\ UNCHANGED <<fleet, clock, calls, tx, consumed>>

\* retire_credential, revoke_credential.
CloseCredential ==
  /\ TargetFree
  /\ eligible' = FALSE
  /\ UNCHANGED <<fleet, registry, withdrawn, lapsed, calls, tx, consumed>>

\* The attempt is settled, its rollout cancelled, its plan revoked, its target
\* suspended: what RolloutControl's consumption would refuse.
WithdrawDispatch(d) ==
  /\ TargetFree
  /\ withdrawn' = withdrawn \cup {d}
  /\ UNCHANGED <<fleet, registry, eligible, lapsed, calls, tx, consumed>>

\* The clock passes an instant; it waits for nobody.
Lapse(x) ==
  /\ lapsed' = lapsed \cup {x}
  /\ UNCHANGED <<fleet, registry, eligible, withdrawn, calls, tx, consumed>>

-----------------------------------------------------------------------------
(***************************************************************************)
(* resolve_host_admission_context: no lock, one query after another.       *)
(***************************************************************************)
BeginResolving(c, p) ==
  /\ calls[c].phase = "idle"
  /\ eligible /\ p \notin lapsed
  /\ calls' = [calls EXCEPT ![c] =
       [phase |-> "host", context |-> [NoContext EXCEPT !.presentation = p], then |-> lapsed]]
  /\ UNCHANGED <<fleet, registry, clock, tx, consumed>>

\* Then its pointer, which must name the row that was read: or there is drift.
ReadPointer(c, phase, h, row, next) ==
  /\ calls[c].phase = phase
  /\ calls' = [calls EXCEPT ![c].phase = IF h.current = row THEN next ELSE "drift"]
  /\ UNCHANGED <<fleet, registry, clock, tx, consumed>>

\* The open rows of a history; several or none are refused.
ReadHost(c) ==
  /\ calls[c].phase = "host"
  /\ \/ \E row \in OpenRows(hosts) :
          /\ OpenRows(hosts) = {row}
          /\ Goes(c, "hostPointer", [calls[c].context EXCEPT !.association = row])
     \/ Cardinality(OpenRows(hosts)) # 1 /\ Refused(c)
  /\ UNCHANGED <<fleet, registry, clock, tx, consumed>>
ReadHostPointer(c) ==
  ReadPointer(c, "hostPointer", hosts, calls[c].context.association, "policy")
ReadPolicy(c) ==
  /\ calls[c].phase = "policy"
  /\ \/ \E row \in OpenRows(policies) :
          /\ OpenRows(policies) = {row}
          /\ Goes(c, "policyPointer", [calls[c].context EXCEPT !.policy = row])
     \/ Cardinality(OpenRows(policies)) # 1 /\ Refused(c)
  /\ UNCHANGED <<fleet, registry, clock, tx, consumed>>
ReadPolicyPointer(c) ==
  ReadPointer(c, "policyPointer", policies, calls[c].context.policy, "signerRoot")

\* Faulty variant: any policy of the target will do.
AnyPolicy(context) == TRUE

\* POLICY_HOST_MISMATCH otherwise.
BindsHost(context) == policies.rows[context.policy].association = context.association

\* _resolve_root_context: a root that stands and has not expired.
Valid(k, then) == k # None /\ k \notin then

ReadSignerRoot(c) ==
  LET k == root[policies.rows[calls[c].context.policy].signer]
  IN /\ calls[c].phase = "signerRoot"
     /\ IF BindsHost(calls[c].context) /\ Valid(k, calls[c].then)
        THEN Goes(c, "hostRoot", [calls[c].context EXCEPT !.signerRoot = k])
        ELSE Refused(c)
     /\ UNCHANGED <<fleet, registry, clock, tx, consumed>>

\* The stored dispatch is read last; it never changes.
ReadHostRoot(c) ==
  LET k == root[hosts.rows[calls[c].context.association]]
  IN /\ calls[c].phase = "hostRoot"
     /\ IF Valid(k, calls[c].then)
        THEN Goes(c, "resolved", [calls[c].context EXCEPT !.hostRoot = k])
        ELSE Refused(c)
     /\ UNCHANGED <<fleet, registry, clock, tx, consumed>>

-----------------------------------------------------------------------------
(***************************************************************************)
(* admit_and_consume_host_admission, with Foundation's evidence for the    *)
(* context: the signed pair (_verify_foundation_execution_request) and its *)
(* clock, then, under every lock, its decision; the commit is its caller's.*)
(***************************************************************************)
PairVerifies(d) == d \notin lapsed

BeginAdmission(c) ==
  /\ calls[c].phase = "resolved"
  /\ IF PairVerifies(DispatchOf(c)) /\ calls[c].context.presentation \notin lapsed
     THEN calls' = [calls EXCEPT ![c].phase = "admitting", ![c].then = lapsed]
     ELSE Refused(c)
  /\ UNCHANGED <<fleet, registry, clock, tx, consumed>>

\* Everything derived again equals the context: PREPARED_STATE_CHANGED otherwise.
Agrees(context, then) ==
  /\ StandingRow(hosts) = context.association
  /\ StandingRow(policies) = context.policy
  /\ root[hosts.rows[context.association]] = context.hostRoot
  /\ root[policies.rows[context.policy].signer] = context.signerRoot
  /\ Valid(context.hostRoot, then) /\ Valid(context.signerRoot, then)

\* _stage_dispatch_consumption, and the idempotency record of the dispatch id.
MayConsume(d) == d \notin withdrawn /\ d \notin lapsed /\ consumed[d] = None

Stage(c) ==
  /\ calls[c].phase = "admitting"
  /\ TargetFree
  /\ IF eligible /\ Agrees(calls[c].context, calls[c].then) /\ MayConsume(DispatchOf(c))
     THEN /\ tx' = [call |-> c, context |-> calls[c].context]
          /\ calls' = [calls EXCEPT ![c].phase = "staged"]
     ELSE Refused(c) /\ UNCHANGED tx
  /\ UNCHANGED <<fleet, registry, clock, consumed>>

\* The caller loses the connection: it cannot know what becomes of tx.
LoseReply(c) ==
  /\ calls[c].phase = "staged"
  /\ calls' = [calls EXCEPT ![c].phase = "unknown"]
  /\ UNCHANGED <<fleet, registry, clock, tx, consumed>>

\* A caller that was still there launches on the commit's own answer.
Commit ==
  /\ tx # None
  /\ consumed' = [consumed EXCEPT ![Named[tx.context.presentation]] = tx.context]
  /\ tx' = None
  /\ calls' = [c \in Calls |->
       IF c = tx.call /\ calls[c].phase = "staged"
       THEN [calls[c] EXCEPT !.phase = "answered", !.then = {}] ELSE calls[c]]
  /\ UNCHANGED <<fleet, registry, clock>>

\* The database or the process goes down first.
Abort ==
  /\ tx # None
  /\ tx' = None
  /\ calls' = [c \in Calls |->
       IF c = tx.call /\ calls[c].phase = "staged"
       THEN [calls[c] EXCEPT !.phase = "unknown"] ELSE calls[c]]
  /\ UNCHANGED <<fleet, registry, clock, consumed>>

\* Faulty variant: the marker is looked for in the session that wrote it.
LookupInSession(c) ==
  LET d == DispatchOf(c)
  IN /\ calls[c].phase = "unknown"
     /\ \/ /\ tx # None /\ Named[tx.context.presentation] = d
           /\ calls' = [calls EXCEPT ![c] =
                [phase |-> "answered", context |-> tx.context, then |-> {}]]
        \/ consumed[d] = None /\ Refused(c)
     /\ UNCHANGED <<fleet, registry, clock, tx, consumed>>

\* lookup_foundation_execution_consumption, in a new transaction: the committed
\* consumption of the dispatch, whoever made it; or the caller may try again.
Lookup(c) ==
  LET d == DispatchOf(c)
  IN /\ calls[c].phase = "unknown"
     /\ IF consumed[d] = None
        THEN Refused(c)
        ELSE calls' = [calls EXCEPT ![c] =
               [phase |-> "answered", context |-> consumed[d], then |-> {}]]
     /\ UNCHANGED <<fleet, registry, clock, tx, consumed>>

Next ==
  \/ \E h \in Hosts : BindHost(h) \/ RotateHost(h)
  \/ RevokeHost
  \/ \E s \in Signers : SetPolicy(s) \/ RevisePolicy(s)
  \/ RevokePolicy
  \/ \E s \in Hosts \cup Signers : MoveRoot(s)
  \/ CloseCredential
  \/ \E d \in Dispatches : WithdrawDispatch(d)
  \/ \E x \in MayLapse : Lapse(x)
  \/ \E c \in Calls :
       \/ \E p \in Presentations : BeginResolving(c, p)
       \/ ReadHost(c) \/ ReadHostPointer(c)
       \/ ReadPolicy(c) \/ ReadPolicyPointer(c)
       \/ ReadSignerRoot(c) \/ ReadHostRoot(c)
       \/ BeginAdmission(c) \/ Stage(c) \/ LoseReply(c) \/ Lookup(c)
  \/ Commit
  \/ Abort

Spec == Init /\ [][Next]_vars

-----------------------------------------------------------------------------
(***************************************************************************)
(* Properties.                                                             *)
(***************************************************************************)

\* A consumption rests on a policy that was made for the very association it
\* names, although a rotation leaves the policy of the old one standing and
\* nothing looks at that binding again under the locks.
PolicyBindsConsumedHost ==
  \A d \in Dispatches : consumed[d] # None =>
    policies.rows[consumed[d].policy].association = consumed[d].association

\* What a commit consumes stands at the commit: association, policy, both roots,
\* credential and dispatch, whatever was rotated, revised, revoked or settled
\* since the context was resolved without a lock.
ConsumedOnStanding ==
  [][\A d \in Dispatches : consumed'[d] # consumed[d] =>
       LET context == consumed'[d]
       IN /\ StandingRow(hosts) = context.association
          /\ StandingRow(policies) = context.policy
          /\ root[hosts.rows[context.association]] = context.hostRoot
          /\ root[policies.rows[context.policy].signer] = context.signerRoot
          /\ eligible /\ d \notin withdrawn]_vars

\* What a caller is told of a dispatch, by its commit or by a lookup after a
\* crash, is its one consumption, and stays so.
AnswersAreTrue ==
  \A c \in Calls : calls[c].phase = "answered" => consumed[DispatchOf(c)] = calls[c].context

\* Both histories are registers of the target: it has one row or none, and a row
\* stands once, so a context that agrees again was never disagreed with.
HostHistory == INSTANCE TrustRegister
  WITH Subjects <- {"target"}, Keys <- 1..MaxRows, None <- 0,
       root <- [t \in {"target"} |-> hosts.current], spent <- DOMAIN hosts.rows
PolicyHistory == INSTANCE TrustRegister
  WITH Subjects <- {"target"}, Keys <- 1..MaxRows, None <- 0,
       root <- [t \in {"target"} |-> policies.current], spent <- DOMAIN policies.rows
HistoriesAreRegisters == HostHistory!RegisterSpec /\ PolicyHistory!RegisterSpec

\* The pointers name the open rows, in every state between commits.
NothingDrifts ==
  \A h \in {hosts, policies} : OpenRows(h) = {h.current} \ {0}
=============================================================================
