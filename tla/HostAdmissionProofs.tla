------------------------- MODULE HostAdmissionProofs -------------------------
(***************************************************************************)
(* For every set of hosts, signers, keys, dispatches, presentations and    *)
(* callers: a consumption rests on what stands at its commit, a caller is  *)
(* answered with the one consumption of its dispatch, and the histories of *)
(* the target are registers.                                               *)
(***************************************************************************)
EXTENDS HostAdmission, TLAPS

-----------------------------------------------------------------------------
(***************************************************************************)
(* Histories.                                                              *)
(***************************************************************************)
HistoryOK(h, Row) ==
  /\ h \in Histories(Row)
  /\ h.closed \subseteq DOMAIN h.rows
  /\ h.current \in (DOMAIN h.rows) \cup {0}
  /\ OpenRows(h) = {h.current} \ {0}

\* Rows stay as they are; new ones come after them.
Extended(h, g) ==
  /\ DOMAIN h.rows \subseteq DOMAIN g.rows
  /\ \A i \in DOMAIN h.rows : g.rows[i] = h.rows[i]

LEMMA RowNumbers ==
  ASSUME NEW Row, NEW h, HistoryOK(h, Row)
  PROVE  /\ h.rows \in Seq(Row) /\ Len(h.rows) \in 0..MaxRows
         /\ DOMAIN h.rows = 1..Len(h.rows)
         /\ 0 \notin DOMAIN h.rows
         /\ h.current \in 0..MaxRows
<1>1. h.rows \in Seq(Row) /\ Len(h.rows) <= MaxRows
  BY DEF HistoryOK, Histories
<1>2. Len(h.rows) \in Nat /\ DOMAIN h.rows = 1..Len(h.rows)
  BY <1>1
<1> QED BY <1>1, <1>2, AdmissionInputs DEF HistoryOK

LEMMA EmptyIsOK ==
  ASSUME NEW Row
  PROVE  HistoryOK(EmptyHistory, Row)
<1>1. <<>> \in Seq(Row) /\ Len(<<>>) = 0 /\ DOMAIN <<>> = {}
  OBVIOUS
<1> QED BY <1>1, AdmissionInputs DEF EmptyHistory, HistoryOK, Histories, OpenRows

LEMMA StandingIsCurrent ==
  ASSUME NEW Row, NEW h, HistoryOK(h, Row)
  PROVE  StandingRow(h) = h.current
BY DEF HistoryOK, StandingRow

\* A row is added, and the one before it closed.
LEMMA OpenedIsOK ==
  ASSUME NEW Row, NEW h, HistoryOK(h, Row), NEW row \in Row, Len(h.rows) < MaxRows
  PROVE  /\ HistoryOK(Opened(h, row), Row) /\ Extended(h, Opened(h, row))
         /\ Opened(h, row).current = Len(h.rows) + 1
         /\ DOMAIN Opened(h, row).rows = (DOMAIN h.rows) \cup {Len(h.rows) + 1}
         /\ Len(h.rows) + 1 \in (1..MaxRows) \ DOMAIN h.rows
<1> DEFINE n == Len(h.rows) + 1
           rows == Append(h.rows, row)
           closed == IF h.current = 0 THEN h.closed ELSE h.closed \cup {h.current}
           g == Opened(h, row)
<1>1. h.rows \in Seq(Row) /\ n \in 1..MaxRows /\ DOMAIN h.rows = 1..(n - 1)
        /\ h.current \in 0..(n - 1)
  BY RowNumbers, AdmissionInputs DEF HistoryOK
<1>2. rows \in Seq(Row) /\ Len(rows) = n /\ DOMAIN rows = 1..n
        /\ \A i \in 1..(n - 1) : rows[i] = h.rows[i]
  BY <1>1
<1>3. g.rows = rows /\ g.closed = closed /\ g.current = n
        /\ g = [rows |-> rows, closed |-> closed, current |-> n]
  BY DEF Opened
<1>4. closed \subseteq 1..(n - 1)
  BY <1>1 DEF HistoryOK
<1>5. (1..(n - 1)) \ closed = {}
  BY <1>1 DEF HistoryOK, OpenRows
<1> HIDE DEF rows, closed, g
<1>6. g \in Histories(Row)
  <2>1. rows \in {r \in Seq(Row) : Len(r) <= MaxRows}
    BY <1>1, <1>2, AdmissionInputs
  <2>2. closed \in SUBSET (1..MaxRows) /\ n \in 0..MaxRows
    BY <1>1, <1>4, AdmissionInputs
  <2> HIDE DEF n
  <2> QED BY <1>3, <2>1, <2>2 DEF Histories
<1>7. OpenRows(g) = {n}
  BY <1>1, <1>2, <1>3, <1>4, <1>5 DEF OpenRows
<1>8. HistoryOK(g, Row)
  BY <1>1, <1>2, <1>3, <1>4, <1>6, <1>7 DEF HistoryOK
<1>9. Extended(h, g)
  BY <1>1, <1>2, <1>3 DEF Extended
<1> QED BY <1>1, <1>2, <1>3, <1>8, <1>9 DEF g

LEMMA WithdrawnIsOK ==
  ASSUME NEW Row, NEW h, HistoryOK(h, Row), h.current # 0
  PROVE  /\ HistoryOK(Withdrawn(h), Row) /\ Extended(h, Withdrawn(h))
         /\ Withdrawn(h).current = 0 /\ Withdrawn(h).rows = h.rows
<1> DEFINE g == Withdrawn(h)
<1>1. h.rows \in Seq(Row) /\ DOMAIN h.rows \subseteq 1..MaxRows /\ 0 \notin DOMAIN h.rows
  BY RowNumbers, AdmissionInputs
<1>2. g.rows = h.rows /\ g.closed = h.closed \cup {h.current} /\ g.current = 0
        /\ g \in Histories(Row)
  <2> DEFINE closed == h.closed \cup {h.current}
  <2>1. h \in Histories(Row) /\ h.current \in DOMAIN h.rows
    BY DEF HistoryOK
  <2>2. h.rows \in {r \in Seq(Row) : Len(r) <= MaxRows} /\ h.closed \in SUBSET (1..MaxRows)
    BY <2>1 DEF Histories
  <2>3. closed \in SUBSET (1..MaxRows) /\ 0 \in 0..MaxRows
    BY <1>1, <2>1, <2>2, AdmissionInputs
  <2>4. g \in Histories(Row)
    BY <2>1, <2>2, <2>3 DEF Withdrawn, Histories
  <2>5. g.rows = h.rows /\ g.closed = closed /\ g.current = 0
    BY <2>1 DEF Withdrawn, Histories
  <2> QED BY <2>4, <2>5
<1> HIDE DEF g
<1>3. HistoryOK(g, Row)
  BY <1>1, <1>2 DEF HistoryOK, OpenRows
<1> QED BY <1>2, <1>3 DEF Extended, g

-----------------------------------------------------------------------------
(***************************************************************************)
(* The invariant.                                                          *)
(***************************************************************************)
FleetInv == HistoryOK(hosts, Hosts) /\ HistoryOK(policies, PolicyRows)

WorldTypes ==
  /\ root \in [Hosts \cup Signers -> Keys \cup {None}]
  /\ spent \subseteq Keys
  /\ eligible \in BOOLEAN
  /\ withdrawn \subseteq Dispatches
  /\ lapsed \subseteq MayLapse

\* The rows a context names are there, and its policy is of its association.
HasHost(x) == x.association \in DOMAIN hosts.rows
HasPolicy(x) == x.policy \in DOMAIN policies.rows
Bound(x) == HasHost(x) /\ HasPolicy(x) /\ BindsHost(x)

\* A caller's context fits its query; what it staged is tx, what it was
\* answered is consumed.
CallOK(c, q) ==
  /\ q \in CallRows
  /\ q.phase # "idle" => q.context.presentation \in Presentations
  /\ q.phase \in {"hostPointer", "policy"} => HasHost(q.context)
  /\ q.phase \in {"policyPointer", "signerRoot"} => HasHost(q.context) /\ HasPolicy(q.context)
  /\ q.phase \in {"hostRoot", "resolved", "admitting", "staged", "unknown", "answered"} =>
       Bound(q.context)
  /\ q.phase = "staged" => tx # None /\ tx.call = c /\ tx.context = q.context
  /\ q.phase = "answered" => consumed[Named[q.context.presentation]] = q.context

CallsInv ==
  /\ \A c \in Calls : CallOK(c, calls[c])
  /\ calls \in [Calls -> CallRows]

\* What was decided under the locks stands until the transaction ends.
Stands(x) ==
  /\ x.presentation \in Presentations
  /\ Bound(x)
  /\ hosts.current = x.association
  /\ policies.current = x.policy
  /\ root[hosts.rows[x.association]] = x.hostRoot
  /\ root[policies.rows[x.policy].signer] = x.signerRoot
  /\ eligible
  /\ Named[x.presentation] \notin withdrawn
  /\ consumed[Named[x.presentation]] = None

TxInv ==
  /\ tx \in [call: Calls, context: Contexts] \cup {None}
  /\ tx # None => Stands(tx.context)

ConsumedInv ==
  /\ consumed \in [Dispatches -> Contexts \cup {None}]
  /\ \A d \in Dispatches : consumed[d] # None =>
       /\ Bound(consumed[d])
       /\ consumed[d].presentation \in Presentations
       /\ Named[consumed[d].presentation] = d

Inv == FleetInv /\ WorldTypes /\ CallsInv /\ TxInv /\ ConsumedInv

-----------------------------------------------------------------------------
\* A caller that waits for nothing fits.
LEMMA IdleOK == \A c \in Calls : CallOK(c, IdleCall)
<1>1. NoContext \in Contexts
  BY AdmissionInputs DEF NoContext, Contexts
<1> QED BY <1>1 DEF CallOK, IdleCall, CallRows, Phases

LEMMA Initially == Init => Inv
<1> SUFFICES ASSUME Init PROVE Inv
  OBVIOUS
<1>1. FleetInv
  BY EmptyIsOK DEF Init, FleetInv
<1>2. WorldTypes
  BY DEF Init, WorldTypes, Roots!RegisterInit
<1>3. CallsInv
  BY IdleOK DEF Init, CallsInv, CallOK
<1>4. TxInv /\ ConsumedInv
  BY DEF Init, TxInv, ConsumedInv
<1> QED BY <1>1, <1>2, <1>3, <1>4 DEF Inv

\* Contexts are about rows that never change.
LEMMA BoundStays ==
  ASSUME FleetInv, Extended(hosts, hosts'), Extended(policies, policies'), NEW x
  PROVE  /\ HasHost(x) => HasHost(x)' /\ hosts'.rows[x.association] = hosts.rows[x.association]
         /\ HasPolicy(x) => HasPolicy(x)' /\ policies'.rows[x.policy] = policies.rows[x.policy]
         /\ Bound(x) => Bound(x)'
BY DEF Extended, HasHost, HasPolicy, Bound, BindsHost

LEMMA Unextended ==
  ASSUME UNCHANGED fleet
  PROVE  Extended(hosts, hosts') /\ Extended(policies, policies')
BY DEF Extended, fleet

\* One caller goes on, and nothing else changes.
LEMMA CallStep ==
  ASSUME Inv, NEW c \in Calls, NEW q, CallOK(c, q),
         calls' = [calls EXCEPT ![c] = q],
         UNCHANGED <<fleet, registry, clock, tx, consumed>>
  PROVE  Inv'
<1>1. UNCHANGED <<hosts, policies, root, spent, eligible, withdrawn, lapsed, tx, consumed>>
  BY DEF fleet, registry, clock
<1>2. FleetInv' /\ WorldTypes' /\ TxInv' /\ ConsumedInv'
  BY <1>1 DEF Inv, FleetInv, WorldTypes, TxInv, ConsumedInv, Stands, Bound, HasHost,
     HasPolicy, BindsHost
<1>3. \A d \in Calls : calls'[d] = IF d = c THEN q ELSE calls[d]
  BY DEF Inv, CallsInv
<1>4. \A d \in Calls : CallOK(d, calls[d])'
  <2> SUFFICES ASSUME NEW d \in Calls PROVE CallOK(d, calls[d])'
    OBVIOUS
  <2>1. CallOK(d, IF d = c THEN q ELSE calls[d])
    BY DEF Inv, CallsInv
  <2> QED BY <1>1, <1>3, <2>1 DEF CallOK, Bound, HasHost, HasPolicy, BindsHost
<1>5. CallsInv'
  BY <1>4 DEF Inv, CallsInv, CallOK
<1> QED BY <1>2, <1>5 DEF Inv

\* A command writes a history while no transaction holds the target.
LEMMA FleetStep ==
  ASSUME Inv, tx = None, FleetInv', Extended(hosts, hosts'), Extended(policies, policies'),
         UNCHANGED <<registry, clock, calls, tx, consumed>>
  PROVE  Inv'
<1>1. UNCHANGED <<root, spent, eligible, withdrawn, lapsed>>
  BY DEF registry, clock
<1>2. WorldTypes' /\ TxInv'
  BY <1>1 DEF Inv, WorldTypes, TxInv
<1>3. ConsumedInv'
  BY BoundStays DEF Inv, ConsumedInv
<1>4. \A c \in Calls : CallOK(c, calls[c])'
  <2> SUFFICES ASSUME NEW c \in Calls PROVE CallOK(c, calls[c])'
    OBVIOUS
  <2>1. CallOK(c, calls[c])
    BY DEF Inv, CallsInv
  <2> QED BY <2>1, BoundStays DEF Inv, CallOK
<1>5. CallsInv'
  BY <1>4 DEF Inv, CallsInv
<1> QED BY <1>2, <1>3, <1>5 DEF Inv

LEMMA HostCommands ==
  ASSUME Inv, NEW h \in Hosts, BindHost(h) \/ RotateHost(h)
  PROVE  Inv' /\ hosts' = Opened(hosts, h) /\ Len(hosts.rows) < MaxRows
<1>1. hosts' = Opened(hosts, h) /\ tx = None /\ Len(hosts.rows) < MaxRows
        /\ UNCHANGED <<policies, registry, clock, calls, tx, consumed>>
  BY DEF BindHost, RotateHost, TargetFree
<1>2. FleetInv' /\ Extended(hosts, hosts')
  BY <1>1, OpenedIsOK DEF Inv, FleetInv
<1>3. Extended(policies, policies')
  BY <1>1 DEF Extended
<1> QED BY <1>1, <1>2, <1>3, FleetStep

LEMMA HostRevoked ==
  ASSUME Inv, RevokeHost
  PROVE  Inv' /\ hosts' = Withdrawn(hosts) /\ hosts.current # 0
<1>1. hosts' = Withdrawn(hosts) /\ tx = None /\ hosts.current # 0
        /\ UNCHANGED <<policies, registry, clock, calls, tx, consumed>>
  BY StandingIsCurrent DEF RevokeHost, TargetFree, Inv, FleetInv
<1>2. FleetInv' /\ Extended(hosts, hosts')
  BY <1>1, WithdrawnIsOK DEF Inv, FleetInv
<1>3. Extended(policies, policies')
  BY <1>1 DEF Extended
<1> QED BY <1>1, <1>2, <1>3, FleetStep

LEMMA PolicyCommands ==
  ASSUME Inv, NEW s \in Signers, SetPolicy(s) \/ RevisePolicy(s)
  PROVE  Inv' /\ policies' = Opened(policies, NewPolicy(s)) /\ Len(policies.rows) < MaxRows
           /\ NewPolicy(s) \in PolicyRows
<1>1. policies' = Opened(policies, NewPolicy(s)) /\ tx = None /\ Len(policies.rows) < MaxRows
        /\ StandingRow(hosts) # 0
        /\ UNCHANGED <<hosts, registry, clock, calls, tx, consumed>>
  BY DEF SetPolicy, RevisePolicy, TargetFree
<1>2. NewPolicy(s) \in PolicyRows
  <2>1. StandingRow(hosts) = hosts.current /\ hosts.current \in 0..MaxRows
    BY StandingIsCurrent, RowNumbers DEF Inv, FleetInv
  <2>2. StandingRow(hosts) \in 1..MaxRows
    BY <1>1, <2>1, AdmissionInputs
  <2> QED BY <2>2 DEF NewPolicy, PolicyRows
<1>3. FleetInv' /\ Extended(policies, policies')
  BY <1>1, <1>2, OpenedIsOK DEF Inv, FleetInv
<1>4. Extended(hosts, hosts')
  BY <1>1 DEF Extended
<1> QED BY <1>1, <1>2, <1>3, <1>4, FleetStep

LEMMA PolicyRevoked ==
  ASSUME Inv, RevokePolicy
  PROVE  Inv' /\ policies' = Withdrawn(policies) /\ policies.current # 0
<1>1. policies' = Withdrawn(policies) /\ tx = None /\ policies.current # 0
        /\ UNCHANGED <<hosts, registry, clock, calls, tx, consumed>>
  BY StandingIsCurrent DEF RevokePolicy, TargetFree, Inv, FleetInv
<1>2. FleetInv' /\ Extended(policies, policies')
  BY <1>1, WithdrawnIsOK DEF Inv, FleetInv
<1>3. Extended(hosts, hosts')
  BY <1>1 DEF Extended
<1> QED BY <1>1, <1>2, <1>3, FleetStep

\* The world moves on, but no root that the transaction locked.
LEMMA WorldStep ==
  ASSUME Inv, UNCHANGED <<fleet, calls, tx, consumed>>, WorldTypes',
         tx # None =>
           /\ root'[hosts.rows[tx.context.association]]
                = root[hosts.rows[tx.context.association]]
           /\ root'[policies.rows[tx.context.policy].signer]
                = root[policies.rows[tx.context.policy].signer]
           /\ eligible' = eligible /\ withdrawn' = withdrawn
  PROVE  Inv'
<1>1. UNCHANGED <<hosts, policies, calls, tx, consumed>>
  BY DEF fleet
<1>2. FleetInv' /\ ConsumedInv'
  BY <1>1 DEF Inv, FleetInv, ConsumedInv, Bound, HasHost, HasPolicy, BindsHost
<1>3. CallsInv'
  BY <1>1 DEF Inv, CallsInv, CallOK, Bound, HasHost, HasPolicy, BindsHost
<1>4. TxInv'
  BY <1>1 DEF Inv, TxInv, Stands, Bound, HasHost, HasPolicy, BindsHost
<1> QED BY <1>2, <1>3, <1>4 DEF Inv

LEMMA MoveRootStep ==
  ASSUME Inv, NEW s \in Hosts \cup Signers, MoveRoot(s)
  PROVE  Inv'
<1>1. UNCHANGED <<fleet, clock, calls, tx, consumed>>
  BY DEF MoveRoot
<1>2. PICK k \in Keys \cup {None} :
        /\ root' = [root EXCEPT ![s] = k]
        /\ spent' \subseteq Keys
  BY DEF MoveRoot, Roots!Withdraw, Roots!Install, Roots!Replace, Inv, WorldTypes
<1>3. WorldTypes'
  BY <1>1, <1>2 DEF Inv, WorldTypes, clock
<1>4. \A u : u # s => root'[u] = root[u]
  BY <1>2 DEF Inv, WorldTypes
<1>5. tx # None =>
        /\ hosts.rows[tx.context.association] # s
        /\ policies.rows[tx.context.policy].signer # s
  BY DEF MoveRoot, LockedSubjects
<1> QED BY <1>1, <1>3, <1>4, <1>5, WorldStep DEF clock

LEMMA ClockSteps ==
  ASSUME Inv,
         \/ CloseCredential \/ \E d \in Dispatches : WithdrawDispatch(d)
         \/ \E x \in MayLapse : Lapse(x)
  PROVE  Inv'
<1>1. UNCHANGED <<fleet, registry, calls, tx, consumed>>
  BY DEF CloseCredential, WithdrawDispatch, Lapse
<1>2. WorldTypes'
  BY DEF CloseCredential, WithdrawDispatch, Lapse, Inv, WorldTypes, registry
<1>3. tx # None => eligible' = eligible /\ withdrawn' = withdrawn
  BY DEF CloseCredential, WithdrawDispatch, Lapse, TargetFree
<1> QED BY <1>1, <1>2, <1>3, WorldStep DEF registry

-----------------------------------------------------------------------------
(***************************************************************************)
(* The queries of one caller.                                              *)
(***************************************************************************)
LEMMA Rephased ==
  ASSUME Inv, NEW c \in Calls, NEW phase \in Phases,
         calls' = [calls EXCEPT ![c].phase = phase]
  PROVE  \E q \in CallRows :
           /\ q.phase = phase /\ q.context = calls[c].context
           /\ calls' = [calls EXCEPT ![c] = q]
<1> DEFINE q == [calls[c] EXCEPT !.phase = phase]
<1>1. q \in CallRows /\ q.phase = phase /\ q.context = calls[c].context
  BY DEF Inv, CallsInv, CallRows
<1>2. calls' = [calls EXCEPT ![c] = q]
  OBVIOUS
<1> HIDE DEF q
<1> QED BY <1>1, <1>2

LEMMA Recontexted ==
  ASSUME Inv, NEW c \in Calls, NEW phase \in Phases, NEW x \in Contexts, Goes(c, phase, x)
  PROVE  \E q \in CallRows :
           q.phase = phase /\ q.context = x /\ calls' = [calls EXCEPT ![c] = q]
<1> DEFINE q == [calls[c] EXCEPT !.phase = phase, !.context = x]
<1>1. calls[c] \in CallRows
  BY DEF Inv, CallsInv
<1>2. q \in CallRows /\ q.phase = phase /\ q.context = x
  BY <1>1 DEF CallRows
<1>3. calls' = [calls EXCEPT ![c] = q]
  BY DEF Goes, Inv, CallsInv
<1> HIDE DEF q
<1> QED BY <1>2, <1>3

LEMMA RefusedStep ==
  ASSUME Inv, NEW c \in Calls, Refused(c),
         UNCHANGED <<fleet, registry, clock, tx, consumed>>
  PROVE  Inv'
BY CallStep, IdleOK DEF Refused

LEMMA BeginResolvingStep ==
  ASSUME Inv, NEW c \in Calls, NEW p \in Presentations, BeginResolving(c, p)
  PROVE  Inv'
<1> DEFINE q == [phase |-> "host", context |-> [NoContext EXCEPT !.presentation = p],
                 then |-> lapsed]
<1>1. [NoContext EXCEPT !.presentation = p] \in Contexts
        /\ [NoContext EXCEPT !.presentation = p].presentation = p
  BY AdmissionInputs DEF NoContext, Contexts
<1>2. q \in CallRows
  BY <1>1 DEF CallRows, Phases, Inv, WorldTypes
<1>3. CallOK(c, q)
  BY <1>1, <1>2 DEF CallOK
<1>4. calls' = [calls EXCEPT ![c] = q]
        /\ UNCHANGED <<fleet, registry, clock, tx, consumed>>
  BY DEF BeginResolving
<1> HIDE DEF q
<1> QED BY <1>3, <1>4, CallStep

LEMMA ReadHostStep ==
  ASSUME Inv, NEW c \in Calls, ReadHost(c)
  PROVE  Inv'
<1>1. UNCHANGED <<fleet, registry, clock, tx, consumed>> /\ calls[c].phase = "host"
  BY DEF ReadHost
<1>2. ASSUME NEW row \in OpenRows(hosts),
             Goes(c, "hostPointer", [calls[c].context EXCEPT !.association = row])
      PROVE  Inv'
  <2> DEFINE x == [calls[c].context EXCEPT !.association = row]
  <2>1. row \in DOMAIN hosts.rows /\ row \in 0..MaxRows
    BY RowNumbers, AdmissionInputs DEF OpenRows, Inv, FleetInv
  <2>2. calls[c].context \in Contexts /\ calls[c].context.presentation \in Presentations
    BY <1>1 DEF Inv, CallsInv, CallOK, CallRows
  <2>3. x \in Contexts /\ x.association = row
          /\ x.presentation = calls[c].context.presentation
    BY <2>1, <2>2 DEF Contexts
  <2> HIDE DEF x
  <2>4. PICK q \in CallRows : q.phase = "hostPointer" /\ q.context = x
                               /\ calls' = [calls EXCEPT ![c] = q]
    <3>1. "hostPointer" \in Phases
      BY DEF Phases
    <3> QED BY <1>2, <2>3, <3>1, Recontexted DEF x
  <2>5. CallOK(c, q)
    BY <2>1, <2>2, <2>3, <2>4 DEF CallOK, HasHost
  <2> QED BY <1>1, <2>4, <2>5, CallStep
<1>3. \/ \E row \in OpenRows(hosts) :
           Goes(c, "hostPointer", [calls[c].context EXCEPT !.association = row])
      \/ Refused(c)
  BY DEF ReadHost
<1> QED BY <1>1, <1>2, <1>3, RefusedStep

LEMMA ReadPolicyStep ==
  ASSUME Inv, NEW c \in Calls, ReadPolicy(c)
  PROVE  Inv'
<1>1. UNCHANGED <<fleet, registry, clock, tx, consumed>> /\ calls[c].phase = "policy"
  BY DEF ReadPolicy
<1>2. ASSUME NEW row \in OpenRows(policies),
             Goes(c, "policyPointer", [calls[c].context EXCEPT !.policy = row])
      PROVE  Inv'
  <2> DEFINE x == [calls[c].context EXCEPT !.policy = row]
  <2>1. row \in DOMAIN policies.rows /\ row \in 0..MaxRows
    BY RowNumbers, AdmissionInputs DEF OpenRows, Inv, FleetInv
  <2>2. calls[c].context \in Contexts /\ calls[c].context.presentation \in Presentations
          /\ HasHost(calls[c].context)
    BY <1>1 DEF Inv, CallsInv, CallOK, CallRows
  <2>3. x \in Contexts /\ x.policy = row
          /\ x.association = calls[c].context.association
          /\ x.presentation = calls[c].context.presentation
    BY <2>1, <2>2 DEF Contexts
  <2> HIDE DEF x
  <2>4. PICK q \in CallRows : q.phase = "policyPointer" /\ q.context = x
                               /\ calls' = [calls EXCEPT ![c] = q]
    <3>1. "policyPointer" \in Phases
      BY DEF Phases
    <3> QED BY <1>2, <2>3, <3>1, Recontexted DEF x
  <2>5. CallOK(c, q)
    BY <2>1, <2>2, <2>3, <2>4 DEF CallOK, HasHost, HasPolicy
  <2> QED BY <1>1, <2>4, <2>5, CallStep
<1>3. \/ \E row \in OpenRows(policies) :
           Goes(c, "policyPointer", [calls[c].context EXCEPT !.policy = row])
      \/ Refused(c)
  BY DEF ReadPolicy
<1> QED BY <1>1, <1>2, <1>3, RefusedStep

LEMMA PointerSteps ==
  ASSUME Inv, NEW c \in Calls, ReadHostPointer(c) \/ ReadPolicyPointer(c)
  PROVE  Inv'
<1>1. UNCHANGED <<fleet, registry, clock, tx, consumed>>
  BY DEF ReadHostPointer, ReadPolicyPointer, ReadPointer
<1>2. PICK phase \in {"policy", "signerRoot", "drift"} :
        /\ calls' = [calls EXCEPT ![c].phase = phase]
        /\ phase = "policy" => calls[c].phase = "hostPointer"
        /\ phase = "signerRoot" => calls[c].phase = "policyPointer"
        /\ calls[c].phase \in {"hostPointer", "policyPointer"}
  BY DEF ReadHostPointer, ReadPolicyPointer, ReadPointer
<1>3. phase \in Phases
  BY DEF Phases
<1>4. PICK q \in CallRows : q.phase = phase /\ q.context = calls[c].context
                              /\ calls' = [calls EXCEPT ![c] = q]
  BY <1>2, <1>3, Rephased
<1>5. CallOK(c, calls[c])
  BY DEF Inv, CallsInv
<1>6. CallOK(c, q)
  BY <1>2, <1>4, <1>5 DEF CallOK
<1> QED BY <1>1, <1>4, <1>6, CallStep

LEMMA SignersAndHosts ==
  ASSUME Inv, NEW x
  PROVE  /\ HasHost(x) => root[hosts.rows[x.association]] \in Keys \cup {None}
         /\ HasPolicy(x) => root[policies.rows[x.policy].signer] \in Keys \cup {None}
<1>1. HasHost(x) => hosts.rows[x.association] \in Hosts
  BY RowNumbers DEF HasHost, Inv, FleetInv
<1>2. HasPolicy(x) => policies.rows[x.policy] \in PolicyRows
  BY RowNumbers DEF HasPolicy, Inv, FleetInv
<1> QED BY <1>1, <1>2 DEF PolicyRows, Inv, WorldTypes

LEMMA ReadSignerRootStep ==
  ASSUME Inv, NEW c \in Calls, ReadSignerRoot(c)
  PROVE  Inv'
<1> DEFINE k == root[policies.rows[calls[c].context.policy].signer]
           x == [calls[c].context EXCEPT !.signerRoot = k]
<1>1. UNCHANGED <<fleet, registry, clock, tx, consumed>> /\ calls[c].phase = "signerRoot"
  BY DEF ReadSignerRoot
<1>2. calls[c].context \in Contexts /\ calls[c].context.presentation \in Presentations
        /\ HasHost(calls[c].context) /\ HasPolicy(calls[c].context)
  BY <1>1 DEF Inv, CallsInv, CallOK, CallRows
<1>3. CASE Refused(c)
  BY <1>1, <1>3, RefusedStep
<1>4. CASE BindsHost(calls[c].context) /\ Goes(c, "hostRoot", x)
  <2>1. k \in Keys \cup {None}
    BY <1>2, SignersAndHosts
  <2> HIDE DEF k
  <2>2. x \in Contexts /\ x.policy = calls[c].context.policy
          /\ x.association = calls[c].context.association
          /\ x.presentation = calls[c].context.presentation
    BY <1>2, <2>1 DEF Contexts
  <2> HIDE DEF x
  <2>3. Bound(x)
    BY <1>2, <1>4, <2>2 DEF Bound, HasHost, HasPolicy, BindsHost
  <2>4. "hostRoot" \in Phases
    BY DEF Phases
  <2>5. PICK q \in CallRows : q.phase = "hostRoot" /\ q.context = x
                               /\ calls' = [calls EXCEPT ![c] = q]
    BY <1>4, <2>2, <2>4, Recontexted
  <2>6. CallOK(c, q)
    BY <1>2, <2>2, <2>3, <2>5 DEF CallOK
  <2> QED BY <1>1, <2>5, <2>6, CallStep
<1> QED BY <1>3, <1>4 DEF ReadSignerRoot

LEMMA ReadHostRootStep ==
  ASSUME Inv, NEW c \in Calls, ReadHostRoot(c)
  PROVE  Inv'
<1> DEFINE k == root[hosts.rows[calls[c].context.association]]
           x == [calls[c].context EXCEPT !.hostRoot = k]
<1>1. UNCHANGED <<fleet, registry, clock, tx, consumed>> /\ calls[c].phase = "hostRoot"
  BY DEF ReadHostRoot
<1>2. calls[c].context \in Contexts /\ calls[c].context.presentation \in Presentations
        /\ Bound(calls[c].context)
  BY <1>1 DEF Inv, CallsInv, CallOK, CallRows
<1>3. CASE Refused(c)
  BY <1>1, <1>3, RefusedStep
<1>4. CASE Goes(c, "resolved", x)
  <2>1. k \in Keys \cup {None}
    BY <1>2, SignersAndHosts DEF Bound
  <2> HIDE DEF k
  <2>2. x \in Contexts /\ x.policy = calls[c].context.policy
          /\ x.association = calls[c].context.association
          /\ x.presentation = calls[c].context.presentation
    BY <1>2, <2>1 DEF Contexts
  <2> HIDE DEF x
  <2>3. Bound(x)
    BY <1>2, <2>2 DEF Bound, HasHost, HasPolicy, BindsHost
  <2>4. "resolved" \in Phases
    BY DEF Phases
  <2>5. PICK q \in CallRows : q.phase = "resolved" /\ q.context = x
                               /\ calls' = [calls EXCEPT ![c] = q]
    BY <1>4, <2>2, <2>4, Recontexted
  <2>6. CallOK(c, q)
    BY <1>2, <2>2, <2>3, <2>5 DEF CallOK
  <2> QED BY <1>1, <2>5, <2>6, CallStep
<1> QED BY <1>3, <1>4 DEF ReadHostRoot

LEMMA BeginAdmissionStep ==
  ASSUME Inv, NEW c \in Calls, BeginAdmission(c)
  PROVE  Inv'
<1>1. UNCHANGED <<fleet, registry, clock, tx, consumed>> /\ calls[c].phase = "resolved"
  BY DEF BeginAdmission
<1>2. CASE Refused(c)
  BY <1>1, <1>2, RefusedStep
<1>3. CASE calls' = [calls EXCEPT ![c].phase = "admitting", ![c].then = lapsed]
  <2> DEFINE q == [calls[c] EXCEPT !.phase = "admitting", !.then = lapsed]
  <2>1. calls[c] \in CallRows /\ lapsed \subseteq MayLapse /\ "admitting" \in Phases
    BY DEF Inv, CallsInv, WorldTypes, Phases
  <2>2. q \in CallRows /\ q.phase = "admitting" /\ q.context = calls[c].context
    BY <2>1 DEF CallRows
  <2>3. calls' = [calls EXCEPT ![c] = q]
    BY <1>3 DEF Inv, CallsInv
  <2>4. CallOK(c, calls[c])
    BY DEF Inv, CallsInv
  <2> HIDE DEF q
  <2>5. CallOK(c, q)
    BY <1>1, <2>2, <2>4 DEF CallOK
  <2> QED BY <1>1, <2>3, <2>5, CallStep
<1> QED BY <1>2, <1>3 DEF BeginAdmission

LEMMA LoseReplyStep ==
  ASSUME Inv, NEW c \in Calls, LoseReply(c)
  PROVE  Inv'
<1>1. "unknown" \in Phases
  BY DEF Phases
<1>2. PICK q \in CallRows : q.phase = "unknown" /\ q.context = calls[c].context
                              /\ calls' = [calls EXCEPT ![c] = q]
  BY <1>1, Rephased DEF LoseReply
<1>3. CallOK(c, calls[c]) /\ calls[c].phase = "staged"
  BY DEF LoseReply, Inv, CallsInv
<1>4. CallOK(c, q)
  BY <1>2, <1>3 DEF CallOK
<1> QED BY <1>2, <1>4, CallStep DEF LoseReply

\* A lookup answers what is committed, which another caller may have staged.
LEMMA LookupStep ==
  ASSUME Inv, NEW c \in Calls, Lookup(c)
  PROVE  Inv'
<1> DEFINE d == DispatchOf(c)
           q == [phase |-> "answered", context |-> consumed[d], then |-> {}]
<1>1. UNCHANGED <<fleet, registry, clock, tx, consumed>> /\ calls[c].phase = "unknown"
  BY DEF Lookup
<1>2. CASE Refused(c)
  BY <1>1, <1>2, RefusedStep
<1>3. CASE consumed[d] # None /\ calls' = [calls EXCEPT ![c] = q]
  <2>1. d \in Dispatches
    BY <1>1, AdmissionInputs DEF Inv, CallsInv, CallOK, DispatchOf
  <2>2. consumed[d] \in Contexts /\ Bound(consumed[d])
          /\ consumed[d].presentation \in Presentations
          /\ Named[consumed[d].presentation] = d
    BY <1>3, <2>1 DEF Inv, ConsumedInv
  <2>3. q \in CallRows
    BY <2>2 DEF CallRows, Phases
  <2>4. CallOK(c, q)
    BY <2>2, <2>3 DEF CallOK
  <2> HIDE DEF q
  <2> QED BY <1>1, <1>3, <2>4, CallStep
<1> QED BY <1>2, <1>3 DEF Lookup

-----------------------------------------------------------------------------
(***************************************************************************)
(* The transaction.                                                        *)
(***************************************************************************)
LEMMA StageStep ==
  ASSUME Inv, NEW c \in Calls, Stage(c)
  PROVE  Inv'
<1> DEFINE x == calls[c].context
<1>1. UNCHANGED <<fleet, registry, clock, consumed>> /\ tx = None
        /\ calls[c].phase = "admitting"
  BY DEF Stage, TargetFree
<1>2. CASE Refused(c) /\ UNCHANGED tx
  BY <1>1, <1>2, RefusedStep
<1>3. CASE /\ eligible /\ Agrees(x, calls[c].then) /\ MayConsume(DispatchOf(c))
           /\ tx' = [call |-> c, context |-> x]
           /\ calls' = [calls EXCEPT ![c].phase = "staged"]
  <2>1. "staged" \in Phases
    BY DEF Phases
  <2>2. PICK q \in CallRows : q.phase = "staged" /\ q.context = x
          /\ calls' = [calls EXCEPT ![c] = q]
    BY <1>3, <2>1, Rephased
  <2>3. x \in Contexts /\ x.presentation \in Presentations /\ Bound(x)
    BY <1>1 DEF Inv, CallsInv, CallOK, CallRows
  <2>4. StandingRow(hosts) = hosts.current /\ StandingRow(policies) = policies.current
    BY StandingIsCurrent DEF Inv, FleetInv
  <2>5. Stands(x)
    BY <1>3, <2>3, <2>4 DEF Stands, Agrees, MayConsume, DispatchOf
  <2>6. tx' \in [call: Calls, context: Contexts] /\ tx'.context = x /\ tx'.call = c
          /\ tx' # None
    BY <1>3, <2>3, NoneIsNoContext
  <2>7. UNCHANGED <<hosts, policies, root, spent, eligible, withdrawn, lapsed>>
    BY <1>1 DEF fleet, registry, clock
  <2> HIDE DEF x
  <2>8. TxInv'
    BY <1>1, <2>5, <2>6, <2>7 DEF TxInv, Stands, Bound, HasHost, HasPolicy, BindsHost
  <2>9. FleetInv' /\ WorldTypes' /\ ConsumedInv'
    BY <1>1, <2>7 DEF Inv, FleetInv, WorldTypes, ConsumedInv, Bound, HasHost, HasPolicy,
       BindsHost
  <2>10. \A d \in Calls : calls'[d] = IF d = c THEN q ELSE calls[d]
    BY <2>2 DEF Inv, CallsInv
  <2>11. \A d \in Calls : CallOK(d, calls[d])'
    <3>1. ASSUME NEW d \in Calls, d # c
          PROVE  CallOK(d, calls[d])'
      <4>1. CallOK(d, calls[d]) /\ calls'[d] = calls[d]
        BY <2>10, <3>1 DEF Inv, CallsInv
      <4> QED BY <1>1, <2>7, <4>1 DEF CallOK, Bound, HasHost, HasPolicy, BindsHost
    <3>2. CallOK(c, calls[c])'
      <4>1. calls'[c] = q
        BY <2>10
      <4> QED BY <1>1, <2>2, <2>3, <2>6, <2>7, <4>1 DEF CallOK, Bound, HasHost, HasPolicy,
            BindsHost
    <3> QED BY <3>1, <3>2
  <2>12. CallsInv'
    BY <2>2, <2>11 DEF Inv, CallsInv
  <2> QED BY <2>8, <2>9, <2>12 DEF Inv
<1> QED BY <1>2, <1>3 DEF Stage

\* The commit writes the one consumption of its dispatch.
LEMMA CommitWrites ==
  ASSUME Inv, Commit
  PROVE  LET x == tx.context
             e == Named[tx.context.presentation]
         IN /\ x \in Contexts /\ Stands(x) /\ e \in Dispatches
            /\ consumed' \in [Dispatches -> Contexts \cup {None}]
            /\ \A d \in Dispatches : consumed'[d] = IF d = e THEN x ELSE consumed[d]
<1>1. tx \in [call: Calls, context: Contexts] /\ Stands(tx.context)
  BY DEF Commit, Inv, TxInv
<1>2. tx.context \in Contexts /\ Named[tx.context.presentation] \in Dispatches
  BY <1>1, AdmissionInputs DEF Stands
<1> QED BY <1>1, <1>2 DEF Commit, Inv, ConsumedInv

LEMMA CommitStep ==
  ASSUME Inv, Commit
  PROVE  Inv'
<1> DEFINE x == tx.context
           e == Named[x.presentation]
           b == tx.call
           q == [calls[b] EXCEPT !.phase = "answered", !.then = {}]
<1>1. x \in Contexts /\ Stands(x) /\ e \in Dispatches
        /\ consumed' \in [Dispatches -> Contexts \cup {None}]
        /\ \A d \in Dispatches : consumed'[d] = IF d = e THEN x ELSE consumed[d]
  BY CommitWrites
<1>2. b \in Calls
  BY DEF Commit, Inv, TxInv
<1>3. UNCHANGED <<hosts, policies, root, spent, eligible, withdrawn, lapsed>> /\ tx' = None
  BY DEF Commit, fleet, registry, clock
<1>4. calls' = [c \in Calls |->
        IF c = b /\ calls[c].phase = "staged" THEN [calls[c] EXCEPT !.phase = "answered", !.then = {}]
        ELSE calls[c]]
  BY DEF Commit
<1>5. \A c \in Calls : calls[c] \in CallRows /\ CallOK(c, calls[c])
  BY DEF Inv, CallsInv
<1>6. q \in CallRows /\ q.phase = "answered" /\ q.context = calls[b].context
  <2>1. calls[b] \in CallRows /\ "answered" \in Phases
    BY <1>2, <1>5 DEF Phases
  <2> QED BY <2>1 DEF CallRows
<1>7. FleetInv' /\ WorldTypes' /\ TxInv'
  BY <1>3 DEF Inv, FleetInv, WorldTypes, TxInv
<1>8. ConsumedInv'
  <2>1. \A y : Bound(y)' <=> Bound(y)
    BY <1>3 DEF Bound, HasHost, HasPolicy, BindsHost
  <2>2. Bound(x) /\ x.presentation \in Presentations
    BY <1>1 DEF Stands
  <2> QED BY <1>1, <2>1, <2>2 DEF Inv, ConsumedInv
<1>9. \A c \in Calls : CallOK(c, calls[c])'
  <2> SUFFICES ASSUME NEW c \in Calls PROVE CallOK(c, calls[c])'
    OBVIOUS
  <2>1. CASE c = b /\ calls[c].phase = "staged"
    <3>1. calls'[c] = q
      BY <1>4, <2>1
    <3>2. calls[c].context = x /\ x.presentation \in Presentations /\ Bound(x)
      BY <1>1, <1>5, <2>1 DEF CallOK, Stands
    <3>3. consumed'[e] = x
      BY <1>1
    <3> HIDE DEF q
    <3> QED BY <1>3, <1>6, <2>1, <3>1, <3>2, <3>3 DEF CallOK, Bound, HasHost, HasPolicy,
          BindsHost
  <2>2. CASE ~(c = b /\ calls[c].phase = "staged")
    <3>1. calls'[c] = calls[c] /\ CallOK(c, calls[c])
      BY <1>4, <1>5, <2>2
    <3>2. calls[c].phase # "staged"
      BY <2>2, <3>1 DEF CallOK
    <3>3. calls[c].phase = "answered" =>
            consumed'[Named[calls[c].context.presentation]] = calls[c].context
      <4> SUFFICES ASSUME calls[c].phase = "answered"
                   PROVE  consumed'[Named[calls[c].context.presentation]] = calls[c].context
        OBVIOUS
      <4> DEFINE d == Named[calls[c].context.presentation]
      <4>1. d \in Dispatches /\ consumed[d] = calls[c].context
              /\ calls[c].context \in Contexts
        BY <3>1, AdmissionInputs DEF CallOK, CallRows
      <4>2. consumed[e] = None
        BY <1>1 DEF Stands
      <4>3. d # e
        BY <4>1, <4>2, NoneIsNoContext
      <4> QED BY <1>1, <4>1, <4>3
    <3> QED BY <1>3, <3>1, <3>2, <3>3 DEF CallOK, Bound, HasHost, HasPolicy, BindsHost
  <2> QED BY <2>1, <2>2
<1>10. calls' \in [Calls -> CallRows]
  <2>1. \A c \in Calls : calls'[c] \in CallRows
    BY <1>4, <1>5, <1>6
  <2> QED BY <1>4, <2>1
<1> QED BY <1>7, <1>8, <1>9, <1>10 DEF Inv, CallsInv

LEMMA AbortStep ==
  ASSUME Inv, Abort
  PROVE  Inv'
<1> DEFINE b == tx.call
           q == [calls[b] EXCEPT !.phase = "unknown"]
<1>1. b \in Calls
  BY DEF Abort, Inv, TxInv
<1>2. UNCHANGED <<hosts, policies, root, spent, eligible, withdrawn, lapsed, consumed>>
        /\ tx' = None
  BY DEF Abort, fleet, registry, clock
<1>3. calls' = [c \in Calls |->
        IF c = b /\ calls[c].phase = "staged" THEN [calls[c] EXCEPT !.phase = "unknown"]
        ELSE calls[c]]
  BY DEF Abort
<1>4. \A c \in Calls : calls[c] \in CallRows /\ CallOK(c, calls[c])
  BY DEF Inv, CallsInv
<1>5. q \in CallRows /\ q.phase = "unknown" /\ q.context = calls[b].context
  <2>1. calls[b] \in CallRows /\ "unknown" \in Phases
    BY <1>1, <1>4 DEF Phases
  <2> QED BY <2>1 DEF CallRows
<1>6. FleetInv' /\ WorldTypes' /\ TxInv' /\ ConsumedInv'
  BY <1>2 DEF Inv, FleetInv, WorldTypes, TxInv, ConsumedInv, Bound, HasHost, HasPolicy,
     BindsHost
<1>7. \A c \in Calls : CallOK(c, calls[c])'
  <2> SUFFICES ASSUME NEW c \in Calls PROVE CallOK(c, calls[c])'
    OBVIOUS
  <2>1. CASE c = b /\ calls[c].phase = "staged"
    <3>1. calls'[c] = q /\ CallOK(c, calls[c])
      BY <1>3, <1>4, <2>1
    <3> HIDE DEF q
    <3> QED BY <1>2, <1>5, <2>1, <3>1 DEF CallOK, Bound, HasHost, HasPolicy, BindsHost
  <2>2. CASE ~(c = b /\ calls[c].phase = "staged")
    <3>1. calls'[c] = calls[c] /\ CallOK(c, calls[c])
      BY <1>3, <1>4, <2>2
    <3>2. calls[c].phase # "staged"
      BY <2>2, <3>1 DEF CallOK
    <3> QED BY <1>2, <3>1, <3>2 DEF CallOK, Bound, HasHost, HasPolicy, BindsHost
  <2> QED BY <2>1, <2>2
<1>8. calls' \in [Calls -> CallRows]
  <2>1. \A c \in Calls : calls'[c] \in CallRows
    BY <1>3, <1>4, <1>5
  <2> QED BY <1>3, <2>1
<1> QED BY <1>6, <1>7, <1>8 DEF Inv, CallsInv

-----------------------------------------------------------------------------
LEMMA InvStep == Inv /\ [Next]_vars => Inv'
<1> SUFFICES ASSUME Inv, [Next]_vars PROVE Inv'
  OBVIOUS
<1>1. CASE UNCHANGED vars
  <2>1. UNCHANGED <<hosts, policies, root, spent, eligible, withdrawn, lapsed, calls, tx,
                    consumed>>
    BY <1>1 DEF vars, fleet, registry, clock
  <2>2. FleetInv' /\ WorldTypes' /\ ConsumedInv'
    BY <2>1 DEF Inv, FleetInv, WorldTypes, ConsumedInv, Bound, HasHost, HasPolicy, BindsHost
  <2>3. TxInv'
    BY <2>1 DEF Inv, TxInv, Stands, Bound, HasHost, HasPolicy, BindsHost
  <2>4. CallsInv'
    BY <2>1 DEF Inv, CallsInv, CallOK, Bound, HasHost, HasPolicy, BindsHost
  <2> QED BY <2>2, <2>3, <2>4 DEF Inv
<1>2. ASSUME NEW c \in Calls,
             \/ \E p \in Presentations : BeginResolving(c, p)
             \/ ReadHost(c) \/ ReadHostPointer(c)
             \/ ReadPolicy(c) \/ ReadPolicyPointer(c)
             \/ ReadSignerRoot(c) \/ ReadHostRoot(c)
             \/ BeginAdmission(c) \/ Stage(c) \/ LoseReply(c) \/ Lookup(c)
      PROVE  Inv'
  BY <1>2, BeginResolvingStep, ReadHostStep, PointerSteps, ReadPolicyStep,
     ReadSignerRootStep, ReadHostRootStep, BeginAdmissionStep, StageStep, LoseReplyStep,
     LookupStep
<1> QED BY <1>1, <1>2, HostCommands, HostRevoked, PolicyCommands, PolicyRevoked,
           MoveRootStep, ClockSteps, CommitStep, AbortStep DEF Next

\* The invariant of host admission.
THEOREM AdmissionInvariant == Spec => []Inv
BY Initially, InvStep, PTL DEF Spec

\* Every variable holds what its tables, a caller or a transaction can hold.
THEOREM TypesHold == Spec => []TypeOK
<1>1. Inv => TypeOK
  BY DEF Inv, FleetInv, HistoryOK, WorldTypes, CallsInv, TxInv, ConsumedInv, TypeOK,
     Associations
<1>2. QED
  BY <1>1, AdmissionInvariant, PTL

\* The pointers of the target name its open rows in every state between commits
\* (_require_current_association_locked and its kin never find drift).
THEOREM PointersHold == Spec => []NothingDrifts
<1>1. Inv => NothingDrifts
  BY DEF Inv, FleetInv, HistoryOK, NothingDrifts
<1>2. QED
  BY <1>1, AdmissionInvariant, PTL

\* A consumption rests on a policy made for the association it names.
THEOREM PolicyBindsHost == Spec => []PolicyBindsConsumedHost
<1>1. Inv => PolicyBindsConsumedHost
  BY DEF Inv, ConsumedInv, Bound, BindsHost, PolicyBindsConsumedHost
<1>2. QED
  BY <1>1, AdmissionInvariant, PTL

\* A caller is answered with the one consumption of its dispatch, after a crash
\* too (lookup_foundation_execution_consumption).
THEOREM AnswersHold == Spec => []AnswersAreTrue
<1>1. Inv => AnswersAreTrue
  BY DEF Inv, CallsInv, CallOK, AnswersAreTrue, DispatchOf
<1>2. QED
  BY <1>1, AdmissionInvariant, PTL

-----------------------------------------------------------------------------
\* What a commit consumes stands at the commit (admit_and_consume_host_admission
\* derives every fact again under the locks that it holds until then).
THEOREM ConsumptionsStand == Spec => ConsumedOnStanding
<1>1. ASSUME Inv, [Next]_vars, NEW d \in Dispatches, consumed'[d] # consumed[d]
      PROVE  LET context == consumed'[d]
             IN /\ StandingRow(hosts) = context.association
                /\ StandingRow(policies) = context.policy
                /\ root[hosts.rows[context.association]] = context.hostRoot
                /\ root[policies.rows[context.policy].signer] = context.signerRoot
                /\ eligible /\ d \notin withdrawn
  <2>1. Commit \/ consumed' = consumed
    BY <1>1 DEF Next, BindHost, RotateHost, RevokeHost, SetPolicy, RevisePolicy,
       RevokePolicy, MoveRoot, CloseCredential, WithdrawDispatch, Lapse, BeginResolving,
       ReadHost, ReadHostPointer, ReadPolicy, ReadPolicyPointer, ReadPointer,
       ReadSignerRoot, ReadHostRoot, BeginAdmission, Stage, LoseReply, Lookup, Abort, vars
  <2>2. Commit
    BY <1>1, <2>1
  <2>3. d = Named[tx.context.presentation] /\ consumed'[d] = tx.context
          /\ Stands(tx.context)
    BY <1>1, <2>2, CommitWrites
  <2>4. StandingRow(hosts) = hosts.current /\ StandingRow(policies) = policies.current
    BY <1>1, StandingIsCurrent DEF Inv, FleetInv
  <2> QED BY <2>3, <2>4 DEF Stands
<1>2. Inv /\ [Next]_vars =>
        [\A d \in Dispatches : consumed'[d] # consumed[d] =>
           LET context == consumed'[d]
           IN /\ StandingRow(hosts) = context.association
              /\ StandingRow(policies) = context.policy
              /\ root[hosts.rows[context.association]] = context.hostRoot
              /\ root[policies.rows[context.policy].signer] = context.signerRoot
              /\ eligible /\ d \notin withdrawn]_vars
  BY <1>1
<1>3. QED
  BY <1>2, AdmissionInvariant, PTL DEF Spec, ConsumedOnStanding

\* How a step may change the histories.
LEMMA HistoryWriters ==
  ASSUME Inv, [Next]_vars
  PROVE  /\ \/ hosts' = hosts
            \/ \E h \in Hosts : hosts' = Opened(hosts, h) /\ Len(hosts.rows) < MaxRows
            \/ hosts' = Withdrawn(hosts) /\ hosts.current # 0
         /\ \/ policies' = policies
            \/ \E p \in PolicyRows :
                 policies' = Opened(policies, p) /\ Len(policies.rows) < MaxRows
            \/ policies' = Withdrawn(policies) /\ policies.current # 0
<1>1. \/ UNCHANGED fleet
      \/ \E h \in Hosts : BindHost(h) \/ RotateHost(h)
      \/ RevokeHost
      \/ \E s \in Signers : SetPolicy(s) \/ RevisePolicy(s)
      \/ RevokePolicy
  BY DEF Next, MoveRoot, CloseCredential, WithdrawDispatch, Lapse, BeginResolving,
     ReadHost, ReadHostPointer, ReadPolicy, ReadPolicyPointer, ReadPointer,
     ReadSignerRoot, ReadHostRoot, BeginAdmission, Stage, LoseReply, Lookup, Commit, Abort,
     vars
<1>2. ASSUME NEW h \in Hosts, BindHost(h) \/ RotateHost(h)
      PROVE  hosts' = Opened(hosts, h) /\ Len(hosts.rows) < MaxRows /\ policies' = policies
  BY <1>2 DEF BindHost, RotateHost
<1>3. RevokeHost =>
        hosts' = Withdrawn(hosts) /\ hosts.current # 0 /\ policies' = policies
  BY HostRevoked DEF RevokeHost
<1>4. ASSUME NEW s \in Signers, SetPolicy(s) \/ RevisePolicy(s)
      PROVE  /\ policies' = Opened(policies, NewPolicy(s)) /\ Len(policies.rows) < MaxRows
             /\ NewPolicy(s) \in PolicyRows /\ hosts' = hosts
  BY <1>4, PolicyCommands DEF SetPolicy, RevisePolicy
<1>5. RevokePolicy =>
        policies' = Withdrawn(policies) /\ policies.current # 0 /\ hosts' = hosts
  BY PolicyRevoked DEF RevokePolicy
<1> QED BY <1>1, <1>2, <1>3, <1>4, <1>5 DEF fleet

\* The histories of a target are registers: it has one row or none, and a row
\* stands once.
THEOREM HistoriesHold == Spec => HistoriesAreRegisters
<1>1. ASSUME Init
      PROVE  HostHistory!RegisterInit /\ PolicyHistory!RegisterInit
  <2>1. hosts.current = 0 /\ policies.current = 0 /\ DOMAIN hosts.rows = {}
          /\ DOMAIN policies.rows = {}
    BY <1>1 DEF Init, EmptyHistory
  <2> QED BY <2>1 DEF HostHistory!RegisterInit, PolicyHistory!RegisterInit
<1>2. ASSUME Inv, [Next]_vars
      PROVE  [HostHistory!RegisterNext]_(HostHistory!registerVars)
  <2>1. CASE hosts' = hosts
    BY <2>1 DEF HostHistory!registerVars
  <2>2. ASSUME NEW h \in Hosts, hosts' = Opened(hosts, h), Len(hosts.rows) < MaxRows
        PROVE  HostHistory!RegisterNext
    <3> DEFINE n == Len(hosts.rows) + 1
    <3>1. hosts'.current = n /\ DOMAIN hosts'.rows = (DOMAIN hosts.rows) \cup {n}
            /\ n \in 1..MaxRows /\ n \notin DOMAIN hosts.rows
      BY <1>2, <2>2, OpenedIsOK DEF Inv, FleetInv
    <3> HIDE DEF n
    <3>2. HostHistory!Install("target", n) \/ HostHistory!Replace("target", n)
      BY <3>1 DEF HostHistory!Install, HostHistory!Replace
    <3> QED BY <3>1, <3>2 DEF HostHistory!RegisterNext
  <2>3. CASE hosts' = Withdrawn(hosts) /\ hosts.current # 0
    <3>1. hosts'.current = 0 /\ hosts'.rows = hosts.rows
      BY <1>2, <2>3, WithdrawnIsOK DEF Inv, FleetInv
    <3>2. HostHistory!Withdraw("target")
      BY <2>3, <3>1 DEF HostHistory!Withdraw
    <3> QED BY <3>2 DEF HostHistory!RegisterNext
  <2> QED BY <1>2, <2>1, <2>2, <2>3, HistoryWriters
<1>3. ASSUME Inv, [Next]_vars
      PROVE  [PolicyHistory!RegisterNext]_(PolicyHistory!registerVars)
  <2>1. CASE policies' = policies
    BY <2>1 DEF PolicyHistory!registerVars
  <2>2. ASSUME NEW p \in PolicyRows, policies' = Opened(policies, p),
               Len(policies.rows) < MaxRows
        PROVE  PolicyHistory!RegisterNext
    <3> DEFINE n == Len(policies.rows) + 1
    <3>1. policies'.current = n /\ DOMAIN policies'.rows = (DOMAIN policies.rows) \cup {n}
            /\ n \in 1..MaxRows /\ n \notin DOMAIN policies.rows
      BY <1>3, <2>2, OpenedIsOK DEF Inv, FleetInv
    <3> HIDE DEF n
    <3>2. PolicyHistory!Install("target", n) \/ PolicyHistory!Replace("target", n)
      BY <3>1 DEF PolicyHistory!Install, PolicyHistory!Replace
    <3> QED BY <3>1, <3>2 DEF PolicyHistory!RegisterNext
  <2>3. CASE policies' = Withdrawn(policies) /\ policies.current # 0
    <3>1. policies'.current = 0 /\ policies'.rows = policies.rows
      BY <1>3, <2>3, WithdrawnIsOK DEF Inv, FleetInv
    <3>2. PolicyHistory!Withdraw("target")
      BY <2>3, <3>1 DEF PolicyHistory!Withdraw
    <3> QED BY <3>2 DEF PolicyHistory!RegisterNext
  <2> QED BY <1>3, <2>1, <2>2, <2>3, HistoryWriters
<1>4. QED
  BY <1>1, <1>2, <1>3, AdmissionInvariant, PTL
     DEF Spec, HistoriesAreRegisters, HostHistory!RegisterSpec, PolicyHistory!RegisterSpec
=============================================================================
