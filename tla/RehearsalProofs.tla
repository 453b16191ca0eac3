---------------------------- MODULE RehearsalProofs ----------------------------
(***************************************************************************)
(* For every number of sessions, leases, keys and instants: an authority   *)
(* of the rehearsal ledgers ends once, on terms that stand, with evidence  *)
(* that serves one act, and the ledgers implement AuthorityLedger.         *)
(***************************************************************************)
EXTENDS RehearsalLedger, TLAPS

Ops == {"none", "issue", "consume", "spend", "revoke", "standing"}
Steps == {"idle", "waiting", "locked", "staged", "read", "valid"}

CallRows ==
  [op : Ops, step : Steps, id : References \cup {None}, plan : Plans \cup {None},
   command : Commands \cup {None}, evidence : Evidence \cup {None},
   now : 0..MaxClock, row : States]

Ending == {"consume", "spend", "revoke"}

\* What a session is doing fits its operation.
CallOK(r) ==
  /\ r.step = "idle" <=> r = Idle
  /\ r.op = "none" <=> r = Idle
  /\ r.step = "locked" => r.op = "consume"
  /\ r.step = "staged" => r.op \in Ending \cup {"issue"}
  /\ r.step \in {"read", "valid"} => r.op = "standing"
  /\ r.op = "issue" =>
       r.plan \in Plans /\ r.command \in Commands /\ r.evidence \in Evidence
  /\ r.op \in {"consume", "standing"} =>
       r.id \in Minted /\ r.evidence \in Evidence /\ r.plan = doc[r.id].plan
  /\ r.op = "spend" => r.id \in Grants
  /\ r.op = "revoke" => r.id \in Minted \cup Grants

\* What a staged call relies on until it commits.
Relies(r) ==
  r.step = "staged" =>
    /\ r.op = "issue" => r.id \in Minted /\ ledger[r.id] = "absent"
    /\ r.op \in Ending => ledger[r.id] = "issued"
    /\ r.op = "consume" =>
         /\ plan[r.plan] = "stands" /\ active[TargetOf[r.plan]]
         /\ Bears(r.id, r.evidence) /\ r.evidence # doc[r.id].evidence

Types ==
  /\ ledger \in [References -> States]
  /\ doc \in [Ids -> Statements \cup {None}]
  /\ plan \in [Plans -> {"proposed", "stands", "withdrawn"}]
  /\ active \in [Targets -> BOOLEAN]
  /\ clock \in 0..MaxClock
  /\ acts \in [References -> Nat]
  /\ spentWith \in [Ids -> Evidence \cup {None}]
  /\ truth \in [Calls -> BOOLEAN]
  /\ call \in [Calls -> CallRows]
  /\ Recorded \subseteq Minted

\* The sessions, and that no two of them have staged one row.
CallsInv ==
  /\ \A c \in Calls : CallOK(call[c]) /\ Relies(call[c])
  /\ \A c, d \in Calls :
       c # d /\ call[c].step = "staged" /\ call[d].step = "staged" =>
         call[c].id # call[d].id

\* The rows that hold a lease and a controller, committed or about to be.
Bound == Recorded \cup {call[c].id : c \in Inserting}

\* Leases and controllers are given once, and what was spent bears its own.
BindingInv ==
  /\ \A i, j \in Bound : i # j =>
       /\ doc[i].evidence.lease # doc[j].evidence.lease
       /\ doc[i].evidence.controller # doc[j].evidence.controller
  /\ \A i \in Ids : spentWith[i] # None =>
       i \in Recorded /\ Bears(i, spentWith[i]) /\ spentWith[i] # doc[i].evidence

\* A row ends with one act.
EndInv ==
  \A i \in References :
    acts[i] = IF ledger[i] \in {"spent", "revoked"} THEN 1 ELSE 0

\* Only a plan that stands is signed for, and what a reader found was in force.
PlanInv ==
  /\ \A i \in Minted : plan[doc[i].plan] # "proposed"
  /\ \A c \in Calls :
       /\ call[c].step = "read" /\ call[c].row = "issued"
            /\ plan[call[c].plan] = "stands" => truth[c]
       /\ call[c].step = "valid" => truth[c]

Inv == Types /\ CallsInv /\ BindingInv /\ EndInv /\ PlanInv

-----------------------------------------------------------------------------
THEOREM Initially == Init => Inv
<1> SUFFICES ASSUME Init PROVE Inv
  OBVIOUS
<1>1. Minted = {} /\ Recorded = {} /\ Inserting = {} /\ Bound = {}
  BY RehearsalAssumption DEF Init, Minted, Recorded, Inserting, Bound, References, Idle
<1>2. Idle \in CallRows /\ CallOK(Idle) /\ Relies(Idle)
  BY RehearsalAssumption DEF Idle, CallRows, CallOK, Relies, Ops, Steps, States, Ending
<1>3. Types
  BY <1>1, <1>2, RehearsalAssumption DEF Init, Types, States, References
<1>4. CallsInv
  BY <1>2 DEF Init, CallsInv, Idle
<1>5. BindingInv
  BY <1>1 DEF Init, BindingInv
<1>6. EndInv
  BY DEF Init, EndInv, References
<1>7. PlanInv
  BY <1>1 DEF Init, PlanInv, Idle
<1> QED BY <1>3, <1>4, <1>5, <1>6, <1>7 DEF Inv

\* A step of one session that stages nothing and writes no row.
LEMMA SessionStep ==
  ASSUME Inv, NEW c \in Calls, NEW r \in CallRows,
         call' = [call EXCEPT ![c] = r], UNCHANGED <<rows, world>>,
         CallOK(r), r.step # "staged", truth' \in [Calls -> BOOLEAN]
  PROVE  Types' /\ CallsInv' /\ BindingInv' /\ EndInv'
<1>1. UNCHANGED <<ledger, doc, plan, active, clock, acts, spentWith>>
  BY DEF rows, world
<1>2. \A d \in Calls : call'[d] = IF d = c THEN r ELSE call[d]
  BY DEF Inv, Types
<1>3. Recorded' = Recorded /\ Minted' = Minted
  BY <1>1 DEF Recorded, Minted
<1>4. Types'
  BY <1>1, <1>3 DEF Inv, Types
<1>5. CallsInv'
  <2>1. \A d \in Calls : CallOK(call[d])'
    BY <1>1, <1>2, <1>3 DEF Inv, CallsInv, CallOK
  <2>2. \A d \in Calls : Relies(call[d])'
    BY <1>1, <1>2, <1>3 DEF Inv, CallsInv, Relies, Bears
  <2>3. QED
    BY <1>2, <2>1, <2>2 DEF Inv, CallsInv
<1>6. Inserting' \subseteq Inserting /\ \A d \in Inserting' : call'[d].id = call[d].id
  BY <1>2 DEF Inserting
<1>7. Bound' \subseteq Bound
  BY <1>3, <1>6 DEF Bound
<1>8. BindingInv'
  BY <1>1, <1>3, <1>7 DEF Inv, BindingInv, Bears
<1>9. EndInv'
  BY <1>1 DEF Inv, EndInv
<1> QED BY <1>4, <1>5, <1>8, <1>9

\* A call that begins.
LEMMA BeginIsSession ==
  ASSUME Inv, NEW c \in Calls, NEW r \in CallRows, Begin(c, r),
         CallOK([r EXCEPT !.now = clock, !.step = "waiting"])
  PROVE  \E q \in CallRows :
           /\ call' = [call EXCEPT ![c] = q] /\ UNCHANGED <<rows, world>>
           /\ CallOK(q) /\ q.step \notin {"staged", "read", "valid"}
<1> DEFINE q == [r EXCEPT !.now = clock, !.step = "waiting"]
<1>1. q \in CallRows /\ q.step = "waiting"
  BY DEF CallRows, Steps, Inv, Types
<1> QED BY <1>1 DEF Begin

LEMMA BeginsAreSessions ==
  ASSUME Inv, NEW c \in Calls,
         BeginIssue(c) \/ BeginConsume(c) \/ BeginAlone(c) \/ BeginStanding(c)
  PROVE  \E q \in CallRows :
           /\ call' = [call EXCEPT ![c] = q] /\ UNCHANGED <<rows, world>>
           /\ CallOK(q) /\ q.step \notin {"staged", "read", "valid"}
<1> DEFINE Waits(r) == [r EXCEPT !.now = clock, !.step = "waiting"]
<1>0. Idle \in CallRows /\ Idle.step = "idle" /\ Minted \subseteq Ids
  BY RehearsalAssumption DEF Idle, CallRows, Ops, Steps, States, Minted
<1>1. CASE BeginIssue(c)
  <2>1. PICK p \in Plans, cmd \in Commands, e \in Evidence :
          Begin(c, [Idle EXCEPT !.op = "issue", !.plan = p, !.command = cmd,
                                !.evidence = e])
    BY <1>1 DEF BeginIssue
  <2> DEFINE r == [Idle EXCEPT !.op = "issue", !.plan = p, !.command = cmd,
                               !.evidence = e]
  <2>2. r \in CallRows
    BY <1>0 DEF CallRows, Ops
  <2>3. CallOK(Waits(r))
    BY <1>0 DEF Idle, CallOK, CallRows
  <2> QED BY <2>1, <2>2, <2>3, BeginIsSession
<1>2. CASE BeginConsume(c) \/ BeginStanding(c)
  <2>1. PICK i \in Minted, e \in Evidence, op \in {"consume", "standing"} :
          Begin(c, [Idle EXCEPT !.op = op, !.id = i, !.evidence = e,
                                !.plan = doc[i].plan])
    BY <1>2 DEF BeginConsume, BeginStanding
  <2> DEFINE r == [Idle EXCEPT !.op = op, !.id = i, !.evidence = e,
                               !.plan = doc[i].plan]
  <2>2. i \in Ids /\ doc[i].plan \in Plans
    BY <1>0 DEF Inv, Types, Minted, Statements
  <2>3. r \in CallRows
    BY <1>0, <2>2 DEF CallRows, Ops, References
  <2>4. CallOK(Waits(r))
    BY <1>0 DEF Idle, CallOK, CallRows
  <2> QED BY <2>1, <2>3, <2>4, BeginIsSession
<1>3. CASE BeginAlone(c)
  <2>1. PICK op \in {"spend", "revoke"}, i \in References :
          /\ Begin(c, [Idle EXCEPT !.op = op, !.id = i])
          /\ op = "spend" => i \in Grants
          /\ op = "revoke" => i \in Minted \cup Grants
    BY <1>0, <1>3 DEF BeginAlone, References
  <2> DEFINE r == [Idle EXCEPT !.op = op, !.id = i]
  <2>2. r \in CallRows
    BY <1>0 DEF CallRows, Ops
  <2>3. CallOK(Waits(r))
    BY <1>0, <2>1 DEF Idle, CallOK, CallRows
  <2> QED BY <2>1, <2>2, <2>3, BeginIsSession
<1> QED BY <1>1, <1>2, <1>3

\* A call that ends without a commit, or moves on without staging.
LEMMA MovesAreSessions ==
  ASSUME Inv, NEW c \in Calls,
         \/ ReplayIssue(c) \/ LockPlan(c) \/ Abandon(c)
         \/ ReadRow(c) \/ ReadTerms(c)
  PROVE  \E q \in CallRows :
           /\ call' = [call EXCEPT ![c] = q] /\ UNCHANGED <<rows, world>>
           /\ CallOK(q) /\ q.step # "staged"
<1>0. Idle \in CallRows /\ CallOK(Idle) /\ Idle.step # "staged"
  BY RehearsalAssumption DEF Idle, CallRows, Ops, Steps, States, CallOK, Ending
<1>1. call[c] \in CallRows /\ CallOK(call[c])
  BY DEF Inv, Types, CallsInv
<1>2. CASE Ends(c) /\ UNCHANGED <<rows, world>>
  BY <1>0, <1>2 DEF Ends
<1>3. CASE LockPlan(c)
  <2> DEFINE q == [call[c] EXCEPT !.step = "locked"]
  <2>1. q \in CallRows /\ CallOK(q) /\ q.step # "staged"
    BY <1>1, <1>3 DEF LockPlan, CallRows, Steps, CallOK, Idle
  <2>2. call' = [call EXCEPT ![c] = q]
    BY <1>3 DEF LockPlan, Goes, Inv, Types
  <2> QED BY <1>3, <2>1, <2>2 DEF LockPlan
<1>4. CASE ReadRow(c)
  <2> DEFINE q == [call[c] EXCEPT !.row = ledger[call[c].id], !.step = "read"]
  <2>1. call[c].id \in References
    BY <1>1, <1>4 DEF ReadRow, CallOK, Minted, References
  <2>2. q \in CallRows /\ CallOK(q) /\ q.step # "staged"
    BY <1>1, <1>4, <2>1 DEF ReadRow, CallRows, Steps, CallOK, Idle, Inv, Types
  <2>3. call' = [call EXCEPT ![c] = q]
    BY <1>4 DEF ReadRow, Inv, Types
  <2> QED BY <1>4, <2>2, <2>3 DEF ReadRow
<1>5. CASE ReadTerms(c) /\ Goes(c, "valid")
  <2> DEFINE q == [call[c] EXCEPT !.step = "valid"]
  <2>1. q \in CallRows /\ CallOK(q) /\ q.step # "staged"
    BY <1>1, <1>5 DEF ReadTerms, CallRows, Steps, CallOK, Idle
  <2>2. call' = [call EXCEPT ![c] = q]
    BY <1>5 DEF Goes, Inv, Types
  <2> QED BY <1>5, <2>1, <2>2 DEF ReadTerms
<1> QED
  BY <1>2, <1>3, <1>4, <1>5 DEF ReplayIssue, Abandon, ReadTerms

\* Which calls have inserted, and what they bound, after one session moved.
LEMMA BoundAfter ==
  ASSUME Inv, NEW c \in Calls, NEW q \in CallRows, call' = [call EXCEPT ![c] = q]
  PROVE  /\ \A d \in Calls : call'[d] = IF d = c THEN q ELSE call[d]
         /\ Bound' \subseteq Recorded' \cup Bound
              \cup (IF q.op = "issue" /\ q.step = "staged" THEN {q.id} ELSE {})
<1>1. \A d \in Calls : call'[d] = IF d = c THEN q ELSE call[d]
  BY DEF Inv, Types
<1> QED BY <1>1 DEF Bound, Inserting

\* What is bound was minted.
LEMMA BoundIsMinted ==
  ASSUME Inv
  PROVE  Bound \subseteq Minted /\ Minted \subseteq Ids
  BY DEF Inv, Types, CallsInv, Relies, Bound, Inserting, Minted

LEMMA StageIssueStep ==
  ASSUME Inv, NEW c \in Calls, StageIssue(c), truth' \in [Calls -> BOOLEAN]
  PROVE  Types' /\ CallsInv' /\ BindingInv' /\ EndInv'
<1> DEFINE r == call[c]
           e == r.evidence
<1>1. r \in CallRows /\ CallOK(r) /\ r.plan \in Plans /\ r.command \in Commands
        /\ e \in Evidence
  BY DEF Inv, Types, CallsInv, CallOK, StageIssue
<1>2. PICK i \in Ids \ Minted :
        /\ doc' = [doc EXCEPT ![i] =
             [plan |-> r.plan, command |-> r.command, evidence |-> e,
              issued |-> r.now, expires |-> Least(r.now + Ttl, e.at + Lifetime)]]
        /\ call' = [call EXCEPT ![c].id = i, ![c].step = "staged"]
  BY DEF StageIssue
<1> DEFINE s == [plan |-> r.plan, command |-> r.command, evidence |-> e,
                 issued |-> r.now, expires |-> Least(r.now + Ttl, e.at + Lifetime)]
           q == [r EXCEPT !.id = i, !.step = "staged"]
<1>3. UNCHANGED <<ledger, plan, active, clock, acts, spentWith>>
  BY DEF StageIssue, world
<1>4. s \in Statements
  <2>1. e.at \in Nat /\ r.now \in 0..MaxClock /\ Ttl \in Nat /\ Lifetime \in Nat
    BY <1>1, RehearsalAssumption DEF CallRows
  <2>2. Least(r.now + Ttl, e.at + Lifetime) \in Nat
    BY <2>1, RehearsalAssumption DEF Least
  <2> QED BY <1>1, <2>1, <2>2 DEF Statements
<1>5. \A j \in Ids : doc'[j] = IF j = i THEN s ELSE doc[j]
  BY <1>2 DEF Inv, Types
<1>6. s # None
  BY <1>4, NoneIsNoRow
<1>7. Minted' = Minted \cup {i} /\ Recorded' = Recorded
  BY <1>3, <1>5, <1>6 DEF Minted, Recorded
<1>8. q \in CallRows /\ q.op = "issue" /\ q.step = "staged" /\ q.id = i
  BY <1>1 DEF CallRows, Steps, References, StageIssue
<1>9. call' = [call EXCEPT ![c] = q]
  BY <1>2 DEF Inv, Types
<1>10. \A d \in Calls : call'[d] = IF d = c THEN q ELSE call[d]
  BY <1>8, <1>9, BoundAfter
<1>11. ledger[i] = "absent" /\ i \notin Bound /\ i \in References
  BY BoundIsMinted DEF Inv, Types, Minted, Recorded, References, Bound
<1>12. Types'
  <2>1. doc' \in [Ids -> Statements \cup {None}]
    BY <1>2, <1>4 DEF Inv, Types
  <2>2. call' \in [Calls -> CallRows]
    BY <1>8, <1>9 DEF Inv, Types
  <2> QED BY <1>3, <1>7, <2>1, <2>2 DEF Inv, Types
<1>13. CallsInv'
  <2>1. \A d \in Calls : d # c => CallOK(call[d])' /\ Relies(call[d])'
    <3> SUFFICES ASSUME NEW d \in Calls, d # c
                 PROVE  CallOK(call[d])' /\ Relies(call[d])'
      OBVIOUS
    <3>1. CallOK(call[d]) /\ Relies(call[d]) /\ call'[d] = call[d]
      BY <1>10 DEF Inv, CallsInv
    <3>2. call[d].op \in {"consume", "standing"} =>
            call[d].id \in Ids /\ call[d].id # i /\ doc'[call[d].id] = doc[call[d].id]
      BY <1>5, <3>1 DEF CallOK, Minted
    <3> QED BY <1>3, <1>7, <3>1, <3>2 DEF CallOK, Relies, Bears
  <2>2. CallOK(call[c])' /\ Relies(call[c])'
    <3>1. q.plan = r.plan /\ q.command = r.command /\ q.evidence = e /\ q # Idle
      BY <1>1, <1>8 DEF CallRows, Idle
    <3>2. call'[c] = q /\ q.op = "issue" /\ q.step = "staged" /\ q.id = i
      BY <1>8, <1>10
    <3>3. CallOK(call[c])'
      BY <1>1, <3>1, <3>2 DEF CallOK, Ending
    <3>4. Relies(call[c])'
      BY <1>3, <1>7, <1>11, <3>2 DEF Relies, Ending
    <3> QED BY <3>3, <3>4
  <2>3. \A d \in Calls : d # c /\ call[d].step = "staged" => call[d].id # i
    BY <1>11 DEF Inv, CallsInv, CallOK, Relies, Ending, Bound, Inserting
  <2>4. \A d \in Calls : CallOK(call[d])' /\ Relies(call[d])'
    BY <2>1, <2>2
  <2>5. \A d, b \in Calls :
          d # b /\ call'[d].step = "staged" /\ call'[b].step = "staged" =>
            call'[d].id # call'[b].id
    <3> SUFFICES ASSUME NEW d \in Calls, NEW b \in Calls, d # b,
                        call'[d].step = "staged", call'[b].step = "staged"
                 PROVE  call'[d].id # call'[b].id
      OBVIOUS
    <3>1. CASE d # c /\ b # c
      BY <1>8, <1>10, <3>1 DEF Inv, CallsInv
    <3>2. CASE d = c
      BY <1>8, <1>10, <2>3, <3>2
    <3>3. CASE b = c
      BY <1>8, <1>10, <2>3, <3>3
    <3> QED BY <3>1, <3>2, <3>3
  <2> QED BY <2>4, <2>5 DEF CallsInv
<1>14. BindingInv'
  <2>1. Bound' \subseteq Bound \cup {i}
    BY <1>7, <1>8, <1>9, BoundAfter DEF Bound
  <2>2. \A j \in Bound : j \in Ids /\ doc'[j] = doc[j]
    BY <1>5, <1>11, BoundIsMinted
  <2>3. doc'[i].evidence = e
    BY <1>5
  <2>4. \A j \in Bound : /\ doc[j].evidence.lease # e.lease
                         /\ doc[j].evidence.controller # e.controller
    BY DEF StageIssue, BindingFree, Bound
  <2>5. \A j, k \in Bound' : j # k =>
          /\ doc'[j].evidence.lease # doc'[k].evidence.lease
          /\ doc'[j].evidence.controller # doc'[k].evidence.controller
    BY <2>1, <2>2, <2>3, <2>4 DEF Inv, BindingInv
  <2>6. \A j \in Ids : spentWith[j] # None => doc'[j] = doc[j]
    BY <1>5, <1>11 DEF Inv, BindingInv, Bound
  <2> QED BY <1>3, <1>7, <2>5, <2>6 DEF Inv, BindingInv, Bears
<1>15. EndInv'
  BY <1>3 DEF Inv, EndInv
<1> QED BY <1>12, <1>13, <1>14, <1>15

\* A command that ends an authority has its row, and stages the end.
LEMMA StageEndStep ==
  ASSUME Inv, NEW c \in Calls, StageConsume(c) \/ StageAlone(c),
         truth' \in [Calls -> BOOLEAN]
  PROVE  Types' /\ CallsInv' /\ BindingInv' /\ EndInv'
<1> DEFINE r == call[c]
           q == [r EXCEPT !.step = "staged"]
<1>1. r \in CallRows /\ CallOK(r) /\ r.op \in Ending /\ ledger[r.id] = "issued"
        /\ RowHolders(r.id) = {}
  BY DEF Inv, Types, CallsInv, StageConsume, StageAlone, Ending, MayEnd
<1>2. UNCHANGED <<ledger, doc, plan, active, clock, acts, spentWith>>
  BY DEF StageConsume, StageAlone, rows, world
<1>3. q \in CallRows /\ q.step = "staged" /\ q.op = r.op /\ q.id = r.id
  BY <1>1 DEF CallRows, Steps
<1>4. call' = [call EXCEPT ![c] = q]
  BY DEF StageConsume, StageAlone, Goes, Inv, Types
<1>5. \A d \in Calls : call'[d] = IF d = c THEN q ELSE call[d]
  BY <1>3, <1>4, BoundAfter
<1>6. Minted' = Minted /\ Recorded' = Recorded
  BY <1>2 DEF Minted, Recorded
<1>7. Types'
  BY <1>2, <1>3, <1>4, <1>6 DEF Inv, Types
<1>8. CallsInv'
  <2>1. \A d \in Calls : d # c => CallOK(call[d])' /\ Relies(call[d])'
    BY <1>2, <1>5, <1>6 DEF Inv, CallsInv, CallOK, Relies, Bears
  <2>2. CallOK(call[c])'
    BY <1>1, <1>2, <1>3, <1>5, <1>6 DEF CallOK, CallRows, Ending, Idle
  <2>3. r.op = "consume" =>
          /\ plan[r.plan] = "stands" /\ active[TargetOf[r.plan]]
          /\ Bears(r.id, r.evidence) /\ r.evidence # doc[r.id].evidence
    BY DEF StageConsume, StageAlone, FreshFor
  <2>4. Relies(call[c])'
    <3>1. q.plan = r.plan /\ q.evidence = r.evidence
      BY <1>1 DEF CallRows
    <3> QED BY <1>1, <1>2, <1>3, <1>5, <2>3, <3>1 DEF Relies, Ending, Bears
  <2>5. \A d \in Calls : d # c /\ call[d].step = "staged" => call[d].id # r.id
    <3> SUFFICES ASSUME NEW d \in Calls, d # c, call[d].step = "staged",
                        call[d].id = r.id
                 PROVE  FALSE
      OBVIOUS
    <3>1. CallOK(call[d]) /\ Relies(call[d])
      BY DEF Inv, CallsInv
    <3>2. call[d].op \in Ending
      BY <1>1, <3>1 DEF CallOK, Relies, Ending
    <3> QED BY <1>1, <3>2 DEF RowHolders, Ending
  <2>6. \A d, b \in Calls :
          d # b /\ call'[d].step = "staged" /\ call'[b].step = "staged" =>
            call'[d].id # call'[b].id
    <3> SUFFICES ASSUME NEW d \in Calls, NEW b \in Calls, d # b,
                        call'[d].step = "staged", call'[b].step = "staged"
                 PROVE  call'[d].id # call'[b].id
      OBVIOUS
    <3>1. CASE d # c /\ b # c
      BY <1>3, <1>5, <3>1 DEF Inv, CallsInv
    <3>2. CASE d = c
      BY <1>3, <1>5, <2>5, <3>2
    <3>3. CASE b = c
      BY <1>3, <1>5, <2>5, <3>3
    <3> QED BY <3>1, <3>2, <3>3
  <2>7. \A d \in Calls : CallOK(call[d])' /\ Relies(call[d])'
    BY <2>1, <2>2, <2>4
  <2> QED BY <2>6, <2>7 DEF CallsInv
<1>9. BindingInv'
  <2>1. Bound' \subseteq Bound
    <3>1. q.op # "issue"
      BY <1>1, <1>3 DEF Ending
    <3>2. Bound' \subseteq Recorded' \cup Bound
      BY <1>3, <1>4, <3>1, BoundAfter
    <3> QED BY <1>6, <3>2 DEF Bound
  <2> QED BY <1>2, <1>6, <2>1 DEF Inv, BindingInv, Bears
<1>10. EndInv'
  BY <1>2 DEF Inv, EndInv
<1> QED BY <1>7, <1>8, <1>9, <1>10

LEMMA CommitStep ==
  ASSUME Inv, NEW c \in Calls, Commit(c), truth' \in [Calls -> BOOLEAN]
  PROVE  Types' /\ CallsInv' /\ BindingInv' /\ EndInv'
<1> DEFINE r == call[c]
           i == r.id
           fate == IF r.op = "issue" THEN "issued"
                   ELSE IF r.op = "revoke" THEN "revoked" ELSE "spent"
<1>1. r \in CallRows /\ CallOK(r) /\ Relies(r) /\ r.step = "staged"
        /\ r.op \in Ending \cup {"issue"}
  BY DEF Inv, Types, CallsInv, Commit, CallOK
<1>2. i \in References /\ (r.op \in {"issue", "consume"} => i \in Minted /\ i \in Ids)
  BY <1>1 DEF CallOK, Relies, Ending, References, Minted
<1>3. ledger[i] = IF r.op = "issue" THEN "absent" ELSE "issued"
  BY <1>1 DEF Relies
<1>4. ledger' = [ledger EXCEPT ![i] = fate]
  <2>1. CASE r.op = "issue"
    BY <2>1 DEF Commit
  <2>2. CASE r.op \in {"consume", "spend"}
    BY <2>2 DEF Commit
  <2>3. CASE r.op = "revoke"
    BY <2>3 DEF Commit
  <2> QED BY <1>1, <2>1, <2>2, <2>3 DEF Ending
<1>5. \A j \in References : ledger'[j] = IF j = i THEN fate ELSE ledger[j]
  BY <1>2, <1>4 DEF Inv, Types
<1>6. \A j \in References :
        acts'[j] = IF j = i /\ r.op # "issue" THEN acts[j] + 1 ELSE acts[j]
  BY <1>2 DEF Commit, Inv, Types
<1>7. \A j \in Ids :
        spentWith'[j] = IF j = i /\ r.op = "consume" THEN r.evidence ELSE spentWith[j]
  BY <1>2 DEF Commit, Inv, Types
<1>8. UNCHANGED <<doc, plan, active, clock>>
  BY DEF Commit, world
<1>9. Idle \in CallRows /\ call' = [call EXCEPT ![c] = Idle]
        /\ Idle.step = "idle" /\ Idle.op = "none"
  BY RehearsalAssumption DEF Commit, Ends, Idle, CallRows, Ops, Steps, States
<1>10. \A d \in Calls : call'[d] = IF d = c THEN Idle ELSE call[d]
  BY <1>9, BoundAfter
<1>11. Minted' = Minted
  BY <1>8 DEF Minted
<1>12. Recorded \subseteq Recorded' /\ Recorded' \subseteq Recorded \cup {i}
         /\ (r.op # "issue" => Recorded' = Recorded)
         /\ (r.op = "issue" => i \in Recorded')
  BY <1>2, <1>3, <1>4, <1>5 DEF Recorded, References
<1>13. Types'
  <2>1. ledger' \in [References -> States]
    BY <1>2, <1>4 DEF Inv, Types, States
  <2>2. acts' \in [References -> Nat]
    <3>1. acts' = [acts EXCEPT ![i] = IF r.op = "issue" THEN @ ELSE @ + 1]
      BY DEF Commit
    <3>2. acts \in [References -> Nat]
      BY DEF Inv, Types
    <3>3. acts[i] \in Nat /\ acts[i] + 1 \in Nat
      BY <1>2, <3>2
    <3> HIDE DEF r, i
    <3> QED BY <3>1, <3>2, <3>3
  <2>3. spentWith' \in [Ids -> Evidence \cup {None}]
    BY <1>1 DEF Commit, Inv, Types, CallOK
  <2>4. call' \in [Calls -> CallRows]
    BY <1>9 DEF Inv, Types
  <2>5. Recorded' \subseteq Minted'
    BY <1>2, <1>11, <1>12 DEF Inv, Types
  <2> QED BY <1>8, <2>1, <2>2, <2>3, <2>4, <2>5 DEF Inv, Types
<1>14. CallsInv'
  <2>1. \A d \in Calls : CallOK(call[d])'
    <3>1. CallOK(Idle)
      BY DEF CallOK, Idle, Ending
    <3> QED BY <1>8, <1>10, <1>11, <3>1 DEF Inv, CallsInv, CallOK
  <2>2. \A d \in Calls : Relies(call[d])'
    <3> SUFFICES ASSUME NEW d \in Calls, call'[d].step = "staged"
                 PROVE  Relies(call[d])'
      BY DEF Relies
    <3>1. d # c /\ call'[d] = call[d] /\ call[d].step = "staged"
      BY <1>9, <1>10
    <3>2. CallOK(call[d]) /\ Relies(call[d]) /\ call[d].id # i
      BY <1>1, <3>1 DEF Inv, CallsInv
    <3>3. call[d].id \in References
      BY <3>1, <3>2 DEF CallOK, Relies, Ending, Minted, References
    <3>4. ledger'[call[d].id] = ledger[call[d].id]
      BY <1>5, <3>2, <3>3
    <3> QED BY <1>8, <1>11, <3>1, <3>2, <3>4 DEF Relies, Bears
  <2>3. \A d, b \in Calls :
          d # b /\ call'[d].step = "staged" /\ call'[b].step = "staged" =>
            call'[d].id # call'[b].id
    BY <1>9, <1>10 DEF Inv, CallsInv
  <2> QED BY <2>1, <2>2, <2>3 DEF CallsInv
<1>15. BindingInv'
  <2>1. Bound' \subseteq Bound
    <3>1. Bound' \subseteq Recorded' \cup Bound
      BY <1>9, BoundAfter
    <3>2. r.op = "issue" => i \in Bound
      BY <1>1 DEF Bound, Inserting
    <3> QED BY <1>12, <3>1, <3>2 DEF Bound
  <2>2. \A j \in Ids : spentWith'[j] # None =>
          j \in Recorded' /\ Bears(j, spentWith'[j]) /\ spentWith'[j] # doc[j].evidence
    <3>1. r.op = "consume" =>
            i \in Recorded /\ Bears(i, r.evidence) /\ r.evidence # doc[i].evidence
      BY <1>1, <1>2, <1>3 DEF Relies, Recorded
    <3> QED BY <1>7, <1>12, <3>1 DEF Inv, BindingInv
  <2> QED BY <1>8, <2>1, <2>2 DEF Inv, BindingInv, Bears
<1>16. EndInv'
  <2> SUFFICES ASSUME NEW j \in References
               PROVE  acts'[j] = IF ledger'[j] \in {"spent", "revoked"} THEN 1 ELSE 0
    BY DEF EndInv
  <2>1. acts[j] = IF ledger[j] \in {"spent", "revoked"} THEN 1 ELSE 0
    BY DEF Inv, EndInv
  <2> QED BY <1>3, <1>4, <1>5, <1>6, <2>1
<1> QED BY <1>13, <1>14, <1>15, <1>16

\* The rest of Control waits for the sessions that hold the target.
LEMMA ChangeTargetStep ==
  ASSUME Inv, NEW t \in Targets, ChangeTarget(t), truth' \in [Calls -> BOOLEAN]
  PROVE  Types' /\ CallsInv' /\ BindingInv' /\ EndInv'
<1>1. UNCHANGED <<ledger, doc, acts, spentWith, clock, call>>
  BY DEF ChangeTarget, rows
<1>2. \A p \in Plans : TargetOf[p] # t => plan'[p] = plan[p]
  BY DEF ChangeTarget, Inv, Types
<1>3. \A u \in Targets : u # t => active'[u] = active[u]
  BY DEF ChangeTarget, Inv, Types
<1>4. Recorded' = Recorded /\ Minted' = Minted /\ Bound' = Bound
  BY <1>1 DEF Recorded, Minted, Bound, Inserting
<1>5. Types'
  <2>1. plan' \in [Plans -> {"proposed", "stands", "withdrawn"}]
    BY DEF ChangeTarget, Inv, Types
  <2>2. active' \in [Targets -> BOOLEAN]
    BY DEF ChangeTarget, Inv, Types
  <2> QED BY <1>1, <1>4, <2>1, <2>2 DEF Inv, Types
<1>6. CallsInv'
  <2>1. \A c \in Calls : CallOK(call[c])'
    BY <1>1, <1>4 DEF Inv, CallsInv, CallOK
  <2>2. \A c \in Calls : Relies(call[c])'
    <3> SUFFICES ASSUME NEW c \in Calls PROVE Relies(call[c])'
      OBVIOUS
    <3>1. CallOK(call[c]) /\ Relies(call[c])
      BY DEF Inv, CallsInv
    <3>2. CASE call[c].op = "consume" /\ call[c].step = "staged"
      <4>1. call[c].plan \in Plans
        BY <3>1, <3>2 DEF CallOK, Minted, Inv, Types, Statements
      <4>2. TargetOf[call[c].plan] # t
        BY <3>2 DEF ChangeTarget, TargetHolders
      <4>3. TargetOf[call[c].plan] \in Targets
        BY <4>1, RehearsalAssumption
      <4> QED BY <1>1, <1>2, <1>3, <1>4, <3>1, <4>1, <4>2, <4>3 DEF Relies, Bears
    <3>3. CASE ~(call[c].op = "consume" /\ call[c].step = "staged")
      BY <1>1, <1>4, <3>1, <3>3 DEF Relies
    <3> QED BY <3>2, <3>3
  <2> QED BY <1>1, <2>1, <2>2 DEF Inv, CallsInv
<1>7. BindingInv'
  BY <1>1, <1>4 DEF Inv, BindingInv, Bears
<1>8. EndInv'
  BY <1>1 DEF Inv, EndInv
<1> QED BY <1>5, <1>6, <1>7, <1>8

LEMMA TickStep ==
  ASSUME Inv, Tick, truth' \in [Calls -> BOOLEAN]
  PROVE  Types' /\ CallsInv' /\ BindingInv' /\ EndInv'
<1>1. UNCHANGED <<ledger, doc, acts, spentWith, plan, active, call>>
        /\ clock' \in 0..MaxClock
  BY RehearsalAssumption DEF Tick, rows, Inv, Types
<1>2. Recorded' = Recorded /\ Minted' = Minted /\ Bound' = Bound
  BY <1>1 DEF Recorded, Minted, Bound, Inserting
<1>3. Types'
  BY <1>1, <1>2 DEF Inv, Types
<1>4. CallsInv'
  BY <1>1, <1>2 DEF Inv, CallsInv, CallOK, Relies, Bears
<1>5. BindingInv' /\ EndInv'
  BY <1>1, <1>2 DEF Inv, BindingInv, EndInv, Bears
<1> QED BY <1>3, <1>4, <1>5

-----------------------------------------------------------------------------
LEMMA TruthKept ==
  ASSUME Witness, NEW c \in Calls, call'[c] # Idle, truth[c] \/ InForce(c)
  PROVE  truth'[c]
  BY DEF Witness

\* A plan once signed for stands or was withdrawn, so a reader that finds the
\* row issued and then the plan standing has seen both in force at its first
\* query.
LEMMA PlanInvStep ==
  ASSUME Inv, Next
  PROVE  PlanInv'
<1>0. Witness /\ Step /\ Minted \subseteq Ids
  BY DEF Next, Minted
<1>1. ASSUME NEW c \in Calls, NEW q \in CallRows, call' = [call EXCEPT ![c] = q],
             UNCHANGED <<doc, plan>>,
             q.step = "read" =>
               (q.row = "issued" /\ plan[q.plan] = "stands" => truth'[c]),
             q.step = "valid" => truth'[c]
      PROVE  PlanInv'
  <2>1. \A d \in Calls : call'[d] = IF d = c THEN q ELSE call[d]
    BY <1>1, BoundAfter
  <2>2. \A d \in Calls : call'[d].step \in {"read", "valid"} => call'[d] # Idle
    BY DEF Idle
  <2>3. \A i \in Minted' : plan'[doc'[i].plan] # "proposed"
    BY <1>1 DEF Inv, PlanInv, Minted
  <2>4. \A d \in Calls :
          /\ call'[d].step = "read" /\ call'[d].row = "issued"
               /\ plan[call'[d].plan] = "stands" => truth'[d]
          /\ call'[d].step = "valid" => truth'[d]
    <3> SUFFICES ASSUME NEW d \in Calls, d # c
                 PROVE
                   /\ call'[d].step = "read" /\ call'[d].row = "issued"
                        /\ plan[call'[d].plan] = "stands" => truth'[d]
                   /\ call'[d].step = "valid" => truth'[d]
      BY <1>1, <2>1
    <3>1. call'[d] = call[d]
      BY <2>1
    <3> QED BY <1>0, <2>2, <3>1, TruthKept DEF Inv, PlanInv
  <2> QED BY <1>1, <2>3, <2>4 DEF PlanInv
<1>2. ASSUME NEW c \in Calls,
             BeginIssue(c) \/ BeginConsume(c) \/ BeginAlone(c) \/ BeginStanding(c)
      PROVE  PlanInv'
  BY <1>1, <1>2, BeginsAreSessions DEF rows, world
<1>3. ASSUME NEW c \in Calls, ReplayIssue(c) \/ Abandon(c) \/ Commit(c)
      PROVE  PlanInv'
  <2>1. Idle \in CallRows /\ Idle.step = "idle"
    BY RehearsalAssumption DEF Idle, CallRows, Ops, Steps, States
  <2>2. call' = [call EXCEPT ![c] = Idle] /\ UNCHANGED <<doc, plan>>
    BY <1>3 DEF ReplayIssue, Abandon, Commit, Ends, rows, world
  <2> QED BY <1>1, <2>1, <2>2
<1>4. ASSUME NEW c \in Calls, LockPlan(c) \/ StageConsume(c) \/ StageAlone(c)
      PROVE  PlanInv'
  <2>1. PICK step \in {"locked", "staged"} : Goes(c, step) /\ UNCHANGED <<doc, plan>>
    BY <1>4 DEF LockPlan, StageConsume, StageAlone, rows, world
  <2> DEFINE q == [call[c] EXCEPT !.step = step]
  <2>2. q \in CallRows /\ q.step = step /\ call' = [call EXCEPT ![c] = q]
    BY <2>1 DEF Inv, Types, CallRows, Steps, Goes
  <2> QED BY <1>1, <2>1, <2>2
<1>5. ASSUME NEW c \in Calls, StageIssue(c)
      PROVE  PlanInv'
  <2>1. PICK i \in Ids \ Minted :
          /\ doc' = [doc EXCEPT ![i] =
               [plan |-> call[c].plan, command |-> call[c].command,
                evidence |-> call[c].evidence, issued |-> call[c].now,
                expires |-> Least(call[c].now + Ttl, call[c].evidence.at + Lifetime)]]
          /\ call' = [call EXCEPT ![c].id = i, ![c].step = "staged"]
    BY <1>5 DEF StageIssue
  <2>2. plan' = plan /\ plan[call[c].plan] = "stands"
    BY <1>5 DEF StageIssue, world
  <2>3. \A j \in Minted' : j = i \/ (j \in Minted /\ doc'[j] = doc[j])
    BY <2>1 DEF Inv, Types, Minted
  <2>4. doc'[i].plan = call[c].plan
    BY <2>1 DEF Inv, Types
  <2>5. \A d \in Calls : call'[d].step \in {"read", "valid"} =>
          call'[d] = call[d] /\ call'[d] # Idle
    BY <2>1 DEF Inv, Types, CallRows, Idle
  <2> QED BY <1>0, <2>2, <2>3, <2>4, <2>5, TruthKept DEF Inv, PlanInv
<1>6. ASSUME NEW c \in Calls, ReadRow(c)
      PROVE  PlanInv'
  <2> DEFINE q == [call[c] EXCEPT !.row = ledger[call[c].id], !.step = "read"]
  <2>1. call[c] \in CallRows /\ CallOK(call[c]) /\ call[c].op = "standing"
    BY <1>6 DEF Inv, Types, CallsInv, ReadRow
  <2>2. call[c].id \in References
    BY <2>1 DEF CallOK, Minted, References
  <2>3. q \in CallRows /\ q.step = "read" /\ q.row = ledger[call[c].id]
          /\ q.plan = call[c].plan
    BY <2>1, <2>2 DEF CallRows, Steps, Inv, Types
  <2>4. call' = [call EXCEPT ![c] = q] /\ UNCHANGED <<doc, plan>>
    BY <1>6 DEF ReadRow, rows, world, Inv, Types
  <2>5. q.row = "issued" /\ plan[q.plan] = "stands" => truth'[c]
    <3>1. call'[c] = q
      BY <2>4 DEF Inv, Types
    <3>2. call'[c] # Idle
      <4>1. Idle.step = "idle"
        BY DEF Idle
      <4> HIDE DEF q
      <4> QED BY <2>3, <3>1, <4>1
    <3> QED BY <1>0, <2>1, <2>3, <3>2, TruthKept DEF InForce
  <2> QED BY <1>1, <2>3, <2>4, <2>5
<1>7. ASSUME NEW c \in Calls, ReadTerms(c)
      PROVE  PlanInv'
  <2>1. CASE Ends(c)
    <3>1. Idle \in CallRows /\ Idle.step = "idle"
      BY RehearsalAssumption DEF Idle, CallRows, Ops, Steps, States
    <3>2. call' = [call EXCEPT ![c] = Idle] /\ UNCHANGED <<doc, plan>>
      BY <1>7, <2>1 DEF ReadTerms, Ends, rows, world
    <3> QED BY <1>1, <3>1, <3>2
  <2>2. CASE Goes(c, "valid") /\ call[c].row = "issued" /\ plan[call[c].plan] = "stands"
    <3> DEFINE q == [call[c] EXCEPT !.step = "valid"]
    <3>1. q \in CallRows /\ q.step = "valid" /\ call' = [call EXCEPT ![c] = q]
            /\ UNCHANGED <<doc, plan>>
      BY <1>7, <2>2 DEF ReadTerms, Goes, rows, world, Inv, Types, CallRows, Steps
    <3>2. truth[c]
      BY <1>7, <2>2 DEF ReadTerms, Inv, PlanInv
    <3>3. call'[c] # Idle
      <4>1. Idle.step = "idle" /\ call'[c] = q
        BY <3>1 DEF Idle, Inv, Types
      <4> HIDE DEF q
      <4> QED BY <3>1, <4>1
    <3> QED BY <1>0, <1>1, <3>1, <3>2, <3>3, TruthKept
  <2> QED BY <1>7, <2>1, <2>2 DEF ReadTerms
<1>8. ASSUME NEW t \in Targets, ChangeTarget(t)
      PROVE  PlanInv'
  <2>1. UNCHANGED <<doc, call>>
    BY <1>8 DEF ChangeTarget, rows
  <2>2. \A p \in Plans :
          /\ plan'[p] = "proposed" => plan[p] = "proposed"
          /\ plan'[p] = "stands" => plan[p] \in {"proposed", "stands"}
    BY <1>8 DEF ChangeTarget, Inv, Types
  <2>3. \A i \in Minted : doc[i].plan \in Plans /\ plan[doc[i].plan] # "proposed"
    BY DEF Inv, Types, PlanInv, Minted, Statements
  <2>4. \A c \in Calls : call[c].step \in {"read", "valid"} =>
          /\ call[c].plan \in Plans /\ plan[call[c].plan] # "proposed"
          /\ call[c] # Idle
    BY <2>3 DEF Inv, CallsInv, CallOK, Idle
  <2>5. \A i \in Minted' : plan'[doc'[i].plan] # "proposed"
    BY <2>1, <2>2, <2>3 DEF Minted
  <2> QED BY <1>0, <2>1, <2>2, <2>4, <2>5, TruthKept DEF Inv, PlanInv
<1>9. CASE Tick
  <2>1. UNCHANGED <<doc, plan, call>> /\ Minted' = Minted
    BY <1>9 DEF Tick, rows, Minted
  <2>2. \A c \in Calls : call[c].step \in {"read", "valid"} => call[c] # Idle
    BY DEF Idle
  <2> QED BY <1>0, <2>1, <2>2, TruthKept DEF Inv, PlanInv
<1> QED BY <1>0, <1>2, <1>3, <1>4, <1>5, <1>6, <1>7, <1>8, <1>9 DEF Step

-----------------------------------------------------------------------------
LEMMA InvStep == Inv /\ [Next]_vars => Inv'
<1> SUFFICES ASSUME Inv, [Next]_vars PROVE Inv'
  OBVIOUS
<1>1. CASE Next
  <2>1. truth' \in [Calls -> BOOLEAN]
    BY <1>1 DEF Next, Witness
  <2>2. ASSUME NEW c \in Calls,
               \/ BeginIssue(c) \/ BeginConsume(c) \/ BeginAlone(c) \/ BeginStanding(c)
               \/ ReplayIssue(c) \/ LockPlan(c) \/ Abandon(c)
               \/ ReadRow(c) \/ ReadTerms(c)
        PROVE  Types' /\ CallsInv' /\ BindingInv' /\ EndInv'
    <3>1. PICK q \in CallRows :
            /\ call' = [call EXCEPT ![c] = q] /\ UNCHANGED <<rows, world>>
            /\ CallOK(q) /\ q.step # "staged"
      BY <2>2, BeginsAreSessions, MovesAreSessions
    <3> QED BY <2>1, <3>1, SessionStep
  <2>3. Types' /\ CallsInv' /\ BindingInv' /\ EndInv'
    BY <1>1, <2>1, <2>2, StageIssueStep, StageEndStep, CommitStep, ChangeTargetStep,
       TickStep DEF Next, Step
  <2> QED BY <1>1, <2>3, PlanInvStep DEF Inv
<1>2. CASE UNCHANGED vars
  <2>1. UNCHANGED <<ledger, doc, acts, spentWith, plan, active, clock, call, truth>>
    BY <1>2 DEF vars, rows, world
  <2>2. Recorded' = Recorded /\ Minted' = Minted /\ Bound' = Bound
    BY <2>1 DEF Recorded, Minted, Bound, Inserting
  <2>3. Types' /\ BindingInv' /\ EndInv' /\ PlanInv'
    BY <2>1, <2>2 DEF Inv, Types, BindingInv, EndInv, PlanInv, Bears
  <2>4. CallsInv'
    BY <2>1, <2>2 DEF Inv, CallsInv, CallOK, Relies, Bears
  <2> QED BY <2>3, <2>4 DEF Inv
<1> QED BY <1>1, <1>2

\* The ledgers' inductive invariant.
THEOREM LedgerInvariant == Spec => []Inv
  BY Initially, InvStep, PTL DEF Spec

\* Every variable holds what the ledger, the plan or a session can hold.
THEOREM TypesHold == Spec => []TypeOK
<1>1. Inv => TypeOK
  BY DEF Inv, Types, CallsInv, CallOK, TypeOK, CallRows, Ops
<1>2. QED
  BY <1>1, LedgerInvariant, PTL

\* An authority ends at most once: of the commands that spend or revoke it, one
\* is told it did (stage_*_consumption, revoke_*).
THEOREM AuthorityEndsOnce == Spec => []EndedOnce
<1>1. Inv => EndedOnce
  BY DEF Inv, EndInv, EndedOnce
<1>2. QED
  BY <1>1, LedgerInvariant, PTL

\* The evidence that issued or spent an authorization never serves another act
\* (STALE_HARNESS_EVIDENCE and the unique lease and controller).
THEOREM OnePresentation == Spec => []OnePresentationOneUse
<1>1. ASSUME Inv
      PROVE  OnePresentationOneUse
  <2> SUFFICES ASSUME NEW i \in Recorded, NEW j \in Recorded
               PROVE  /\ spentWith[i] # None => spentWith[i] # doc[j].evidence
                      /\ i # j => /\ doc[i].evidence # doc[j].evidence
                                  /\ spentWith[i] # None =>
                                       spentWith[i] # spentWith[j]
    BY DEF OnePresentationOneUse
  <2>1. i \in Ids /\ j \in Ids /\ i \in Bound /\ j \in Bound
    BY DEF Recorded, Bound
  <2>2. i # j => doc[i].evidence.lease # doc[j].evidence.lease
    BY <1>1, <2>1 DEF Inv, BindingInv
  <2>3. \A k \in {i, j} : spentWith[k] # None =>
          /\ spentWith[k].lease = doc[k].evidence.lease
          /\ spentWith[k] # doc[k].evidence
    BY <1>1, <2>1 DEF Inv, BindingInv, Bears
  <2> QED BY <2>2, <2>3
<1>2. QED
  BY <1>1, LedgerInvariant, PTL

\* A reader that is told "valid" was told what was true at one instant of its
\* call (rehearsal_issuer_standing_for).
THEOREM ReadersAreRight == Spec => []ValidWasTrue
<1>1. Inv => ValidWasTrue
  BY DEF Inv, PlanInv, ValidWasTrue
<1>2. QED
  BY <1>1, LedgerInvariant, PTL

-----------------------------------------------------------------------------
\* Only a commit writes the ledger.
LEMMA LedgerWriters ==
  ASSUME Next
  PROVE  ledger' = ledger \/ \E c \in Calls : Commit(c)
BY DEF Next, Step, BeginIssue, StageIssue, ReplayIssue, BeginConsume, LockPlan,
       StageConsume, BeginAlone, StageAlone, Abandon, BeginStanding, ReadRow,
       ReadTerms, ChangeTarget, Tick, Begin, rows

\* What is spent is spent under a plan that stands on a target that is active
\* (stage_rehearsal_issuer_consumption derives its terms under the locks).
THEOREM SpentOnTerms == Spec => SpentOnStandingTerms
<1>1. ASSUME Inv, [Next]_vars, NEW i \in Ids,
             ledger'[i] = "spent", ledger[i] # "spent"
      PROVE  plan[doc[i].plan] = "stands" /\ active[TargetOf[doc[i].plan]]
  <2>1. PICK c \in Calls : Commit(c)
    <3>1. ledger' # ledger
      BY <1>1
    <3> QED BY <1>1, <3>1, LedgerWriters DEF vars, rows
  <2>2. call[c].step = "staged" /\ CallOK(call[c]) /\ Relies(call[c])
    BY <1>1, <2>1 DEF Commit, Inv, CallsInv
  <2>3. call[c].id = i
    BY <1>1, <2>1 DEF Commit, Inv, Types, References
  <2>4. call[c].op \notin {"issue", "revoke"}
    <3>1. ledger'[i] = CASE call[c].op = "issue" -> "issued"
                         [] call[c].op \in {"consume", "spend"} -> "spent"
                         [] call[c].op = "revoke" -> "revoked"
      BY <1>1, <2>1, <2>3 DEF Commit, Inv, Types, References
    <3> QED BY <1>1, <3>1
  <2>5. call[c].op # "spend"
    BY <2>2, <2>3, RehearsalAssumption DEF CallOK
  <2>6. call[c].op = "consume"
    BY <2>2, <2>4, <2>5 DEF CallOK, Ending
  <2> QED BY <2>2, <2>3, <2>6 DEF Relies, CallOK
<1>2. Inv /\ [Next]_vars =>
        [\A i \in Ids : ledger'[i] = "spent" /\ ledger[i] # "spent" =>
           /\ plan[doc[i].plan] = "stands"
           /\ active[TargetOf[doc[i].plan]]]_vars
  BY <1>1
<1>3. QED
  BY <1>2, LedgerInvariant, PTL DEF Spec, SpentOnStandingTerms

-----------------------------------------------------------------------------
\* A recorded statement is never written again.
LEMMA StatementsStay ==
  ASSUME Inv, Next, NEW i \in Recorded
  PROVE  doc'[i] = doc[i]
<1>1. CASE doc' = doc
  BY <1>1
<1>2. ASSUME NEW c \in Calls, StageIssue(c)
      PROVE  doc'[i] = doc[i]
  <2>1. PICK j \in Ids \ Minted :
          doc' = [doc EXCEPT ![j] =
            [plan |-> call[c].plan, command |-> call[c].command,
             evidence |-> call[c].evidence, issued |-> call[c].now,
             expires |-> Least(call[c].now + Ttl, call[c].evidence.at + Lifetime)]]
    BY <1>2 DEF StageIssue
  <2>2. i \in Minted
    BY DEF Inv, Types
  <2> QED BY <2>1, <2>2 DEF Inv, Types
<1>3. doc' = doc \/ \E c \in Calls : StageIssue(c)
  BY DEF Next, Step, BeginIssue, ReplayIssue, BeginConsume, LockPlan, StageConsume,
         BeginAlone, StageAlone, Commit, Abandon, BeginStanding, ReadRow, ReadTerms,
         ChangeTarget, Tick, Begin, rows
<1> QED BY <1>1, <1>2, <1>3

LEMMA HolderOfRecorded ==
  ASSUME Inv
  PROVE  \A i \in Recorded :
           /\ i \in References
           /\ holder[i] = [lease |-> doc[i].evidence.lease,
                           controller |-> doc[i].evidence.controller]
           /\ doc[i].evidence \in Evidence
BY DEF Inv, Types, holder, Recorded, Minted, References, Statements

\* A commit gives an authority or ends it.
LEMMA CommitImplements ==
  ASSUME Inv, Next, NEW c \in Calls, Commit(c)
  PROVE  Authority!AuthorityNext
<1> DEFINE i == call[c].id
           lease == doc[i].evidence.lease
           controller == doc[i].evidence.controller
<1>1. /\ CallOK(call[c]) /\ Relies(call[c]) /\ call[c].step = "staged"
      /\ call[c].op \in Ending \cup {"issue"}
      /\ UNCHANGED doc
  BY DEF Inv, CallsInv, Commit, CallOK
<1>2. i \in References
  BY <1>1 DEF CallOK, Relies, Ending, References, Minted
<1>3. ledger' = [ledger EXCEPT ![i] =
        IF call[c].op = "issue" THEN "issued"
        ELSE IF call[c].op = "revoke" THEN "revoked" ELSE "spent"]
  <2>1. CASE call[c].op = "issue"
    BY <2>1 DEF Commit
  <2>2. CASE call[c].op \in {"consume", "spend"}
    BY <2>2 DEF Commit
  <2>3. CASE call[c].op = "revoke"
    BY <2>3 DEF Commit
  <2> QED BY <1>1, <2>1, <2>2, <2>3 DEF Ending
<1>4. CASE call[c].op = "issue"
  <2>1. i \in Ids /\ doc[i] \in Statements /\ ledger[i] = "absent" /\ i \in Bound
    BY <1>1, <1>4 DEF Relies, Minted, Bound, Inserting, Inv, Types
  <2>2. lease \in Leases /\ controller \in Controllers
    BY <2>1, RehearsalAssumption DEF Statements
  <2>3. ledger' = [ledger EXCEPT ![i] = "issued"]
    BY <1>3, <1>4
  <2>4. Recorded' = Recorded \cup {i}
    BY <1>2, <2>1, <2>3 DEF Recorded, Inv, Types, References
  <2>5. holder' = [holder EXCEPT ![i] = [lease |-> lease, controller |-> controller]]
    BY <1>1, <1>2, <2>4 DEF holder
  <2>6. ASSUME NEW j \in Authority!Given, holder[j] # None
        PROVE  holder[j].lease # lease /\ holder[j].controller # controller
    <3>1. j \in Recorded /\ j # i
      BY <2>1, <2>6 DEF Authority!Given, holder, Recorded
    <3>2. doc[j].evidence.lease # lease /\ doc[j].evidence.controller # controller
      BY <2>1, <3>1 DEF Inv, BindingInv, Bound
    <3>3. holder[j] = [lease |-> doc[j].evidence.lease,
                       controller |-> doc[j].evidence.controller]
      BY <3>1, HolderOfRecorded
    <3>4. holder[j].lease = doc[j].evidence.lease
            /\ holder[j].controller = doc[j].evidence.controller
      BY <3>3
    <3> QED BY <3>2, <3>4
  <2>7. Authority!Give(i, lease, controller)
    BY <2>1, <2>3, <2>5, <2>6 DEF Authority!Give
  <2> QED BY <1>2, <2>2, <2>7 DEF Authority!AuthorityNext
<1>5. CASE call[c].op \in Ending
  <2>1. ledger[i] = "issued"
    BY <1>1, <1>5 DEF Relies
  <2>2. \E how \in {"spent", "revoked"} : ledger' = [ledger EXCEPT ![i] = how]
    BY <1>3, <1>5 DEF Ending
  <2>3. Recorded' = Recorded
    BY <1>2, <2>1, <2>2 DEF Recorded, Inv, Types, References
  <2>4. holder' = holder
    BY <1>1, <2>3 DEF holder
  <2> QED BY <1>2, <2>1, <2>2, <2>4 DEF Authority!AuthorityNext, Authority!End
<1> QED BY <1>1, <1>4, <1>5

\* Both ledgers keep the promise of a single-use authority: one lease and one
\* controller for each authorization, across all targets, and one end.
THEOREM LedgersKeepAuthority == Spec => KeepsAuthority
<1>1. ASSUME Init
      PROVE  Authority!AuthorityInit
  <2>1. Recorded = {}
    BY <1>1, RehearsalAssumption DEF Init, Recorded, References
  <2> QED BY <1>1, <2>1 DEF Init, Authority!AuthorityInit, holder
<1>2. ASSUME Inv, [Next]_vars
      PROVE  [Authority!AuthorityNext]_(Authority!authorityVars)
  <2>1. CASE Next
    <3>1. CASE \E c \in Calls : Commit(c)
      BY <1>2, <2>1, <3>1, CommitImplements
    <3>2. CASE ledger' = ledger
      <4>1. Recorded' = Recorded
        BY <3>2 DEF Recorded
      <4>2. \A i \in Recorded : doc'[i] = doc[i]
        BY <1>2, <2>1, StatementsStay
      <4>3. holder' = holder
        BY <4>1, <4>2 DEF holder
      <4> QED BY <3>2, <4>3 DEF Authority!authorityVars
    <3> QED BY <2>1, <3>1, <3>2, LedgerWriters
  <2>2. CASE UNCHANGED vars
    <3>1. ledger' = ledger /\ doc' = doc
      BY <2>2 DEF vars, rows
    <3>2. holder' = holder
      BY <3>1 DEF holder, Recorded
    <3> QED BY <3>1, <3>2 DEF Authority!authorityVars
  <2> QED BY <1>2, <2>1, <2>2
<1>3. QED
  BY <1>1, <1>2, LedgerInvariant, PTL DEF Spec, KeepsAuthority, Authority!AuthoritySpec
=============================================================================
