-------------------------- MODULE LockDisciplineProofs --------------------------
(***************************************************************************)
(* For every set of sessions and every fleet: rows are locked by one       *)
(* transaction at a time and in one order, so transactions never wait for  *)
(* one another in a circle.                                                *)
(***************************************************************************)
EXTENDS LockDiscipline, WellFoundedInduction, TLAPS

\* What every handler locks is a sequence of rows in ascending classes.
LEMMA PlainWorkUpward ==
  ASSUME NEW w \in PlainWork
  PROVE  w \in Seq(Rows) /\ w # <<>> /\ Upward(w)
<1>1. CASE \E t \in Targets : w = LocksOfHost(t)
  BY <1>1 DEF LocksOfHost, Upward, Row, Rows, Ids, Classes, TargetRow, HostRow
<1>2. CASE \E t \in Targets : w = LocksOfPolicy(t)
  BY <1>2 DEF LocksOfPolicy, Upward, Row, Rows, Ids, Classes, TargetRow, HostRow,
              PolicyRow
<1>3. CASE \E s \in Signers : w = LocksOfSubject(SignerRow, s)
  BY <1>3 DEF LocksOfSubject, Upward, Row, Rows, Ids, Classes, SignerRow
<1>4. CASE \E h \in Hosts : w = LocksOfSubject(AttesterRow, h)
  BY <1>4 DEF LocksOfSubject, Upward, Row, Rows, Ids, Classes, AttesterRow
<1>5. CASE \E x \in Credentials \X Rollouts \X Signers \X Hosts :
             w = LocksOfAdmission(x[1], x[2], x[3], x[4])
  <2>1. PICK c \in Credentials, r \in Rollouts, g \in Signers, h \in Hosts :
          w = LocksOfAdmission(c, r, g, h)
    BY <1>5
  <2>2. CredentialTarget[c] \in Ids /\ RolloutPlan[r] \in Ids
          /\ c \in Ids /\ r \in Ids /\ g \in Ids /\ h \in Ids
    BY ReferencesAssumption DEF Ids
  <2>3. w \in Seq(Rows) /\ w # <<>>
    BY <2>1, <2>2 DEF LocksOfAdmission, Row, Rows, Classes, TargetRow, CredentialRow,
       HostRow, PolicyRow, SignerRow, AttesterRow, PlanRow, RolloutRow
  <2>4. DOMAIN w = 1 .. 8 /\ \A i \in 1 .. 8 : w[i].class =
          IF i = 1 THEN 2 ELSE IF i = 2 THEN 3 ELSE IF i = 3 THEN 4 ELSE
          IF i = 4 THEN 5 ELSE IF i = 5 THEN 6 ELSE IF i = 6 THEN 7 ELSE
          IF i = 7 THEN 8 ELSE 9
    BY <2>1 DEF LocksOfAdmission, Row, TargetRow, CredentialRow,
       HostRow, PolicyRow, SignerRow, AttesterRow, PlanRow, RolloutRow
  <2>5. Upward(w)
    BY <2>4 DEF Upward
  <2> QED BY <2>3, <2>5
<1>6. CASE \E l \in Ledger : w = LocksOfSpending(l)
  BY <1>6, ReferencesAssumption DEF LocksOfSpending, Upward, Row, Rows, Ids, Classes,
     TargetRow, PlanRow, LedgerRow
<1>7. CASE \E l \in Ledger : w = LocksOfLedger(l)
  BY <1>7 DEF LocksOfLedger, Upward, Row, Rows, Ids, Classes, LedgerRow
<1> QED BY <1>1, <1>2, <1>3, <1>4, <1>5, <1>6, <1>7 DEF PlainWork

LEMMA KeyedWorkUpward ==
  ASSUME NEW w \in KeyedWork
  PROVE  w \in Seq(Rows) /\ Upward(w) /\ \A i \in DOMAIN w : w[i].class > KeyRow
<1>1. CASE \E t \in Targets : w = LocksOfTarget(t)
  BY <1>1 DEF LocksOfTarget, Upward, Row, Rows, Ids, Classes, KeyRow, TargetRow
<1>2. CASE \E c \in Credentials : w = LocksOfCredential(c)
  BY <1>2, ReferencesAssumption DEF LocksOfCredential, Upward, Row, Rows, Ids,
     Classes, KeyRow, TargetRow, CredentialRow
<1>3. CASE \E p \in Plans : w = LocksOfPlan(p)
  BY <1>3, ReferencesAssumption DEF LocksOfPlan, Upward, Row, Rows, Ids,
     Classes, KeyRow, TargetRow, PlanRow
<1>4. CASE \E r \in Rollouts : w = LocksOfDispatch(r)
  BY <1>4, ReferencesAssumption DEF LocksOfDispatch, Upward, Row, Rows, Ids,
     Classes, KeyRow, TargetRow, PlanRow, RolloutRow
<1>5. CASE \E r \in Rollouts : w = LocksOfSettlement(r)
  BY <1>5 DEF LocksOfSettlement, Upward, Row, Rows, Ids, Classes, KeyRow, RolloutRow
<1>6. CASE \E x \in Credentials \X Plans : w = LocksOfObservation(x[1], x[2])
  <2>1. PICK c \in Credentials, p \in Plans : w = LocksOfObservation(c, p)
    BY <1>6
  <2> QED BY <2>1, ReferencesAssumption DEF LocksOfObservation, Upward, Row, Rows,
             Ids, Classes, KeyRow, TargetRow, CredentialRow, PlanRow
<1> QED BY <1>1, <1>2, <1>3, <1>4, <1>5, <1>6 DEF KeyedWork

\* The key of process_once_platform comes before every row of the handler.
LEMMA WorkUpward ==
  ASSUME NEW w \in Work
  PROVE  w \in Seq(Rows) /\ Upward(w)
<1>1. CASE w \in PlainWork
  BY <1>1, PlainWorkUpward
<1>2. CASE \E x \in Commands \X KeyedWork : w = Once(x[1], x[2])
  <2>1. PICK k \in Commands, v \in KeyedWork : w = Once(k, v)
    BY <1>2
  <2>2. v \in Seq(Rows) /\ Upward(v) /\ \A i \in DOMAIN v : v[i].class > KeyRow
    BY KeyedWorkUpward
  <2>3. Row(KeyRow, k) \in Rows /\ Row(KeyRow, k).class = KeyRow
    BY DEF Row, Rows, Ids, Classes, KeyRow
  <2>4. w = <<Row(KeyRow, k)>> \o v
    BY <2>1 DEF Once
  <2>5. w \in Seq(Rows) /\ Len(w) = Len(v) + 1 /\ w[1] = Row(KeyRow, k)
          /\ \A i \in 2 .. Len(w) : w[i] = v[i - 1]
    BY <2>2, <2>3, <2>4
  <2>6. DOMAIN v = 1 .. Len(v) /\ DOMAIN w = 1 .. Len(w) /\ Len(v) \in Nat
          /\ \A i \in DOMAIN v : v[i] \in Rows
    BY <2>2, <2>5
  <2>7. ASSUME NEW i \in DOMAIN w, NEW j \in DOMAIN w, i < j
        PROVE  w[i].class < w[j].class
    <3>1. j \in 2 .. Len(w) /\ w[j] = v[j - 1] /\ j - 1 \in DOMAIN v
      BY <2>5, <2>6, <2>7
    <3>2. CASE i = 1
      BY <3>1, <3>2, <2>2, <2>3, <2>5 DEF KeyRow
    <3>3. CASE i # 1
      <4>1. i \in 2 .. Len(w) /\ w[i] = v[i - 1] /\ i - 1 \in DOMAIN v /\ i - 1 < j - 1
        BY <3>3, <2>5, <2>6, <2>7
      <4> QED BY <4>1, <3>1, <2>2 DEF Upward
    <3> QED BY <3>2, <3>3
  <2> QED BY <2>5, <2>7 DEF Upward
<1> QED BY <1>1, <1>2 DEF Work

-------------------------------------------------------------------------------

LEMMA InitTyped == Init => TypeOK /\ UpwardOnly
BY DEF Init, TypeOK, UpwardOnly, Upward

\* A step of one transaction leaves the others and keeps the order.
LEMMA BeginKeeps ==
  ASSUME TypeOK, UpwardOnly, NEW s \in Sessions, Begin(s)
  PROVE  TypeOK' /\ UpwardOnly'
<1>1. PICK w \in Work : todo' = [todo EXCEPT ![s] = w]
  BY DEF Begin
<1>2. w \in Seq(Rows) /\ Upward(w)
  BY WorkUpward
<1>3. held' = held /\ held[s] = {}
  BY DEF Begin, Running
<1>4. TypeOK'
  BY <1>1, <1>2, <1>3 DEF TypeOK
<1>5. ASSUME NEW u \in Sessions
      PROVE  /\ Upward(todo'[u])
             /\ \A r \in held'[u], i \in DOMAIN todo'[u] : r.class < todo'[u][i].class
  <2>1. CASE u = s
    BY <2>1, <1>1, <1>2, <1>3 DEF TypeOK
  <2>2. CASE u # s
    BY <2>2, <1>1, <1>3 DEF TypeOK, UpwardOnly
  <2> QED BY <2>1, <2>2
<1>6. UpwardOnly'
  BY <1>5 DEF UpwardOnly, Upward
<1> QED BY <1>4, <1>6

LEMMA AcquireKeeps ==
  ASSUME TypeOK, UpwardOnly, NEW s \in Sessions, Acquire(s)
  PROVE  TypeOK' /\ UpwardOnly'
<1> DEFINE first == Head(todo[s])
<1>1. todo[s] \in Seq(Rows) /\ todo[s] # <<>>
  BY DEF Acquire, TypeOK
<1>2. first = todo[s][1] /\ first \in Rows /\ 1 \in DOMAIN todo[s]
  BY <1>1
<1>3. PICK rest \in {Tail(todo[s]), <<>>} : todo' = [todo EXCEPT ![s] = rest]
  BY DEF Acquire
<1>4. rest \in Seq(Rows)
  <2>1. Tail(todo[s]) \in Seq(Rows)
    BY <1>1
  <2>2. <<>> \in Seq(Rows)
    OBVIOUS
  <2> QED BY <2>1, <2>2, <1>3
<1>5. ASSUME NEW i \in DOMAIN rest
      PROVE  i \in Nat /\ i + 1 \in DOMAIN todo[s] /\ 1 < i + 1
               /\ rest[i] = todo[s][i + 1]
  BY <1>1, <1>3, <1>5
<1>6. held' = [held EXCEPT ![s] = @ \cup {first}]
  BY DEF Acquire
<1>7. \A u \in Sessions \ {s} : first \notin held[u]
  BY DEF Acquire
<1>8. TypeOK'
  <2>1. todo' \in [Sessions -> Seq(Rows)]
    BY <1>3, <1>4 DEF TypeOK
  <2>2. held' \in [Sessions -> SUBSET Rows]
    BY <1>2, <1>6 DEF TypeOK
  <2>3. \A u \in Sessions : held'[u] = IF u = s THEN held[s] \cup {first} ELSE held[u]
    BY <1>6 DEF TypeOK
  <2>4. \A u, v \in Sessions : u # v => held'[u] \cap held'[v] = {}
    BY <2>3, <1>7 DEF TypeOK
  <2> QED BY <2>1, <2>2, <2>4 DEF TypeOK
<1>9. ASSUME NEW u \in Sessions
      PROVE  /\ Upward(todo'[u])
             /\ \A r \in held'[u], i \in DOMAIN todo'[u] : r.class < todo'[u][i].class
  <2>1. CASE u # s
    BY <2>1, <1>3, <1>6 DEF TypeOK, UpwardOnly
  <2>2. CASE u = s
    <3>1. todo'[u] = rest /\ held'[u] = held[s] \cup {first}
      BY <2>2, <1>3, <1>6 DEF TypeOK
    <3>2. Upward(todo[s]) /\ \A r \in held[s], i \in DOMAIN todo[s] :
                               r.class < todo[s][i].class
      BY DEF UpwardOnly
    <3>3. ASSUME NEW i \in DOMAIN rest, NEW j \in DOMAIN rest, i < j
          PROVE  rest[i].class < rest[j].class
      <4>1. i \in Nat /\ i + 1 \in DOMAIN todo[s] /\ rest[i] = todo[s][i + 1]
        BY <1>5
      <4>2. j \in Nat /\ j + 1 \in DOMAIN todo[s] /\ rest[j] = todo[s][j + 1]
        BY <1>5
      <4>3. i + 1 < j + 1
        BY <3>3, <4>1, <4>2
      <4> QED BY <3>2, <4>1, <4>2, <4>3 DEF Upward
    <3>4. ASSUME NEW r \in held[s] \cup {first}, NEW i \in DOMAIN rest
          PROVE  r.class < rest[i].class
      <4>1. i + 1 \in DOMAIN todo[s] /\ 1 < i + 1 /\ rest[i] = todo[s][i + 1]
        BY <1>5
      <4>2. CASE r \in held[s]
        BY <4>1, <4>2, <3>2
      <4>3. CASE r = first
        BY <4>1, <4>3, <3>2, <1>2 DEF Upward
      <4> QED BY <4>2, <4>3
    <3>5. Upward(rest)
      BY <3>3 DEF Upward
    <3> QED BY <3>1, <3>4, <3>5
  <2> QED BY <2>1, <2>2
<1>10. UpwardOnly'
  BY <1>9 DEF UpwardOnly, Upward
<1> QED BY <1>8, <1>10

LEMMA EndKeeps ==
  ASSUME TypeOK, UpwardOnly, NEW s \in Sessions, End(s)
  PROVE  TypeOK' /\ UpwardOnly'
<1>1. todo' = todo /\ held' = [held EXCEPT ![s] = {}]
  BY DEF End
<1>2. TypeOK'
  BY <1>1 DEF TypeOK
<1>3. \A u \in Sessions : held'[u] \subseteq held[u]
  BY <1>1 DEF TypeOK
<1>4. UpwardOnly'
  BY <1>1, <1>3 DEF UpwardOnly, Upward
<1> QED BY <1>2, <1>4

LEMMA StepKeeps == TypeOK /\ UpwardOnly /\ [Next]_vars => (TypeOK /\ UpwardOnly)'
<1> SUFFICES ASSUME TypeOK, UpwardOnly, [Next]_vars
             PROVE  TypeOK' /\ UpwardOnly'
  OBVIOUS
<1>1. CASE Next
  BY <1>1, BeginKeeps, AcquireKeeps, EndKeeps DEF Next
<1>2. CASE UNCHANGED vars
  BY <1>2 DEF vars, TypeOK, UpwardOnly, Upward
<1> QED BY <1>1, <1>2

\* A row is held by one transaction at a time, for every fleet and every number of
\* sessions (with_for_update in the _load_..._for_update helpers).
THEOREM RowsExclusive == Spec => []TypeOK
BY InitTyped, StepKeeps, PTL DEF Spec

\* Every transaction locks its rows upward in the one order, whichever commands
\* run (the "global consequence lock order" of the service).
THEOREM LocksUpward == Spec => []UpwardOnly
BY InitTyped, StepKeeps, PTL DEF Spec

-------------------------------------------------------------------------------

\* The class a transaction waits for is lower than what its holder waits for.
LEMMA WaitingAscends ==
  ASSUME TypeOK, UpwardOnly, NEW s \in Sessions, NEW u \in Sessions,
         WaitsFor(s, u), todo[u] # <<>>
  PROVE  Head(todo[s]).class < Head(todo[u]).class
<1>1. todo[u] \in Seq(Rows)
  BY DEF TypeOK
<1>2. 1 \in DOMAIN todo[u] /\ Head(todo[u]) = todo[u][1]
  BY <1>1
<1>3. Head(todo[s]) \in held[u]
  BY DEF WaitsFor
<1> QED BY <1>2, <1>3 DEF UpwardOnly

\* A set of sessions that all wait would hold one that waits for the highest class.
LEMMA NoCircle == TypeOK /\ UpwardOnly => NoCircularWait
<1> SUFFICES ASSUME TypeOK, UpwardOnly,
                    NEW Q \in (SUBSET Sessions) \ {{}},
                    \A s \in Q : \E u \in Q : WaitsFor(s, u)
             PROVE  FALSE
  BY DEF NoCircularWait
<1> DEFINE Height(s) == 10 - Head(todo[s]).class
           Heights == {Height(s) : s \in Q}
<1>1. \A s \in Q : todo[s] # <<>> /\ Head(todo[s]) \in Rows
  BY DEF WaitsFor, TypeOK
<1>2. \A s \in Q : Head(todo[s]).class \in 1 .. 10
  BY <1>1 DEF Rows, Classes
<1>3. Heights \subseteq Nat /\ Heights # {}
  BY <1>2
<1>4. \E x \in Heights : \A y \in Heights : ~ (<<y, x>> \in OpToRel(<, Nat))
  BY <1>3, NatLessThanWellFounded, WFMin
<1>5. PICK s \in Q : \A y \in Heights : ~ (<<y, Height(s)>> \in OpToRel(<, Nat))
  BY <1>4
<1>6. PICK u \in Q : WaitsFor(s, u)
  OBVIOUS
<1>7. Height(u) < Height(s)
  <2>1. s \in Sessions /\ u \in Sessions /\ todo[u] # <<>>
    BY <1>1
  <2>2. Head(todo[s]).class < Head(todo[u]).class
    BY <2>1, <1>6, WaitingAscends
  <2> QED BY <2>2, <1>2
<1>8. <<Height(u), Height(s)>> \in OpToRel(<, Nat)
  BY <1>3, <1>7 DEF OpToRel
<1> QED BY <1>5, <1>8

\* No set of transactions ever waits for one another in a circle, for every fleet
\* and every number of sessions: the service never meets a deadlock of its own.
THEOREM NoDeadlock == Spec => []NoCircularWait
BY InitTyped, StepKeeps, NoCircle, PTL DEF Spec
===============================================================================
