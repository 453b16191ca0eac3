-------------------------- MODULE EvidenceMigrations --------------------------
(***************************************************************************)
(* The revisions dc_0010 .. dc_0016 of the schema run up and down while    *)
(* commands keep writing.  A revision is one transaction: it locks tables, *)
(* looks at what they hold, changes the schema and commits.  A command is  *)
(* one transaction too, and writes one table after the other; a table it   *)
(* has touched cannot be locked exclusively before it ends, and one that   *)
(* is locked cannot be touched.                                            *)
(*                                                                         *)
(* Only rows that are evidence are kept, and of the plans only those that  *)
(* carry a purpose marker.  An attempt row here is one the code before     *)
(* dc_0010 settled in place.                                               *)
(***************************************************************************)
EXTENDS Naturals, Sequences, FiniteSets

CONSTANTS
  Writers,        \* commands that run at once
  Keys,           \* coordinates of rows: an attempt, a subject, a lease, ...
  ControllerOf    \* the controller key of the lease a ledger row is for

\* What an instance assumes.
KeysAssumption == IsFiniteSet(Keys) /\ DOMAIN ControllerOf = Keys

VARIABLES
  revision,       \* the committed revision of the schema
  stored,         \* committed rows of each table
  ended,          \* ledger rows that are spent or revoked
  marked,         \* ledger rows whose envelope names the authority class
  bound,          \* leases recorded while the key of a controller was unique
  mig,            \* the migration that runs, or Nothing
  txn             \* the command each writer runs, or Nothing

vars == <<revision, stored, ended, marked, bound, mig, txn>>

Nothing == [kind |-> "none"]

-------------------------------------------------------------------------------
(***************************************************************************)
(* The chain of revisions                                                  *)
(***************************************************************************)

Base == 9
Latest == 16

\* The table each evidence row lives in, with the revision that creates it.
CreatedBy ==
  [attempts |-> 1, plans |-> 1, settlements |-> 10,
   enrolments |-> 11, closures |-> 11, grants |-> 12,
   descriptors |-> 13, associations |-> 13, associationClosures |-> 13,
   policies |-> 13, policyClosures |-> 13, subjectLocks |-> 13,
   ledger |-> 14]

Tables == DOMAIN CreatedBy

HostTables ==
  <<"descriptors", "associations", "associationClosures", "policies",
    "policyClosures", "subjectLocks">>

\* What the step down to revision "to" is about, in the order of its statements.
DownTables(to) ==
  CASE to = 9  -> <<"settlements">>
    [] to = 10 -> <<"enrolments", "closures">>
    [] to = 11 -> <<"grants">>
    [] to = 12 -> HostTables
    [] to = 13 -> <<"ledger">>
    [] to = 14 -> <<"plans">>
    [] to = 15 -> <<"ledger">>

\* Faulty variant: a revision looks before it locks anything.
LockNothing(to) == <<>>

\* All of them are locked before the first is looked at.
DownLocks(to) == DownTables(to)

\* Faulty variant: the uniqueness of controller keys is dropped unseen.
DropUnseen(to) ==
  IF to = 15 THEN {} ELSE {DownTables(to)[i] : i \in DOMAIN DownTables(to)}

\* None of them may hold a row.  Of the plans only the marked ones count.
DownChecks(to) == {DownTables(to)[i] : i \in DOMAIN DownTables(to)}

\* What the step up to "to" locks: the attempts a new foreign key references, the
\* plans that get a column, the ledger that gets a unique constraint.
UpLocks(to) ==
  CASE to = 10 -> <<"attempts">>
    [] to = 15 -> <<"plans">>
    [] to = 16 -> <<"ledger">>
    [] OTHER -> <<>>

\* What the step up to "to" writes.
Copied(to) ==
  CASE to = 10 -> [stored EXCEPT !["settlements"] = stored["attempts"]]
    [] to = 13 -> [stored EXCEPT !["subjectLocks"] = stored["enrolments"]]
    [] OTHER -> stored

\* Two leases of one controller make the unique constraint fail.
Reused ==
  \E k, l \in stored["ledger"] : k # l /\ ControllerOf[k] = ControllerOf[l]

-------------------------------------------------------------------------------
(***************************************************************************)
(* Commands                                                                *)
(***************************************************************************)

\* The tables a command writes, in the order of its statements.  What the code of
\* a revision knows decides which commands it has.
Statements(kind) ==
  CASE kind = "settle in place" -> <<"attempts">>
    [] kind = "settle" -> <<"settlements">>
    [] kind = "enrol" -> <<"subjectLocks", "enrolments", "descriptors">>
    [] kind = "rotate root" ->
         <<"subjectLocks", "enrolments", "descriptors", "closures">>
    [] kind = "rotate host" -> <<"associations", "associationClosures">>
    [] kind = "revise policy" -> <<"policies", "policyClosures">>
    [] kind = "record grant" -> <<"grants">>
    [] kind = "issue" -> <<"plans", "ledger">>
    [] kind = "end" -> <<"ledger">>
    [] kind = "propose" -> <<"plans">>

AllKinds ==
  {"settle in place", "settle", "enrol", "rotate root", "rotate host",
   "revise policy", "record grant", "issue", "end", "propose"}

\* An issuance only locks its plan, and an ending only changes its row.
Inserts(kind, table) ==
  /\ ~(kind = "issue" /\ table = "plans")
  /\ kind # "end"

Locked(table) == mig # Nothing /\ table \in mig.held

Touched(table) == \E w \in Writers : txn[w] # Nothing /\ table \in txn[w].touched
Exists(table) == CreatedBy[table] <= revision

Init ==
  /\ revision = Base
  /\ stored = [t \in Tables |-> {}]
  /\ ended = {}
  /\ marked = {}
  /\ bound = {}
  /\ mig = Nothing
  /\ txn = [w \in Writers |-> Nothing]

\* Code of before dc_0010 settles in place; code that knows the purpose of a plan
\* proposes with a marker.
Serves(kind) ==
  CASE kind = "settle in place" -> revision < 10
    [] kind = "propose" -> revision >= 15
    [] OTHER -> \A i \in DOMAIN Statements(kind) : Exists(Statements(kind)[i])

\* A command begins with its first statement.  One of an earlier release does not
\* begin on a later revision: that release is stopped before the migration.
Begin(w) ==
  \E kind \in AllKinds, k \in Keys :
    LET first == Head(Statements(kind)) IN
    /\ txn[w] = Nothing
    /\ Serves(kind)
    /\ ~Locked(first)
    /\ kind = "end" =>
         /\ k \in stored["ledger"] \ ended
         /\ \A u \in Writers : txn[u] # Nothing => [kind |-> txn[u].kind, key |-> txn[u].key]
                                               # [kind |-> "end", key |-> k]
    /\ txn' = [txn EXCEPT ![w] =
         [kind |-> kind, key |-> k, rest |-> Tail(Statements(kind)),
          touched |-> {first}, since |-> revision]]
    /\ UNCHANGED <<revision, stored, ended, marked, bound, mig>>

\* Another command's row for the controller stands or is about to.
Collides(w) ==
  LET k == txn[w].key
      pending == {txn[u].key : u \in {v \in Writers \ {w} :
                    txn[v] # Nothing /\ txn[v].kind = "issue"
                      /\ "ledger" \in txn[v].touched}}
  IN \E l \in stored["ledger"] \cup pending :
       l = k \/ (revision = 16 /\ ControllerOf[l] = ControllerOf[k])

\* Its next statement.
Write(w) ==
  /\ txn[w] # Nothing
  /\ txn[w].rest # <<>>
  /\ LET table == Head(txn[w].rest) IN
       /\ ~Locked(table)
       /\ Exists(table)
       /\ txn[w].kind = "issue" /\ table = "ledger" => ~Collides(w)
       /\ txn' = [txn EXCEPT ![w].rest = Tail(@), ![w].touched = @ \cup {table}]
  /\ UNCHANGED <<revision, stored, ended, marked, bound, mig>>

Commit(w) ==
  /\ txn[w] # Nothing
  /\ txn[w].rest = <<>>
  /\ LET t == txn[w]
         rows == {x \in t.touched : Inserts(t.kind, x)} IN
       /\ stored' = [x \in Tables |->
            IF x \in rows THEN stored[x] \cup {t.key} ELSE stored[x]]
       /\ ended' = IF t.kind = "end" THEN ended \cup {t.key} ELSE ended
       /\ marked' = IF t.kind = "issue" /\ t.since >= 15
                      THEN marked \cup {t.key} ELSE marked
       /\ bound' = IF t.kind = "issue" /\ revision = 16
                     THEN bound \cup {t.key} ELSE bound
  /\ txn' = [txn EXCEPT ![w] = Nothing]
  /\ UNCHANGED <<revision, mig>>

\* A refusal, a statement on a table that is gone, a deadlock's victim, a crash.
Rollback(w) ==
  /\ txn[w] # Nothing
  /\ txn' = [txn EXCEPT ![w] = Nothing]
  /\ UNCHANGED <<revision, stored, ended, marked, bound, mig>>

-------------------------------------------------------------------------------
(***************************************************************************)
(* Migrations                                                              *)
(***************************************************************************)

Migrating(kind, to, locks) ==
  [kind |-> kind, to |-> to, rest |-> locks, held |-> {}, looked |-> FALSE]

BeginUpgrade ==
  /\ mig = Nothing
  /\ revision < Latest
  /\ mig' = Migrating("up", revision + 1, UpLocks(revision + 1))
  /\ UNCHANGED <<revision, stored, ended, marked, bound, txn>>

BeginDowngrade ==
  /\ mig = Nothing
  /\ revision > Base
  /\ mig' = Migrating("down", revision - 1, DownLocks(revision - 1))
  /\ UNCHANGED <<revision, stored, ended, marked, bound, txn>>

LockTable ==
  /\ mig # Nothing
  /\ mig.rest # <<>>
  /\ ~Touched(Head(mig.rest))
  /\ mig' = [mig EXCEPT !.rest = Tail(@), !.held = @ \cup {Head(mig.rest)}]
  /\ UNCHANGED <<revision, stored, ended, marked, bound, txn>>

\* Refuse, or go on to change the schema.
Look ==
  /\ mig # Nothing
  /\ mig.rest = <<>>
  /\ ~mig.looked
  /\ mig' = IF \/ mig.kind = "down" /\ \E x \in DownChecks(mig.to) : stored[x] # {}
               \/ mig.kind = "up" /\ mig.to = 16 /\ Reused
              THEN Nothing
              ELSE [mig EXCEPT !.looked = TRUE]
  /\ UNCHANGED <<revision, stored, ended, marked, bound, txn>>

\* The outstanding authorizations of the release before dc_0015 become terminal.
Upgrade ==
  /\ mig # Nothing
  /\ mig.kind = "up"
  /\ mig.looked
  /\ revision' = mig.to
  /\ stored' = Copied(mig.to)
  /\ ended' = IF mig.to = 15 THEN stored["ledger"] ELSE ended
  /\ bound' = IF mig.to = 16 THEN bound \cup stored["ledger"] ELSE bound
  /\ mig' = Nothing
  /\ UNCHANGED <<marked, txn>>

\* The tables the revision created are dropped with what they hold.
Downgrade ==
  /\ mig # Nothing
  /\ mig.kind = "down"
  /\ mig.looked
  /\ LET dropped == {x \in Tables : CreatedBy[x] = mig.to + 1} IN
       /\ \A x \in dropped : ~Touched(x)
       /\ stored' = [x \in Tables |-> IF x \in dropped THEN {} ELSE stored[x]]
       /\ ended' = IF "ledger" \in dropped THEN {} ELSE ended
  /\ revision' = mig.to
  /\ mig' = Nothing
  /\ UNCHANGED <<marked, bound, txn>>

Next ==
  \/ \E w \in Writers : Begin(w) \/ Write(w) \/ Commit(w) \/ Rollback(w)
  \/ BeginUpgrade \/ BeginDowngrade \/ LockTable \/ Look \/ Upgrade \/ Downgrade

Spec == Init /\ [][Next]_vars

-------------------------------------------------------------------------------
(***************************************************************************)
(* Properties                                                              *)
(***************************************************************************)

\* The type invariant: and a table that is not there holds nothing.
TypeOK ==
  /\ revision \in Base .. Latest
  /\ stored \in [Tables -> SUBSET Keys]
  /\ \A x \in Tables : ~Exists(x) => stored[x] = {}
  /\ ended \subseteq stored["ledger"]
  /\ mig = Nothing \/ (mig.to \in {revision - 1, revision + 1} /\ mig.held \subseteq Tables)
  /\ \A w \in Writers : txn[w] = Nothing \/ txn[w].kind \in AllKinds

\* No revision discards evidence that was committed, whatever commits between its
\* look at a table and the drop ("the check and drop must share an ACCESS
\* EXCLUSIVE lock").
EvidenceKept ==
  [][\A x \in Tables : stored[x] \subseteq stored'[x]]_vars

\* Every attempt the old code settled has its settlement once the table is there.
OutcomesCarried ==
  revision >= 10 => stored["attempts"] \subseteq stored["settlements"]

\* An authorization of the release without an authority class is terminal under
\* dc_0015 and after, the one that was being issued while it ran too.
LegacyIsTerminal ==
  revision >= 15 => stored["ledger"] \ marked \subseteq ended

\* A controller key a lease was recorded for while the constraint stood never gets
\* a second lease, down and up again.
ControllersKeepOneLease ==
  \A k \in bound, l \in stored["ledger"] :
    ControllerOf[k] = ControllerOf[l] => k = l

\* No plan with a purpose marker is left to code that cannot read it.
MarkedPlansAreRead == stored["plans"] # {} => revision >= 15
===============================================================================
