----------------------------- MODULE MCOperations -----------------------------
(***************************************************************************)
(* Small instances of releases and of the schema's revisions.              *)
(***************************************************************************)
EXTENDS Operations, TLC

CONSTANTS w1, w2, w3   \* commands that run beside a migration

MCWriters == {w1, w2, w3}
MCKeys == {"k1", "k2"}
MCControllerOf == ("k1" :> "c1") @@ ("k2" :> "c1")

LedgerKinds == {"issue", "end", "propose"}

\* Two leases of one controller key through dc_0014 .. dc_0016, two commands at once;
\* or one row of every other table, one command at a time.
MCMixes ==
  [ledger |-> [writer : {w1, w2}, kind : LedgerKinds, key : MCKeys],
   history |-> [writer : {w3}, kind : Schema!AllKinds \ LedgerKinds, key : {"k1"}]]

MCReleasesOnly == [m \in {} |-> {}]

Interchangeable ==
  Permutations(Releases) \cup Permutations(Verifications) \cup Permutations(Builds)
    \cup Permutations({w1, w2})
===============================================================================
