--------------------------- MODULE MCRehearsalLedger ---------------------------
(***************************************************************************)
(* Three corners of one instance: the life of the authorities of one       *)
(* target, two targets whose issuances meet over one controller at one     *)
(* instant, and a rehearsal grant.                                         *)
(***************************************************************************)
EXTENDS RehearsalLedger, TLC

CONSTANTS p1, p2, t1, t2, l1, l2, k1, m2, g1

VARIABLE corner

cornerVars == <<vars, corner>>

PlanTarget == (p1 :> t1) @@ (p2 :> t2)

Signed(l, k, t, at) == [lease |-> l, controller |-> k, target |-> t, at |-> at]

\* One lease of one target, presented twice, and the same controller for a second
\* lease on a second target.
Presented == {Signed(l1, k1, t1, 0), Signed(l1, k1, t1, 1), Signed(l2, k1, t2, 0)}

Within ==
  \/ /\ corner = "life"
     /\ plan[p2] = "proposed" /\ active[t2]
     /\ \A c \in Calls :
          /\ call[c].plan # p2 /\ call[c].command # m2
          /\ call[c].evidence # Signed(l2, k1, t2, 0)
          /\ call[c].id # g1
  \/ /\ corner = "bindings"
     /\ clock = 0
     /\ \A c \in Calls : call[c].id # g1
  \/ /\ corner = "grant"
     /\ plan = [p \in Plans |-> "proposed"]
     /\ \A c \in Calls : call[c].id \in {g1, None}

CornerInit == corner \in {"life", "bindings", "grant"} /\ Init
CornerNext == Next /\ UNCHANGED corner /\ Within'
CornerSpec == CornerInit /\ [][CornerNext]_cornerVars

Alike == Permutations(Calls) \cup Permutations(Ids)
=============================================================================
