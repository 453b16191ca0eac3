---------------------------- MODULE MCHostAdmission ----------------------------
(***************************************************************************)
(* One target and one dispatch of it, in two corners of one instance: the  *)
(* fleet and the registry move around one caller, or two callers with      *)
(* different evidence meet over a fleet that moves little.                 *)
(***************************************************************************)
EXTENDS HostAdmission, TLC

CONSTANTS p1, p2, d1, c1, c2, h2, k1, k2, k3

VARIABLE corner

cornerVars == <<vars, corner>>

OneDispatch == (p1 :> d1) @@ (p2 :> d1)
Deadline == {p1}

\* The corners tell these two keys apart nowhere.
Alike == Permutations({k1, k2})

Within ==
  \/ /\ corner = "fleet"
     /\ calls[c2] = IdleCall /\ calls[c1].context.presentation # p2
     /\ lapsed = {}
  \/ /\ corner = "callers"
     /\ Len(hosts.rows) <= 1 /\ Len(policies.rows) <= 1
     /\ root[h2] = None /\ k3 \notin spent

CornerInit == corner \in {"fleet", "callers"} /\ Init
CornerNext == Next /\ UNCHANGED corner /\ Within'
CornerSpec == CornerInit /\ [][CornerNext]_cornerVars
=============================================================================
