------------------------- MODULE MCObservationAdmission -------------------------
(***************************************************************************)
(* One target and its reports, in two corners of one instance: reports of  *)
(* two rollouts whose order matters to each other, or two calls of one     *)
(* rollout that wait while the clock moves and their authority ends.       *)
(***************************************************************************)
EXTENDS ObservationAdmission

Genuine(t, id, sequence, attempt, outcome) ==
  [id |-> id, key |-> "k1", proof |-> "valid", target |-> t,
   authorization |-> <<t, sequence>>, sequence |-> sequence, attempt |-> attempt,
   content |-> "spec", outcome |-> outcome, observedAt |-> 0, terms |-> "agree"]

\* Successive attempts, two accounts of one attempt, and a report id used twice.
Ordered ==
  {Genuine("t1", "a", 1, 1, "succeeded"), Genuine("t1", "b", 1, 2, "failed"),
   Genuine("t1", "b", 1, 2, "succeeded"),
   Genuine("t1", "d", 1, 2, "succeeded"), Genuine("t1", "c", 2, 1, "succeeded")}

\* A report that claims another target than the one its credential proves, and
\* one that its credential does not prove.
Misaddressed == [Genuine("t1", "g", 1, 1, "succeeded") EXCEPT !.target = "t2"]
Unsigned == [Genuine("t1", "c", 2, 1, "succeeded") EXCEPT !.proof = "invalid"]

\* A good report, and reports that are refused for what they claim or when.
Timed ==
  {Genuine("t1", "a", 1, 1, "succeeded"),
   [Genuine("t1", "d", 1, 1, "succeeded") EXCEPT !.terms = "operation_mismatch"],
   [Genuine("t1", "e", 1, 1, "failed") EXCEPT !.observedAt = 1]}

OrderReports == Ordered \cup {Misaddressed, Unsigned}
MCReports == OrderReports \cup Timed

-----------------------------------------------------------------------------
VARIABLE corner

cornerVars == <<vars, corner>>

Arriving == {o.report : o \in observing}
Expiries == {rollouts[a].expiresAt : a \in {b \in RolloutNames : Requested(b)}}

Within ==
  \/ /\ corner = "order"
     /\ now = 0 /\ Expiries \subseteq {1} /\ revoking = {}
     /\ Arriving \subseteq OrderReports /\ Cardinality(observing) <= 1
     /\ \A c \in closing : c.command # "retire"
  \/ /\ corner = "authority"
     /\ Expiries \subseteq {2}
     /\ Arriving \subseteq Timed
     /\ Cardinality(observing) + Cardinality(arrivals) <= 2
     /\ \A a \in RolloutNames : Requested(a) => a[2] = 1 /\ rollouts[a].attempts <= 1

CornerInit == corner \in {"order", "authority"} /\ Init
CornerNext == Next /\ UNCHANGED corner /\ Within'
CornerSpec == CornerInit /\ [][CornerNext]_cornerVars
=============================================================================
