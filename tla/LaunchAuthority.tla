---------------------------- MODULE LaunchAuthority ----------------------------
(***************************************************************************)
(* What Deployment Control promises about launches, with nothing of how it *)
(* keeps the promise: a rollout is a line of attempts, numbered from 1,    *)
(* at most one of them open at a time; an attempt launches at most once    *)
(* and only while it is the open one; a rollout that is closed never       *)
(* opens or launches anything again.                                       *)
(***************************************************************************)
EXTENDS Naturals

CONSTANT Rollouts

VARIABLES
  live,       \* may the rollout still open attempts?
  number,     \* how many attempts it opened
  open,       \* is its last attempt still open?
  launched    \* the attempts of it that were launched

vars == <<live, number, open, launched>>

Init ==
  /\ live = [r \in Rollouts |-> TRUE]
  /\ number = [r \in Rollouts |-> 0]
  /\ open = [r \in Rollouts |-> FALSE]
  /\ launched = [r \in Rollouts |-> {}]

Open(r) ==
  /\ live[r] /\ ~open[r]
  /\ number' = [number EXCEPT ![r] = @ + 1]
  /\ open' = [open EXCEPT ![r] = TRUE]
  /\ UNCHANGED <<live, launched>>

Launch(r) ==
  /\ live[r] /\ open[r] /\ number[r] \notin launched[r]
  /\ launched' = [launched EXCEPT ![r] = @ \cup {number[r]}]
  /\ UNCHANGED <<live, number, open>>

\* The open attempt ends; the rollout may end with it.
Finish(r) ==
  /\ open[r]
  /\ open' = [open EXCEPT ![r] = FALSE]
  /\ \E l \in BOOLEAN : live' = [live EXCEPT ![r] = l /\ @]
  /\ UNCHANGED <<number, launched>>

\* The rollout is withdrawn, and its open attempt with it.
Withdraw(r) ==
  /\ live[r]
  /\ live' = [live EXCEPT ![r] = FALSE]
  /\ open' = [open EXCEPT ![r] = FALSE]
  /\ UNCHANGED <<number, launched>>

Next == \E r \in Rollouts : Open(r) \/ Launch(r) \/ Finish(r) \/ Withdraw(r)

Spec == Init /\ [][Next]_vars
=============================================================================
