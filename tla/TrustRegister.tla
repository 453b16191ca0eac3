----------------------------- MODULE TrustRegister -----------------------------
(***************************************************************************)
(* What Control promises about trust roots, whatever keeps them: a subject *)
(* has one root or none, and a key is a root once, of one subject.         *)
(***************************************************************************)
CONSTANTS
  Subjects,   \* what may have a root: a host, a release signer
  Keys,       \* the keys that may become roots
  None        \* no root

VARIABLES
  root,       \* the standing root of each subject
  spent       \* the keys that have been a root

registerVars == <<root, spent>>

RegisterInit ==
  /\ root = [s \in Subjects |-> None]
  /\ spent = {}

\* A subject gets a root nobody ever had.
Install(s, k) ==
  /\ root[s] = None
  /\ k \notin spent
  /\ root' = [root EXCEPT ![s] = k]
  /\ spent' = spent \cup {k}

\* Its root is replaced by one nobody ever had.
Replace(s, k) ==
  /\ root[s] # None
  /\ k \notin spent
  /\ root' = [root EXCEPT ![s] = k]
  /\ spent' = spent \cup {k}

\* Its root is withdrawn, for good.
Withdraw(s) ==
  /\ root[s] # None
  /\ root' = [root EXCEPT ![s] = None]
  /\ UNCHANGED spent

RegisterNext ==
  \E s \in Subjects :
    \/ \E k \in Keys : Install(s, k) \/ Replace(s, k)
    \/ Withdraw(s)

RegisterSpec == RegisterInit /\ [][RegisterNext]_registerVars
=============================================================================
