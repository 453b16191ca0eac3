---------------------------- MODULE AuthorityLedger ----------------------------
(***************************************************************************)
(* What Control promises of a single-use authority: it is given once, to   *)
(* one lease and one controller that never get another, and it ends once,  *)
(* spent or revoked.                                                       *)
(***************************************************************************)
CONSTANTS
  References,   \* the replay coordinates of the authorities
  Leases,
  Controllers,
  None          \* the holder of an authority that was not given

VARIABLES
  fate,         \* where each authority is in its life
  holder        \* the lease and the controller it was given to

authorityVars == <<fate, holder>>

Given == {r \in References : fate[r] # "absent"}

AuthorityInit ==
  /\ fate \in [References -> {"absent", "issued"}]
  /\ holder = [r \in References |-> None]

Give(r, l, k) ==
  /\ fate[r] = "absent"
  /\ \A other \in Given : holder[other] # None =>
       holder[other].lease # l /\ holder[other].controller # k
  /\ fate' = [fate EXCEPT ![r] = "issued"]
  /\ holder' = [holder EXCEPT ![r] = [lease |-> l, controller |-> k]]

End(r) ==
  /\ fate[r] = "issued"
  /\ \E how \in {"spent", "revoked"} : fate' = [fate EXCEPT ![r] = how]
  /\ UNCHANGED holder

AuthorityNext ==
  \E r \in References :
    \/ \E l \in Leases, k \in Controllers : Give(r, l, k)
    \/ End(r)

AuthoritySpec == AuthorityInit /\ [][AuthorityNext]_authorityVars
=============================================================================
