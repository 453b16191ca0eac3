----------------------- MODULE MCHostAttesterEnrolment -----------------------
(***************************************************************************)
(* Two hosts, or a host and a release signer, and the keys they are given. *)
(***************************************************************************)
EXTENDS HostAttesterEnrolment, TLC

\* Hosts are alike, and so are keys.
Symmetric == Permutations(Hosts) \cup Permutations(Fingerprints)
=============================================================================
