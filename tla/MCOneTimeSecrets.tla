-------------------------- MODULE MCOneTimeSecrets --------------------------
(* Small instances of OneTimeSecrets for TLC. *)
EXTENDS OneTimeSecrets, TLC

CONSTANTS s1, s2, s3, s4, r1, r2, r3

ThreeSecrets  == {s1, s2, s3}
FourSecrets   == {s1, s2, s3, s4}
TwoRequests   == {r1, r2}
ThreeRequests == {r1, r2, r3}

(* Secrets, and requests, are only compared with one another. *)
Symmetry == Permutations(Secrets) \cup Permutations(Requests)
=============================================================================
