----------------------------- MODULE MCGateway -----------------------------
(* A small instance of Gateway for TLC. *)
EXTENDS Gateway, TLC

CONSTANTS t1, t2, k1, k2, p1, n1, c, paddedC, g, paddedG, x1, x2, r1, r2

TwoTenants == {t1, t2}
TwoKeys    == {k1, k2}
OnePrefix  == {p1}
SamePrefix == [k \in TwoKeys |-> p1]
OneName    == {n1}

(* A client and the configured one, written with and without padding. *)
Ids     == {c, paddedC, g, paddedG}
Trimmed == (c :> c) @@ (paddedC :> c) @@ (g :> g) @@ (paddedG :> g)

TwoSecrets  == {x1, x2}
OneRequest  == {r1}
TwoRequests == {r1, r2}
=============================================================================
