---------------------------- MODULE MCOidcGrants ----------------------------
(* Small instances of OidcGrants for TLC. *)
EXTENDS OidcGrants, TLC

CONSTANTS a1, c1, i1, i2, k1, t1, t2, t3, x1, x2, r1, r2

OneAccount   == {a1}
OneClient    == {c1}
OneId        == {i1}
TwoIds       == {i1, i2}
NoCookie     == {}
OneCookie    == {k1}
TwoRefreshes   == {t1, t2}
ThreeRefreshes == {t1, t2, t3}
OneAccess    == {x1}
TwoAccesses  == {x1, x2}
TwoRequests  == {r1, r2}

(* Ids of one table and requests are interchangeable: they are only        *)
(* compared with one another.                                              *)
Symmetry ==
    Permutations(Refreshes) \cup Permutations(Accesses) \cup Permutations(Requests)
    \cup Permutations(AuthIds)
=============================================================================
