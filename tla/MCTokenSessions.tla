-------------------------- MODULE MCTokenSessions --------------------------
(* Small instances of TokenSessions for TLC. *)
EXTENDS TokenSessions, TLC

CONSTANTS t1, t2, e1, c1, c2, p1, p2, p3, r1, r2

OneTenant  == {t1}
TwoTenants == {t1, t2}
OneEmail   == {e1}
OneClient  == {c1}
TwoClients == {c1, c2}
OneAccount == {[tenant |-> t1, email |-> e1]}
TwoPairs   == {p1, p2}
ThreePairs == {p1, p2, p3}
TwoRequests == {r1, r2}

Interchangeable ==
    Permutations(Clients) \cup Permutations(Pairs) \cup Permutations(Requests)
=============================================================================
