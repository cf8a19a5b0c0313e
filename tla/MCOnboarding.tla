---------------------------- MODULE MCOnboarding ----------------------------
(* Small instances of Onboarding for TLC. *)
EXTENDS Onboarding, TLC

CONSTANTS t1, t2, e1, e2, s1, s2, r1, r2, r3

OneTenant  == {t1}
TwoTenants == {t1, t2}
OneEmail   == {e1}
TwoEmails  == {e1, e2}
OneSubject  == {s1}
TwoSubjects == {s1, s2}
TwoRequests   == {r1, r2}
ThreeRequests == {r1, r2, r3}

Asserted(s, e, v) == [subject |-> s, email |-> e, verified |-> v]

OnePerson == {Asserted(s1, e1, TRUE)}

(* s1 has changed its email from e1 to e2, e1 was given to s2, and s2 claims *)
(* e2 without having shown it.                                               *)
TwoPeople == {Asserted(s1, e1, TRUE), Asserted(s1, e2, TRUE),
              Asserted(s2, e1, TRUE), Asserted(s2, e2, FALSE)}

Symmetry == Permutations(Requests)
=============================================================================
