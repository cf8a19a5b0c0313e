----------------------------- MODULE MCLockout -----------------------------
(* Small instances of Lockout for TLC. *)
EXTENDS Lockout

CONSTANTS r1, r2, r3

TwoRequests   == {r1, r2}
ThreeRequests == {r1, r2, r3}
=============================================================================
