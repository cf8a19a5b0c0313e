------------------------------ MODULE Lockout ------------------------------
(***************************************************************************)
(* The lockout of one account: its failed_attempts row, shared by password *)
(* and code logons, password resets and the janitor.                       *)
(*                                                                         *)
(* A logon reads the row, may forget an expired lock, then compares the    *)
(* secret and either counts a failure or clears the row; each of the three *)
(* is a statement of its own, so the logons of one account interleave.     *)
(* Time is relative: how long the lock still runs and how long ago the row *)
(* was modified.                                                           *)
(***************************************************************************)
EXTENDS Naturals, FiniteSets

CONSTANTS
    Requests,     \* logons in flight at the same time
    Max,          \* MAX_FAILED_ATTEMPTS
    LockFor,      \* LOCKOUT_DURATION_IN_SEC
    StaleAfter    \* the janitor's 24 hours

ASSUME RequestsAssumption == IsFiniteSet(Requests)
ASSUME LimitsAssumption ==
    Max \in Nat \ {0} /\ LockFor \in Nat /\ StaleAfter \in Nat

VARIABLES
    count,        \* 0 without a row
    locked,       \* locked_until is not NULL
    left,         \* how long locked_until is still ahead
    age,          \* how long ago the row was modified
    pc            \* where each logon stands

row  == <<count, locked, left, age>>
vars == <<row, pc>>

(* Bound: an age beyond this one makes no difference to any statement.     *)
AgeCap == LockFor + StaleAfter + 1

TypeOK ==
    /\ count \in Nat
    /\ locked \in BOOLEAN
    /\ left \in 0 .. LockFor
    /\ age \in 0 .. AgeCap
    /\ pc \in [Requests -> {"idle", "clear", "compare"}]

Init ==
    /\ count = 0
    /\ locked = FALSE
    /\ left = 0
    /\ age = 0
    /\ pc = [r \in Requests |-> "idle"]

LiveLock == locked /\ left > 0

Move(r, from, to) ==
    /\ pc[r] = from
    /\ pc' = [pc EXCEPT ![r] = to]

DeleteRow ==
    /\ count' = 0
    /\ locked' = FALSE
    /\ left' = 0
    /\ age' = 0

-----------------------------------------------------------------------------
(* checkLockout: a live lock refuses the logon and changes nothing; no row *)
(* or no lock lets it pass; an expired lock is to be cleared first.        *)

GateOpen(r) ==
    /\ Move(r, "idle", IF locked /\ left = 0 THEN "clear" ELSE "compare")
    /\ UNCHANGED row

Gate(r) ==
    /\ ~ LiveLock
    /\ Move(r, "idle", IF locked THEN "clear" ELSE "compare")
    /\ UNCHANGED row

(* The DELETE names the account, not the lock that was read as expired.    *)
ClearExpired(r) ==
    /\ Move(r, "clear", "compare")
    /\ DeleteRow

IncrementLocksLate(r) ==
    /\ Move(r, "compare", "idle")
    /\ count' = count + 1
    /\ locked' = (locked \/ count' > Max)
    /\ left' = IF count' > Max THEN LockFor ELSE left
    /\ age' = 0

IncrementKeepsModified(r) ==
    /\ Move(r, "compare", "idle")
    /\ count' = count + 1
    /\ locked' = (locked \/ count' >= Max)
    /\ left' = IF count' >= Max THEN LockFor ELSE left
    /\ UNCHANGED age

(* The secret was wrong.  One upsert increments, locks when the limit is   *)
(* reached, and restarts a lock that is already there.                     *)
IncrementAndLock(r) ==
    /\ Move(r, "compare", "idle")
    /\ count' = count + 1
    /\ locked' = (locked \/ count' >= Max)
    /\ left' = IF count' >= Max THEN LockFor ELSE left
    /\ age' = 0

(* The secret was right: whatever was counted meanwhile is forgotten.      *)
ClearOnSuccess(r) ==
    /\ Move(r, "compare", "idle")
    /\ DeleteRow

(* The account gate refuses (unknown, deleted, disabled, unverified), no   *)
(* code is outstanding, a statement fails, or the request dies.            *)
GiveUp(r) ==
    /\ pc[r] # "idle"
    /\ Move(r, pc[r], "idle")
    /\ UNCHANGED row

(* The commit of a password reset clears the row too.                      *)
ClearOnReset ==
    /\ count > 0
    /\ DeleteRow
    /\ UNCHANGED pc

DeleteStaleUnlocked ==
    /\ count > 0 /\ age > StaleAfter /\ ~ locked
    /\ DeleteRow
    /\ UNCHANGED pc

DeleteStale ==
    /\ count > 0 /\ age > StaleAfter
    /\ DeleteRow
    /\ UNCHANGED pc

Tick ==
    /\ count > 0 /\ age < AgeCap
    /\ left' = IF left > 0 THEN left - 1 ELSE 0
    /\ age' = age + 1
    /\ UNCHANGED <<count, locked, pc>>

Logon(r) ==
    \/ Gate(r)
    \/ ClearExpired(r)
    \/ IncrementAndLock(r)
    \/ ClearOnSuccess(r)
    \/ GiveUp(r)

Next ==
    \/ \E r \in Requests : Logon(r)
    \/ ClearOnReset
    \/ DeleteStale
    \/ Tick

Spec == Init /\ [][Next]_vars

(* Time passes and the janitor's ticker fires.  Nothing is assumed of the  *)
(* logons: they may keep coming, fail for ever, or stop.                   *)
FairSpec == Spec /\ WF_vars(Tick) /\ WF_vars(DeleteStale)
-----------------------------------------------------------------------------
PastTheGate == {r \in Requests : pc[r] = "compare"}

(* The counter and the lock agree whatever the interleaving: the row is    *)
(* locked exactly when the limit was reached, and the lock runs from the   *)
(* last failure that was counted.                                          *)
LockFollowsCount ==
    /\ locked <=> count >= Max
    /\ LiveLock => age + left = LockFor

(* How much concurrency can stretch the limit: the failures counted        *)
(* between two clears are at most Max - 1 and one per logon in flight, and *)
(* the logons already past the gate are part of that sum.                  *)
BoundedOvershoot ==
    count + Cardinality(PastTheGate) <= Max - 1 + Cardinality(Requests)

LInv == TypeOK /\ LockFollowsCount /\ BoundedOvershoot

(* The janitor deletes failed-attempt rows untouched for a day without     *)
(* looking at locked_until; with locks no longer than that it never lifts  *)
(* a lock that still runs.                                                 *)
SweepSparesLocks == [][DeleteStale => ~ LiveLock]_vars

(* Logons under way may restart a lock, but no stream of refused ones      *)
(* keeps an account locked: every lock ends.                               *)
LockRunsOut == locked ~> ~ locked

(* README, "Lockout": Max failures lock the account for the lockout        *)
(* duration, and a successful logon or a reset clears the counter; so      *)
(* nothing else lifts a lock that still runs.                              *)
LockHolds ==
    [][LiveLock /\ ~ locked' =>
          \/ \E r \in Requests : pc[r] = "compare" /\ ClearOnSuccess(r)
          \/ ClearOnReset]_vars
=============================================================================
