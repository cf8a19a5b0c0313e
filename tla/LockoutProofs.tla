--------------------------- MODULE LockoutProofs ---------------------------
(***************************************************************************)
(* Proofs about Lockout: the counter and the lock agree, concurrency       *)
(* stretches the limit by a known amount only, and the janitor never lifts *)
(* a running lock, for any number of logons and any limit and durations.   *)
(***************************************************************************)
EXTENDS Lockout, FiniteSetTheorems, TLAPS

(* The numbers BoundedOvershoot speaks of are natural numbers.             *)
LEMMA Counting ==
    ASSUME NEW S, S \subseteq Requests
    PROVE  /\ IsFiniteSet(S)
           /\ Cardinality(S) \in Nat /\ Cardinality(Requests) \in Nat
           /\ Cardinality(S) <= Cardinality(Requests)
  BY RequestsAssumption, FS_Subset, FS_CardinalityType

(* A logon that leaves "compare" takes one from the sum.                   *)
LEMMA Leaves ==
    ASSUME TypeOK, NEW r \in Requests, NEW to \in {"idle", "clear"},
           Move(r, "compare", to)
    PROVE  Cardinality(PastTheGate') = Cardinality(PastTheGate) - 1
  <1>1. PastTheGate' = PastTheGate \ {r}
    BY DEF TypeOK, Move, PastTheGate
  <1>2. r \in PastTheGate
    BY DEF Move, PastTheGate
  <1>3. IsFiniteSet(PastTheGate)
    BY Counting DEF PastTheGate
  <1> QED
    BY <1>1, <1>2, <1>3, FS_RemoveElement

(* Whatever the logons do, those past the gate are at most all of them.    *)
LEMMA PastBounded ==
    /\ Cardinality(PastTheGate) \in Nat
    /\ Cardinality(PastTheGate') \in Nat
    /\ Cardinality(Requests) \in Nat
    /\ Cardinality(PastTheGate) <= Cardinality(Requests)
    /\ Cardinality(PastTheGate') <= Cardinality(Requests)
  <1>1. PastTheGate \subseteq Requests /\ PastTheGate' \subseteq Requests
    BY DEF PastTheGate
  <1> QED
    BY <1>1, Counting

(* A statement that deletes the row satisfies the invariant by itself.     *)
LEMMA DeletingRow ==
    ASSUME DeleteRow
    PROVE  LockFollowsCount' /\ BoundedOvershoot'
  BY PastBounded, LimitsAssumption
     DEF DeleteRow, LockFollowsCount, LiveLock, BoundedOvershoot

(* The ranges of TypeOK as the inequalities they stand for.                *)
LEMMA Ranges ==
    /\ AgeCap \in Nat /\ StaleAfter < AgeCap /\ LockFor < AgeCap
    /\ 0 \in 0 .. AgeCap /\ 0 \in 0 .. LockFor /\ LockFor \in 0 .. LockFor
    /\ \A n \in 0 .. LockFor : n > 0 => n - 1 \in 0 .. LockFor
    /\ \A n \in 0 .. AgeCap : n < AgeCap => n + 1 \in 0 .. AgeCap
  BY LimitsAssumption DEF AgeCap

LEMMA InitLInv == Init => LInv
  <1> SUFFICES ASSUME Init PROVE LInv
    OBVIOUS
  <1>1. TypeOK
    BY Ranges DEF Init, TypeOK
  <1>2. LockFollowsCount
    BY LimitsAssumption DEF Init, LockFollowsCount, LiveLock
  <1>3. BoundedOvershoot
    BY PastBounded, LimitsAssumption DEF Init, BoundedOvershoot
  <1> QED
    BY <1>1, <1>2, <1>3 DEF LInv

LEMMA NextTypeOK == TypeOK /\ [Next]_vars => TypeOK'
  <1> SUFFICES ASSUME TypeOK, [Next]_vars PROVE TypeOK'
    OBVIOUS
  <1> USE LimitsAssumption, Ranges DEF TypeOK, row
  <1>1. ASSUME NEW r \in Requests, Gate(r) PROVE TypeOK'
    BY <1>1 DEF Gate, Move
  <1>2. ASSUME NEW r \in Requests, ClearExpired(r) PROVE TypeOK'
    BY <1>2 DEF ClearExpired, Move, DeleteRow
  <1>3. ASSUME NEW r \in Requests, IncrementAndLock(r) PROVE TypeOK'
    BY <1>3 DEF IncrementAndLock, Move
  <1>4. ASSUME NEW r \in Requests, ClearOnSuccess(r) PROVE TypeOK'
    BY <1>4 DEF ClearOnSuccess, Move, DeleteRow
  <1>5. ASSUME NEW r \in Requests, GiveUp(r) PROVE TypeOK'
    BY <1>5 DEF GiveUp, Move
  <1>6. CASE ClearOnReset
    BY <1>6 DEF ClearOnReset, DeleteRow
  <1>7. CASE DeleteStale
    BY <1>7 DEF DeleteStale, DeleteRow
  <1>8. CASE Tick
    BY <1>8 DEF Tick
  <1>9. CASE UNCHANGED vars
    BY <1>9 DEF vars
  <1> QED
    BY <1>1, <1>2, <1>3, <1>4, <1>5, <1>6, <1>7, <1>8, <1>9 DEF Next, Logon

(* One step per statement: the deleting ones restart the sum, a failure    *)
(* moves one from the logons past the gate to the counter, and passing the *)
(* gate needs a counter below the limit.                                   *)
LEMMA NextLInv == LInv /\ [Next]_vars => LInv'
  <1> SUFFICES ASSUME LInv, [Next]_vars
               PROVE  LockFollowsCount' /\ BoundedOvershoot'
    BY NextTypeOK DEF LInv
  <1> USE LimitsAssumption
  <1>a. TypeOK /\ LockFollowsCount /\ BoundedOvershoot
    BY DEF LInv
  <1>b. count \in Nat /\ left \in Nat /\ age \in Nat
    BY <1>a DEF TypeOK, AgeCap
  <1>1. ASSUME NEW r \in Requests, Gate(r)
        PROVE  LockFollowsCount' /\ BoundedOvershoot'
    <2>1. LockFollowsCount'
      BY <1>1, <1>a DEF Gate, row, LockFollowsCount, LiveLock
    <2>2. CASE locked
      <3>1. PastTheGate' = PastTheGate
        BY <1>1, <2>2, <1>a DEF Gate, Move, PastTheGate, TypeOK
      <3> QED
        BY <1>1, <2>1, <3>1, <1>a DEF Gate, row, BoundedOvershoot
    <2>3. CASE ~ locked
      <3>1. count' = count /\ count <= Max - 1
        BY <1>1, <2>3, <1>a, <1>b DEF Gate, row, LockFollowsCount
      <3> QED
        BY <2>1, <3>1, <1>b, PastBounded DEF BoundedOvershoot
    <2> QED
      BY <2>2, <2>3
  <1>2. ASSUME NEW r \in Requests, ClearExpired(r)
        PROVE  LockFollowsCount' /\ BoundedOvershoot'
    BY <1>2, DeletingRow DEF ClearExpired
  <1>3. ASSUME NEW r \in Requests, IncrementAndLock(r)
        PROVE  LockFollowsCount' /\ BoundedOvershoot'
    <2>1. LockFollowsCount'
      <3>1. locked' <=> locked \/ count' >= Max
        BY <1>3, <1>a DEF IncrementAndLock, TypeOK
      <3>2. count' = count + 1 /\ age' = 0
        BY <1>3 DEF IncrementAndLock
      <3>3. locked' <=> count' >= Max
        BY <3>1, <3>2, <1>a, <1>b DEF LockFollowsCount
      <3>4. locked' => age' + left' = LockFor
        BY <1>3, <3>2, <3>3 DEF IncrementAndLock
      <3> QED
        BY <3>3, <3>4 DEF LockFollowsCount, LiveLock
    <2>2. Cardinality(PastTheGate') = Cardinality(PastTheGate) - 1
      BY <1>3, <1>a, Leaves DEF IncrementAndLock
    <2>3. count' = count + 1
      BY <1>3 DEF IncrementAndLock
    <2>4. BoundedOvershoot'
      BY <2>2, <2>3, <1>a, <1>b, PastBounded DEF BoundedOvershoot
    <2> QED
      BY <2>1, <2>4
  <1>4. ASSUME NEW r \in Requests, ClearOnSuccess(r)
        PROVE  LockFollowsCount' /\ BoundedOvershoot'
    BY <1>4, DeletingRow DEF ClearOnSuccess
  <1>5. ASSUME NEW r \in Requests, GiveUp(r)
        PROVE  LockFollowsCount' /\ BoundedOvershoot'
    <2>1. PastTheGate' \subseteq PastTheGate
      BY <1>5, <1>a DEF GiveUp, Move, PastTheGate, TypeOK
    <2>2. Cardinality(PastTheGate') <= Cardinality(PastTheGate)
      BY <2>1, Counting, FS_Subset DEF PastTheGate
    <2> QED
      BY <1>5, <2>2, <1>a, <1>b, PastBounded
         DEF GiveUp, row, LockFollowsCount, LiveLock, BoundedOvershoot
  <1>6. CASE ClearOnReset
    BY <1>6, DeletingRow DEF ClearOnReset
  <1>7. CASE DeleteStale
    BY <1>7, DeletingRow DEF DeleteStale
  <1>8. CASE Tick
    <2>1. LockFollowsCount'
      BY <1>8, <1>a, <1>b DEF Tick, LockFollowsCount, LiveLock
    <2>2. BoundedOvershoot'
      BY <1>8, <1>a DEF Tick, BoundedOvershoot, PastTheGate
    <2> QED
      BY <2>1, <2>2
  <1>9. CASE UNCHANGED vars
    BY <1>9, <1>a
       DEF vars, row, LockFollowsCount, LiveLock, BoundedOvershoot, PastTheGate
  <1> QED
    BY <1>1, <1>2, <1>3, <1>4, <1>5, <1>6, <1>7, <1>8, <1>9 DEF Next, Logon
-----------------------------------------------------------------------------
(* LInv holds in every state of every execution: the lock and the counter  *)
(* of failed_attempts agree however logons, resets and sweeps interleave.  *)
THEOREM LockoutInvariant == Spec => []LInv
  BY InitLInv, NextLInv, PTL DEF Spec

(* At most Max - 1 failures and one per logon in flight are counted        *)
(* between two clears of the row.                                          *)
THEOREM Overshoot == Spec => []BoundedOvershoot
  <1>1. LInv => BoundedOvershoot
    BY DEF LInv
  <1> QED
    BY <1>1, LockoutInvariant, PTL

(* With locks no longer than the janitor's day, DeleteStale deletes no     *)
(* lock that still runs, although it never looks at locked_until.          *)
THEOREM SweepSpares ==
    ASSUME LockFor <= StaleAfter
    PROVE  Spec => SweepSparesLocks
  <1>1. LInv => (DeleteStale => ~ LiveLock)
    BY LimitsAssumption
       DEF LInv, TypeOK, AgeCap, LockFollowsCount, LiveLock, DeleteStale
  <1>2. LInv /\ [Next]_vars => [DeleteStale => ~ LiveLock]_vars
    BY <1>1
  <1> QED
    BY <1>2, LockoutInvariant, PTL DEF Spec, SweepSparesLocks
=============================================================================
