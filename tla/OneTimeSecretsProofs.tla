------------------------ MODULE OneTimeSecretsProofs ------------------------
(***************************************************************************)
(* Proofs about OneTimeSecrets, for every number of secrets and of         *)
(* requests.  The argument: what is stored is fresh, so a secret that is   *)
(* no longer stored is dead for good; a use that completes leaves its      *)
(* secret dead, also if the row it deletes is another one by then; so      *)
(* after the first acceptance the users of a secret only become fewer.     *)
(***************************************************************************)
EXTENDS OneTimeSecrets, FiniteSetTheorems, TLAPS

(* The initial state satisfies the invariant.                              *)
LEMMA InitInv == Init => SInv
<1> SUFFICES ASSUME Init PROVE SInv
  OBVIOUS
<1>1. TypeOK /\ JobsFit /\ Locks /\ SpentAreDead
  BY NoneAssumption DEF Init, TypeOK, JobsFit, Locks, SpentAreDead, Dead, Kinds, Steps, Job,
     NoJob, Using
<1>2. \A s \in Secrets : Users(s) = {}
  BY DEF Init, Users, Using
<1>3. Cardinality({}) = 0 /\ Cardinality(Requests) \in Nat
  BY FiniteAssumption, FS_EmptySet, FS_CardinalityType
<1>4. UsesCounted
  BY <1>2, <1>3 DEF UsesCounted, Init
<1> QED BY <1>1, <1>4 DEF SInv

-----------------------------------------------------------------------------
(* What a step can do to the stored secrets: leave one, remove one, or     *)
(* store a fresh one.                                                      *)
Stores ==
    /\ drawn \subseteq drawn'
    /\ \/ \A k \in Kinds : place'[k] \in {place[k], None}
       \/ \E k \in Kinds :
             /\ place'[k] \in Secrets \ drawn /\ place'[k] \in drawn'
             /\ \A l \in Kinds \ {k} : place'[l] = place[l]

(* What a step can do to a request that uses a secret after it: leave it   *)
(* be, begin the use of a stored secret, or take the next step of the use. *)
Keeps(r) == pc'[r] = pc[r] /\ job'[r] = job[r]

Begins(r, k) ==
    /\ pc[r] \notin Using
    /\ pc'[r] = (CASE k = "verify" -> "setVerified" [] k = "reset" -> "resetTx" [] OTHER -> "burn")
    /\ job'[r].secret = place[k] /\ place[k] \in Secrets
    /\ UNCHANGED <<place, drawn, spent, uses, holder>>

Advances(r) ==
    /\ job'[r].secret = job[r].secret
    /\ \/ ResetStatements(r)
       \/ Burn(r) /\ pc[r] = "burn" /\ pc'[r] \in {"codeVerify", "issue"}
       \/ CodeVerify(r) /\ pc[r] = "codeVerify" /\ pc'[r] = "issue"

(* The steps that say how often a secret was accepted.                     *)
Accepts(r) ==
    /\ pc[r] \in Using /\ pc'[r] = "idle"
    /\ uses' = [uses EXCEPT ![job[r].secret] = @ + 1]
    /\ job[r].secret \in spent'

Moves(r) ==
    /\ \A q \in Requests \ {r} : Keeps(q)
    /\ \/ pc'[r] \in Steps \ Using /\ (uses' = uses \/ Accepts(r))
       \/ (\E k \in Kinds : Begins(r, k)) /\ uses' = uses
       \/ Advances(r) /\ uses' = uses
       \/ Keeps(r) /\ uses' = uses

(* Types are preserved, and every step is one of these.                    *)
LEMMA Step ==
    ASSUME SInv, Next
    PROVE  TypeOK' /\ Stores /\ spent \subseteq spent'
           /\ ((\E r \in Requests : Moves(r)) \/ UNCHANGED <<pc, job, uses, spent, holder>>)
<1> USE DEF Start, Move, Finish, ReadLive, Upsert, Accept, Consume
<1> DEFINE Good == /\ TypeOK' /\ Stores /\ spent \subseteq spent'
                   /\ \/ \E r \in Requests : Moves(r)
                      \/ UNCHANGED <<pc, job, uses, spent, holder>>
<1>t. TypeOK /\ JobsFit
  BY DEF SInv
<1>j. NoJob \in Job /\ [NoJob EXCEPT !.unproved = ~ verified] \in Job
  BY <1>t DEF NoJob, Job, TypeOK
<1>1. ASSUME NEW s \in Secrets, Register(s) PROVE Good
  BY <1>1, <1>t DEF Register, TypeOK, Stores, Kinds
<1>2. ASSUME NEW kind \in {"reset", "code"}, Sweep(kind) PROVE Good
  BY <1>2, <1>t DEF Sweep, TypeOK, Stores, Kinds
<1>3. ASSUME NEW r \in Requests, Begin(r) PROVE Good
  <2>1. Moves(r)
    BY <1>3, <1>t DEF Begin, ResendRead, ForgotRead, ResetAccount, CodeRequest, CodeAccount,
       DeleteRead, Moves, Keeps, Steps, Using, TypeOK
  <2>2. TypeOK' /\ Stores /\ spent \subseteq spent'
    <3>1. pc' \in [Requests -> Steps] /\ job' \in [Requests -> Job]
      BY <1>3, <1>t, <1>j DEF Begin, ResendRead, ForgotRead, ResetAccount, CodeRequest,
         CodeAccount, DeleteRead, TypeOK, Steps
    <3> QED
      BY <1>3, <1>t, <3>1 DEF Begin, ResendRead, ForgotRead, ResetAccount, CodeRequest,
         CodeAccount, DeleteRead, TypeOK, Stores
  <2> QED BY <2>1, <2>2
<1>4. ASSUME NEW r \in Requests, NEW s \in Secrets, VerifyRead(r, s) PROVE Good
  <2>1. Begins(r, "verify") /\ \A q \in Requests \ {r} : Keeps(q)
    BY <1>4, <1>t DEF VerifyRead, Begins, Keeps, TypeOK, Using, NoJob
  <2>2. Moves(r)
    BY <2>1, <1>4 DEF Moves, Kinds, VerifyRead
  <2>3. TypeOK' /\ Stores /\ spent \subseteq spent'
    BY <1>4, <1>t DEF VerifyRead, TypeOK, Stores, Steps, Job, NoJob
  <2> QED BY <2>2, <2>3
<1>5. ASSUME NEW r \in Requests, NEW s \in Secrets, ResetRead(r, s) PROVE Good
  <2>1. Begins(r, "reset") /\ \A q \in Requests \ {r} : Keeps(q)
    BY <1>5, <1>t DEF ResetRead, Begins, Keeps, TypeOK, Using, Job
  <2>2. Moves(r)
    BY <2>1, <1>5 DEF Moves, Kinds, ResetRead
  <2>3. TypeOK' /\ Stores /\ spent \subseteq spent'
    BY <1>5, <1>t DEF ResetRead, TypeOK, Stores, Steps, Job
  <2> QED BY <2>2, <2>3
<1>6. ASSUME NEW r \in Requests, NEW s \in Secrets, CodeRead(r, s) PROVE Good
  <2>1. Begins(r, "code") /\ \A q \in Requests \ {r} : Keeps(q)
    BY <1>6, <1>t DEF CodeRead, Begins, Keeps, TypeOK, Using, Job
  <2>2. Moves(r)
    BY <2>1, <1>6 DEF Moves, Kinds, CodeRead
  <2>3. TypeOK' /\ Stores /\ spent \subseteq spent'
    BY <1>6, <1>t DEF CodeRead, TypeOK, Stores, Steps, Job
  <2> QED BY <2>2, <2>3
<1>7. ASSUME NEW r \in Requests, NEW s \in Secrets,
             ResendWrite(r, s) \/ ForgotUpsert(r, s) \/ CodeIssue(r, s)
      PROVE Good
  <2>1. Moves(r)
    BY <1>7, <1>t DEF ResendWrite, ForgotUpsert, CodeIssue, Moves, Keeps, Steps, Using, TypeOK
  <2>2. TypeOK' /\ spent \subseteq spent'
    <3>1. pc' \in [Requests -> Steps] /\ job' \in [Requests -> Job]
      BY <1>7, <1>t, <1>j DEF ResendWrite, ForgotUpsert, CodeIssue, TypeOK, Steps
    <3> QED
      BY <1>7, <1>t, <3>1 DEF ResendWrite, ForgotUpsert, CodeIssue, TypeOK, Kinds
  <2>3. Stores
    BY <1>7, <1>t DEF ResendWrite, ForgotUpsert, CodeIssue, TypeOK, Stores, Kinds
  <2> QED BY <2>1, <2>2, <2>3
<1>8. ASSUME NEW r \in Requests, Verify(r) PROVE Good
  <2>1. job[r].secret \in Secrets
    BY <1>8, <1>t DEF Verify, SetVerified, JobsFit, Using, TypeOK
  <2>2. Moves(r)
    BY <1>8, <1>t DEF Verify, SetVerified, Moves, Keeps, Steps, Using, TypeOK
  <2>3. TypeOK' /\ Stores /\ spent \subseteq spent'
    BY <1>8, <1>t, <2>1 DEF Verify, SetVerified, TypeOK, Stores, Steps, Job, NoJob, Kinds
  <2> QED BY <2>2, <2>3
<1>9. ASSUME NEW r \in Requests, ResetStatements(r) PROVE Good
  <2>1. Moves(r)
    BY <1>9, <1>t DEF ResetStatements, Moves, Advances, Keeps, TypeOK, Job
  <2>2. TypeOK' /\ Stores /\ spent \subseteq spent'
    BY <1>9, <1>t DEF ResetStatements, TypeOK, Stores, Steps, Job, Kinds
  <2> QED BY <2>1, <2>2
<1>10. ASSUME NEW r \in Requests, ResetCommit(r) PROVE Good
  <2>1. job[r].secret \in Secrets
    BY <1>10, <1>t DEF ResetCommit, JobsFit, Using, TypeOK
  <2>2. Moves(r)
    BY <1>10, <1>t, <2>1 DEF ResetCommit, Moves, Accepts, Keeps, Steps, Using, TypeOK
  <2>3. TypeOK' /\ spent \subseteq spent'
    BY <1>10, <1>t, <2>1 DEF ResetCommit, TypeOK, Steps, Job, NoJob, Kinds
  <2>4. Stores
    BY <1>10, <1>t DEF ResetCommit, TypeOK, Stores, Kinds
  <2> QED BY <2>2, <2>3, <2>4
<1>11. ASSUME NEW r \in Requests, Burn(r) PROVE Good
  <2>1. job[r].secret \in Secrets
    BY <1>11, <1>t DEF Burn, JobsFit, Using, TypeOK
  <2>2. Moves(r)
    BY <1>11, <1>t DEF Burn, Moves, Advances, Keeps, TypeOK
  <2>3. TypeOK' /\ Stores /\ spent \subseteq spent'
    BY <1>11, <1>t, <2>1 DEF Burn, TypeOK, Stores, Steps, Kinds
  <2> QED BY <2>2, <2>3
<1>12. ASSUME NEW r \in Requests, CodeVerify(r) PROVE Good
  <2>1. Moves(r)
    BY <1>12, <1>t DEF CodeVerify, SetVerified, Moves, Advances, Keeps, TypeOK
  <2>2. TypeOK' /\ Stores /\ spent \subseteq spent'
    BY <1>12, <1>t DEF CodeVerify, SetVerified, TypeOK, Stores, Steps, Kinds
  <2> QED BY <2>1, <2>2
<1>13. ASSUME NEW r \in Requests, Issue(r) PROVE Good
  <2>1. job[r].secret \in Secrets /\ job[r].secret \in spent
    BY <1>13, <1>t DEF Issue, JobsFit, Using, TypeOK
  <2>2. Moves(r)
    BY <1>13, <1>t, <2>1 DEF Issue, Moves, Accepts, Keeps, Steps, Using, TypeOK
  <2>3. TypeOK' /\ Stores /\ spent \subseteq spent'
    BY <1>13, <1>t, <2>1 DEF Issue, TypeOK, Stores, Steps, Job, NoJob
  <2> QED BY <2>2, <2>3
<1>14. ASSUME NEW r \in Requests, DeleteStatements(r) \/ DeleteCommit(r) \/ Abort(r) PROVE Good
  <2>1. Moves(r)
    BY <1>14, <1>t DEF DeleteStatements, DeleteCommit, Abort, Moves, Keeps, Steps, Using, TypeOK
  <2>2. TypeOK' /\ Stores /\ spent \subseteq spent'
    <3>1. pc' \in [Requests -> Steps] /\ job' \in [Requests -> Job]
      BY <1>14, <1>t, <1>j DEF DeleteStatements, DeleteCommit, Abort, TypeOK, Steps
    <3> QED
      BY <1>14, <1>t, <3>1 DEF DeleteStatements, DeleteCommit, Abort, TypeOK, Stores
  <2> QED BY <2>1, <2>2
<1> QED
  BY <1>1, <1>2, <1>3, <1>4, <1>5, <1>6, <1>7, <1>8, <1>9, <1>10, <1>11, <1>12, <1>13, <1>14
  DEF Next, Continue, WithSecret

(* A secret no longer stored is never stored again.                        *)
LEMMA DeadForGood ==
    ASSUME SInv, Stores, TypeOK'
    PROVE  Dead \subseteq Dead'
BY NoneAssumption DEF SInv, TypeOK, Stores, Dead

(* Secrets are consumed by a verification, a reset and a code logon only.  *)
LEMMA ConsumedBy ==
    ASSUME Next
    PROVE  spent' = spent \/ \E r \in Requests : Verify(r) \/ ResetCommit(r) \/ Burn(r)
<1>1. ASSUME NEW r \in Requests, Begin(r) PROVE spent' = spent
  BY <1>1 DEF Begin, ResendRead, ForgotRead, ResetAccount, CodeRequest, CodeAccount, DeleteRead,
     ReadLive
<1>2. ASSUME NEW r \in Requests, NEW s \in Secrets, WithSecret(r, s) PROVE spent' = spent
  BY <1>2 DEF WithSecret, VerifyRead, ResetRead, CodeRead, ResendWrite, ForgotUpsert, CodeIssue,
     ReadLive
<1>3. ASSUME NEW r \in Requests, Continue(r)
      PROVE spent' = spent \/ Verify(r) \/ ResetCommit(r) \/ Burn(r)
  BY <1>3 DEF Continue, ResetStatements, CodeVerify, Issue, DeleteStatements, DeleteCommit, Abort
<1> QED BY <1>1, <1>2, <1>3 DEF Next, Register, Sweep

(* A use that completes leaves its secret dead.                            *)
LEMMA SpentStep == SInv /\ Next => SpentAreDead'
<1> SUFFICES ASSUME SInv, Next PROVE SpentAreDead'
  OBVIOUS
<1>t. TypeOK /\ JobsFit /\ Locks /\ SpentAreDead
  BY DEF SInv
<1>s. TypeOK' /\ Stores
  BY Step
<1>d. Dead \subseteq Dead'
  BY <1>s, DeadForGood
<1>1. CASE spent' = spent
  BY <1>1, <1>d, <1>t DEF SpentAreDead
<1>2. ASSUME NEW r \in Requests, Verify(r) \/ ResetCommit(r) \/ Burn(r) PROVE SpentAreDead'
  <2>1. spent' = spent \cup {job[r].secret}
    BY <1>2 DEF Verify, ResetCommit, Burn, Consume
  <2>2. job[r].secret \in drawn /\ drawn' = drawn /\ job[r].secret # None
    BY <1>2, <1>t, NoneAssumption DEF Verify, SetVerified, ResetCommit, Burn, Move, Finish, JobsFit,
       Using, TypeOK
  <2>3. \A k \in Kinds : place'[k] # job[r].secret
    BY <1>2, <1>t, <2>2 DEF Verify, SetVerified, ResetCommit, Burn, Move, Finish, JobsFit, Locks,
       Kinds, TypeOK
  <2>4. job[r].secret \in Dead'
    BY <2>2, <2>3 DEF Dead
  <2> QED BY <2>1, <2>4, <1>d, <1>t DEF SpentAreDead
<1> QED BY <1>1, <1>2, ConsumedBy

(* Where a secret is stored and used stays consistent.                     *)
LEMMA JobsStep == SInv /\ Next => JobsFit'
<1> SUFFICES ASSUME SInv, Next PROVE JobsFit'
  OBVIOUS
<1>t. TypeOK /\ JobsFit
  BY DEF SInv
<1>s. TypeOK' /\ Stores /\ spent \subseteq spent'
  BY Step
<1> DEFINE Fits(q) ==
      /\ pc[q] \in Using => job[q].secret \in drawn
      /\ pc[q] \in {"codeVerify", "issue"} => job[q].secret \in spent
      /\ pc[q] \in {"resetTx", "resetCommit"} =>
             \A k \in Kinds \ {"reset"} : place[k] # job[q].secret
      /\ pc[q] = "setVerified" => \A k \in Kinds \ {"verify"} : place[k] # job[q].secret
      /\ pc[q] = "burn" => \A k \in Kinds \ {"code"} : place[k] # job[q].secret
<1>f. \A q \in Requests : Fits(q)
  BY <1>t DEF JobsFit
<1>k. \A q \in Requests : Keeps(q) => Fits(q)'
  <2> SUFFICES ASSUME NEW q \in Requests, Keeps(q) PROVE Fits(q)'
    OBVIOUS
  <2>1. \A k \in Kinds : pc[q] \in Using /\ place[k] # job[q].secret => place'[k] # job[q].secret
    BY <1>f, <1>s, <1>t, NoneAssumption DEF Stores, TypeOK
  <2> QED BY <2>1, <1>f, <1>s DEF Keeps, Stores, Using
<1>b. ASSUME NEW r \in Requests, NEW k \in Kinds, Begins(r, k) PROVE Fits(r)'
  <2>1. place[k] # None /\ place[k] \in drawn /\ \A l \in Kinds : place[k] = place[l] => k = l
    BY <1>b, <1>t, NoneAssumption DEF Begins, JobsFit
  <2> QED BY <1>b, <2>1 DEF Begins, Kinds
<1>a. ASSUME NEW r \in Requests, Advances(r) PROVE Fits(r)'
  <2>1. CASE ResetStatements(r)
    <3>1. pc[r] = "resetTx" /\ pc'[r] = "resetCommit" /\ place' = place /\ drawn' = drawn
      BY <2>1, <1>t DEF ResetStatements, Move, TypeOK
    <3> QED BY <3>1, <1>a, <1>f DEF Advances, Using
  <2>2. CASE Burn(r) /\ pc[r] = "burn" /\ pc'[r] \in {"codeVerify", "issue"}
    BY <2>2, <1>a, <1>f DEF Advances, Using, Burn, Consume
  <2>3. CASE CodeVerify(r) /\ pc[r] = "codeVerify" /\ pc'[r] = "issue"
    BY <2>3, <1>a, <1>f DEF Advances, Using, CodeVerify, SetVerified
  <2> QED BY <1>a, <2>1, <2>2, <2>3 DEF Advances
<1>i. \A r \in Requests : pc'[r] \in Steps \ Using => Fits(r)'
  BY DEF Steps, Using
<1>1. \A q \in Requests : Fits(q)'
  <2>1. CASE UNCHANGED <<pc, job, uses, spent, holder>>
    BY <2>1, <1>k DEF Keeps
  <2>2. ASSUME NEW r \in Requests, Moves(r) PROVE \A q \in Requests : Fits(q)'
    <3>1. Fits(r)'
      BY <2>2, <1>k, <1>b, <1>a, <1>i DEF Moves
    <3>2. \A q \in Requests \ {r} : Fits(q)'
      BY <2>2, <1>k DEF Moves
    <3> QED BY <3>1, <3>2
  <2> QED BY <2>1, <2>2, Step
<1>2. \A k, l \in Kinds : place'[k] # None =>
          place'[k] \in drawn' /\ (place'[k] = place'[l] => k = l)
  BY <1>s, <1>t, NoneAssumption DEF Stores, JobsFit, TypeOK
<1> QED BY <1>1, <1>2 DEF JobsFit

(* One transaction at a time, and its reset row stays put.                 *)
LEMMA LocksStep == SInv /\ Next => Locks'
<1> SUFFICES ASSUME SInv, Next PROVE Locks'
  OBVIOUS
<1> USE NoneAssumption DEF Start, Move, Finish, ReadLive
<1>t. TypeOK /\ JobsFit /\ Locks
  BY DEF SInv
<1>s. TypeOK' /\ Stores
  BY Step
<1>1. CASE \E s \in Secrets : Register(s)
  BY <1>1, <1>t DEF Register, Upsert, Locks, TypeOK, Kinds
<1>2. CASE \E kind \in {"reset", "code"} : Sweep(kind)
  BY <1>2, <1>t DEF Sweep, ResetRowFree, Locks, TypeOK, JobsFit, Using, Kinds
<1>3. ASSUME NEW r \in Requests, Begin(r) PROVE Locks'
  BY <1>3, <1>t DEF Begin, ResendRead, ForgotRead, ResetAccount, CodeRequest, CodeAccount,
     DeleteRead, Locks, TypeOK
<1>4. ASSUME NEW r \in Requests, NEW s \in Secrets, WithSecret(r, s) PROVE Locks'
  <2>1. CASE VerifyRead(r, s) \/ ResetRead(r, s) \/ CodeRead(r, s)
    BY <2>1, <1>t DEF VerifyRead, ResetRead, CodeRead, Locks, TypeOK
  <2>2. CASE ResendWrite(r, s) \/ CodeIssue(r, s)
    BY <2>2, <1>t DEF ResendWrite, CodeIssue, Upsert, Locks, TypeOK, Kinds
  <2>3. CASE ForgotUpsert(r, s)
    BY <2>3, <1>t DEF ForgotUpsert, Upsert, ResetRowFree, Locks, TypeOK, Kinds, JobsFit, Using
  <2> QED BY <1>4, <2>1, <2>2, <2>3 DEF WithSecret
<1>5. ASSUME NEW r \in Requests, Continue(r) PROVE Locks'
  <2>1. CASE Verify(r) \/ CodeVerify(r)
    BY <2>1, <1>t DEF Verify, CodeVerify, SetVerified, RowFree, Locks, TypeOK, Kinds
  <2>2. CASE ResetStatements(r)
    BY <2>2, <1>t DEF ResetStatements, RowFree, Locks, TypeOK, Kinds, JobsFit, Using, Job
  <2>3. CASE ResetCommit(r)
    BY <2>3, <1>t DEF ResetCommit, Locks, TypeOK
  <2>4. CASE Burn(r) \/ Issue(r)
    BY <2>4, <1>t DEF Burn, Issue, Locks, TypeOK, Kinds
  <2>5. CASE DeleteStatements(r) \/ DeleteCommit(r)
    BY <2>5, <1>t DEF DeleteStatements, DeleteCommit, RowFree, Locks, TypeOK
  <2>6. CASE Abort(r)
    BY <2>6, <1>t DEF Abort, Locks, TypeOK
  <2> QED BY <1>5, <2>1, <2>2, <2>3, <2>4, <2>5, <2>6 DEF Continue
<1> QED BY <1>1, <1>2, <1>3, <1>4, <1>5 DEF Next

(* A dead secret gets no new user.                                         *)
LEMMA UsersStep ==
    ASSUME SInv, Next, NEW s \in Dead
    PROVE  Users(s)' \subseteq Users(s)
<1>t. TypeOK /\ JobsFit
  BY DEF SInv
<1>1. CASE UNCHANGED <<pc, job, uses, spent, holder>>
  BY <1>1 DEF Users
<1>2. ASSUME NEW r \in Requests, Moves(r) PROVE Users(s)' \subseteq Users(s)
  <2>1. \A q \in Requests \ {r} : q \in Users(s)' => q \in Users(s)
    BY <1>2 DEF Moves, Keeps, Users
  <2>2. r \in Users(s)' => r \in Users(s)
    <3>1. CASE pc'[r] \in Steps \ Using
      BY <3>1 DEF Users
    <3>2. CASE \E k \in Kinds : Begins(r, k)
      BY <3>2 DEF Begins, Users, Dead
    <3>3. CASE Advances(r)
      BY <3>3 DEF Advances, ResetStatements, Move, Users, Using
    <3>4. CASE Keeps(r)
      BY <3>4 DEF Keeps, Users
    <3> QED BY <1>2, <3>1, <3>2, <3>3, <3>4 DEF Moves
  <2> QED BY <2>1, <2>2 DEF Users
<1> QED BY <1>1, <1>2, Step

(* The users of a secret are finitely many requests.                       *)
LEMMA UsersFinite ==
    ASSUME NEW s
    PROVE  /\ IsFiniteSet(Users(s)) /\ Cardinality(Users(s)) \in Nat
           /\ Cardinality(Users(s)) <= Cardinality(Requests)
           /\ Cardinality(Requests) \in Nat
<1>1. Users(s) \subseteq Requests
  BY DEF Users
<1>2. IsFiniteSet(Users(s)) /\ Cardinality(Users(s)) <= Cardinality(Requests)
  BY <1>1, FiniteAssumption, FS_Subset
<1> QED BY <1>2, FiniteAssumption, FS_CardinalityType

LEMMA UsersFiniteNext ==
    ASSUME NEW s
    PROVE  /\ IsFiniteSet(Users(s)') /\ Cardinality(Users(s)') \in Nat
           /\ Cardinality(Users(s)') <= Cardinality(Requests)
<1>1. Users(s)' \subseteq Requests
  BY DEF Users
<1>2. IsFiniteSet(Users(s)') /\ Cardinality(Users(s)') <= Cardinality(Requests)
  BY <1>1, FiniteAssumption, FS_Subset
<1> QED BY <1>2, FS_CardinalityType

(* Acceptances: one more of them is one user less.                         *)
LEMMA UsesStep == SInv /\ Next => UsesCounted'
<1> SUFFICES ASSUME SInv, Next, NEW s \in Secrets
             PROVE  /\ s \notin spent' => uses'[s] = 0
                    /\ uses'[s] + Cardinality(Users(s)') <= Cardinality(Requests)
  BY DEF UsesCounted
<1>t. TypeOK /\ JobsFit /\ SpentAreDead /\ UsesCounted
  BY DEF SInv
<1>s. TypeOK' /\ Stores /\ spent \subseteq spent'
  BY Step
<1>n. /\ uses[s] \in Nat /\ uses'[s] \in Nat
      /\ s \notin spent => uses[s] = 0
      /\ uses[s] + Cardinality(Users(s)) <= Cardinality(Requests)
  BY <1>t, <1>s DEF TypeOK, UsesCounted
<1>f. /\ IsFiniteSet(Users(s)) /\ Cardinality(Users(s)) \in Nat
      /\ Cardinality(Users(s)') \in Nat
      /\ Cardinality(Users(s)') <= Cardinality(Requests) /\ Cardinality(Requests) \in Nat
  BY UsersFinite, UsersFiniteNext
<1>1. CASE uses'[s] = uses[s]
  <2>1. CASE s \notin spent
    BY <1>1, <2>1, <1>n, <1>f, <1>s
  <2>2. CASE s \in spent
    <3>1. Users(s)' \subseteq Users(s)
      BY <2>2, <1>t, UsersStep DEF SpentAreDead
    <3>2. Cardinality(Users(s)') <= Cardinality(Users(s))
      BY <3>1, <1>f, FS_Subset
    <3> QED BY <1>1, <2>2, <3>2, <1>n, <1>f, <1>s
  <2> QED BY <2>1, <2>2
<1>2. ASSUME NEW r \in Requests, Accepts(r), Moves(r), s = job[r].secret
      PROVE /\ s \notin spent' => uses'[s] = 0
            /\ uses'[s] + Cardinality(Users(s)') <= Cardinality(Requests)
  <2>1. r \in Users(s) /\ r \notin Users(s)' /\ uses'[s] = uses[s] + 1 /\ s \in spent'
    BY <1>2, <1>t DEF Accepts, Users, Using, TypeOK
  <2>2. Users(s)' = Users(s) \ {r}
    BY <1>2, <2>1 DEF Moves, Keeps, Users
  <2>3. Cardinality(Users(s)') = Cardinality(Users(s)) - 1
    BY <2>1, <2>2, <1>f, FS_RemoveElement
  <2> QED BY <2>1, <2>3, <1>n, <1>f
<1>3. ASSUME NEW r \in Requests, Accepts(r), s # job[r].secret PROVE uses'[s] = uses[s]
  BY <1>3, <1>t DEF Accepts, TypeOK
<1>4. CASE uses' = uses
  BY <1>4, <1>1
<1>5. ASSUME NEW r \in Requests, Moves(r) PROVE uses' = uses \/ Accepts(r)
  BY <1>5 DEF Moves
<1> QED BY <1>1, <1>2, <1>3, <1>4, <1>5, Step

-----------------------------------------------------------------------------
(* The inductive invariant holds: jobs and rows fit, a completed use       *)
(* leaves its secret dead, and acceptances are counted.                    *)
THEOREM SecretsInvariant == Spec => []SInv
<1>1. ASSUME SInv, [Next]_vars PROVE SInv'
  <2>1. CASE Next
    BY <1>1, <2>1, Step, SpentStep, JobsStep, LocksStep, UsesStep DEF SInv
  <2>2. CASE UNCHANGED vars
    BY <1>1, <2>2 DEF vars, SInv, TypeOK, JobsFit, Locks, SpentAreDead, Dead, UsesCounted, Users
  <2> QED BY <1>1, <2>1, <2>2
<1> QED BY <1>1, InitInv, PTL DEF Spec

(* A reset token or logon code is accepted at most once per request in     *)
(* flight (Reset and Authenticate read, compare and delete in separate     *)
(* statements).                                                            *)
THEOREM Reuse == Spec => []BoundedReuse
<1>1. SInv => BoundedReuse
  <2> SUFFICES ASSUME SInv, NEW s \in Secrets PROVE uses[s] <= Cardinality(Requests)
    BY DEF BoundedReuse
  <2>1. uses[s] \in Nat /\ uses[s] + Cardinality(Users(s)) <= Cardinality(Requests)
    BY DEF SInv, TypeOK, UsesCounted
  <2> QED BY <2>1, UsersFinite
<1> QED BY <1>1, SecretsInvariant, PTL

(* A secret that was replaced, consumed or swept stays dead and gets no    *)
(* new use (resend, forgot, a second code request, a completed use).       *)
THEOREM LateUse == Spec => NoLateUse
<1>1. ASSUME SInv, [Next]_vars
      PROVE  [/\ Dead \subseteq Dead'
              /\ \A s \in Dead : Users(s)' \subseteq Users(s)]_vars
  <2>1. CASE Next
    BY <1>1, <2>1, Step, DeadForGood, UsersStep
  <2>2. CASE UNCHANGED vars
    BY <2>2
  <2> QED BY <1>1, <2>1, <2>2
<1> QED BY <1>1, SecretsInvariant, PTL DEF Spec, NoLateUse
=============================================================================
