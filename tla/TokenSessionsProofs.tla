------------------------ MODULE TokenSessionsProofs ------------------------
(***************************************************************************)
(* Proofs about TokenSessions, for every number of tenants, emails,        *)
(* clients, token pairs and requests, and for every value of the bounds.   *)
(* The argument: a request's claims are checked once and never change      *)
(* (JobsTyped), a pair being minted belongs to one renewal (MintedPrivate),*)
(* so the token in place was put there since it last won (HolderArmed).    *)
(***************************************************************************)
EXTENDS TokenSessions, TLAPS

(* A slot's account is an account, and it is among that account's slots.   *)
LEMMA SlotFacts ==
    \A s \in Slot : AccountOf(s) \in Account /\ s \in SlotsOf(AccountOf(s))
BY DEF Slot, Account, AccountOf, SlotsOf

(* The row a request under tenant t addresses with a token of that tenant  *)
(* is the row the token was issued for.                                    *)
LEMMA SlotAtOwn ==
    ASSUME NEW t \in Tenants, NEW s \in Slot, s.tenant = t
    PROVE  SlotAt(t, s) = s
BY DEF Slot, SlotAt

(* The initial state satisfies the invariant.                              *)
LEMMA InitInv == Init => IInv
BY NoneAssumption DEF Init, IInv, TypeOK, JobsTyped, MintedPrivate, KnownAreMinted, HolderArmed,
   SessionMatchesToken, OneTransaction, LocksOwned, UnlockedAreNew, ChangesBegun,
   AnchoredAfterChange, SeenStillHolds, ValidateJustified,
   NoJob, Job, Steps, OnSlot, OnAccount, Committing, Presenting

(* A request that ends, or that starts with a well-formed job, leaves      *)
(* every request well-formed.                                              *)
LEMMA FinishTypes ==
    ASSUME TypeOK, NEW r \in Requests, NEW from, Finish(r, from)
    PROVE  pc' \in [Requests -> Steps] /\ job' \in [Requests -> Job]
BY DEF TypeOK, Finish, Move, Steps, Job, NoJob

LEMMA StartTypes ==
    ASSUME TypeOK, NEW r \in Requests, NEW step \in Steps, NEW j \in Job, Start(r, step, j)
    PROVE  pc' \in [Requests -> Steps] /\ job' \in [Requests -> Job]
BY DEF TypeOK, Start

LEMMA AboutSlotTypes ==
    ASSUME NEW s \in Slot, NEW n \in Nat, NEW p \in Pairs
    PROVE  /\ [NoJob EXCEPT !.about = s, !.seen = n] \in Job
           /\ [NoJob EXCEPT !.about = s, !.given = p] \in Job
           /\ [NoJob EXCEPT !.about = s] \in Job
BY DEF NoJob, Job

LEMMA AboutAccountTypes ==
    ASSUME NEW a \in Account
    PROVE  [NoJob EXCEPT !.about = a] \in Job
BY DEF NoJob, Job

(* The statements that touch the sessions table keep its columns typed.    *)
LEMMA DropTypes ==
    ASSUME TypeOK, NEW S, DropSessions(S)
    PROVE  /\ holder' \in [Slot -> Pairs \cup {None}]
           /\ expires' \in [Slot -> Nat]
           /\ anchor' \in [Slot -> Nat]
BY DEF TypeOK, DropSessions

LEMMA MintTypes ==
    ASSUME TypeOK, NEW p \in Pairs, NEW s \in Slot, Mint(p, s)
    PROVE  /\ owner' \in [Pairs -> Slot \cup {None}]
           /\ iat' \in [Pairs -> Nat]
BY DEF TypeOK, Mint

LEMMA ForgetTypes ==
    ASSUME TypeOK, NEW p, Forget(p)
    PROVE  /\ owner' \in [Pairs -> Slot \cup {None}]
           /\ iat' \in [Pairs -> Nat]
BY DEF TypeOK, Forget

(* The writing steps of a credential change: its statements, then commit.  *)
ChangeStep(r) == \/ PasswordStatements(r) \/ DeleteStatements(r)
                 \/ PasswordCommit(r) \/ DeleteCommit(r)

ChangeStatements(r) ==
    \E from \in {"passwordTx", "deleteTx"}, to \in Committing : Statements(r, from, to)

ChangeCommit(r) == \E from \in Committing : Commit(r, from)

LEMMA ChangeSteps ==
    ASSUME NEW r \in Requests, ChangeStep(r)
    PROVE  /\ ChangeStatements(r) \/ ChangeCommit(r)
           /\ deleted \subseteq deleted'
           /\ UNCHANGED tokens /\ UNCHANGED armed
           /\ PasswordCommit(r) \/ DeleteCommit(r) \/ ChangeStatements(r)
<1>1. CASE PasswordStatements(r) \/ DeleteStatements(r)
  <2>1. ChangeStatements(r)
    BY <1>1 DEF PasswordStatements, DeleteStatements, ChangeStatements, Committing
  <2> QED BY <2>1 DEF ChangeStatements, Statements
<1>2. CASE PasswordCommit(r) \/ DeleteCommit(r)
  <2>1. ChangeCommit(r)
    BY <1>2 DEF PasswordCommit, DeleteCommit, ChangeCommit, Committing
  <2>2. deleted \subseteq deleted'
    BY <1>2 DEF PasswordCommit, DeleteCommit
  <2> QED BY <1>2, <2>1, <2>2 DEF ChangeCommit, Commit
<1> QED BY <1>1, <1>2 DEF ChangeStep

(* Types are preserved by every step.                                      *)
LEMMA TypeStep == IInv /\ [Next]_vars => TypeOK'
<1> SUFFICES ASSUME IInv, [Next]_vars PROVE TypeOK'
  OBVIOUS
<1> USE BoundsAssumption DEF tables, tokens, history
<1>t. TypeOK /\ JobsTyped /\ MintedPrivate /\ KnownAreMinted
  BY DEF IInv
<1>s. {"idle", "ackUpsert", "validateSession", "renewAccount", "logonIssue",
       "passwordTx", "deleteTx"} \subseteq Steps
  BY DEF Steps
<1>1. ASSUME NEW r \in Requests, NEW s \in Slot, LogonGate(r, s) PROVE TypeOK'
  <2> DEFINE j == [NoJob EXCEPT !.about = s]
  <2>2. j \in Job
    BY DEF NoJob, Job
  <2>3. Start(r, "logonIssue", j)
    BY <1>1 DEF LogonGate
  <2>4. pc' \in [Requests -> Steps] /\ job' \in [Requests -> Job]
    BY <1>t, <1>s, <2>2, <2>3, StartTypes
  <2> QED BY <1>1, <1>t, <2>4 DEF LogonGate, TypeOK
<1>2. ASSUME NEW r \in Requests, NEW p \in Pairs, LogonIssue(r, p) PROVE TypeOK'
  <2>1. job[r].about \in Slot
    BY <1>2, <1>t DEF LogonIssue, Finish, Move, JobsTyped, OnSlot, TypeOK, Job
  <2>2. pc' \in [Requests -> Steps] /\ job' \in [Requests -> Job]
    BY <1>2, <1>t, FinishTypes DEF LogonIssue
  <2>3. Mint(p, job[r].about)
    BY <1>2 DEF LogonIssue
  <2>4. /\ owner' \in [Pairs -> Slot \cup {None}]
        /\ iat' \in [Pairs -> Nat]
    BY <1>t, <2>1, <2>3, MintTypes
  <2> QED BY <1>2, <1>t, <2>2, <2>4 DEF LogonIssue, TypeOK
<1>3. ASSUME NEW r \in Requests, NEW t \in Tenants, NEW a \in Pairs, NEW f \in Pairs,
             AckStart(r, t, a, f)
      PROVE TypeOK'
  <2>1. owner[f] \in Slot /\ owner[f].tenant = t
    BY <1>3, <1>t DEF AckStart, RefreshValid, Valid, KnownAreMinted, SameTenant, TypeOK
  <2> QED BY <1>3, <1>t, <1>s, <2>1, SlotAtOwn, StartTypes, AboutSlotTypes DEF AckStart, TypeOK
<1>4. ASSUME NEW r \in Requests, AckUpsert(r) PROVE TypeOK'
  <2>1. job[r].about \in Slot /\ job[r].given \in Pairs
    BY <1>4, <1>t DEF AckUpsert, Finish, Move, JobsTyped, OnSlot, Presenting, TypeOK
  <2>2. begun[AccountOf(job[r].about)] \in Nat
    BY <2>1, <1>t, SlotFacts DEF TypeOK
  <2>3. RefreshExpiry(job[r].given) \in Nat
    BY <2>1, <1>t DEF RefreshExpiry, TypeOK
  <2> QED BY <1>4, <1>t, <2>1, <2>2, <2>3, FinishTypes DEF AckUpsert, PutSession, TypeOK
<1>5. ASSUME NEW r \in Requests, NEW t \in Tenants, NEW a \in Pairs, ValidateStart(r, t, a)
      PROVE TypeOK'
  <2>1. owner[a] \in Slot /\ owner[a].tenant = t
    BY <1>5, <1>t DEF ValidateStart, AccessValid, Valid, KnownAreMinted, SameTenant, TypeOK
  <2> QED BY <1>5, <1>t, <1>s, <2>1, SlotAtOwn, StartTypes, AboutSlotTypes
          DEF ValidateStart, TypeOK
<1>6. ASSUME NEW r \in Requests, ValidateSession(r) PROVE TypeOK'
  <2>1. CASE Finish(r, "validateSession")
    BY <1>6, <2>1, <1>t, FinishTypes DEF ValidateSession, TypeOK
  <2>2. CASE /\ Move(r, "validateSession", "validateAccount")
             /\ job' = [job EXCEPT ![r].seen =
                          IF LiveAccount(AccountOf(job[r].about)) THEN 1 ELSE 0]
    BY <1>6, <2>2, <1>t DEF ValidateSession, Move, TypeOK, Steps, Job
  <2> QED BY <1>6, <2>1, <2>2 DEF ValidateSession
<1>7. ASSUME NEW r \in Requests, ValidateAccount(r) PROVE TypeOK'
  <2>1. CASE Finish(r, "validateAccount")
    BY <1>7, <2>1, <1>t, FinishTypes DEF ValidateAccount, TypeOK
  <2>2. CASE Move(r, "validateAccount", "accepted") /\ UNCHANGED job
    BY <1>7, <2>2, <1>t DEF ValidateAccount, Move, TypeOK, Steps
  <2> QED BY <1>7, <2>1, <2>2 DEF ValidateAccount
<1>8. ASSUME NEW r \in Requests, ValidateReply(r) \/ RenewRefused(r) PROVE TypeOK'
  BY <1>8, <1>t, FinishTypes DEF ValidateReply, RenewRefused, TypeOK
<1>9. ASSUME NEW r \in Requests, NEW t \in Tenants, NEW f \in Pairs, RenewStart(r, t, f)
      PROVE TypeOK'
  <2>1. owner[f] \in Slot /\ owner[f].tenant = t
    BY <1>9, <1>t DEF RenewStart, RefreshValid, Valid, KnownAreMinted, SameTenant, TypeOK
  <2> QED BY <1>9, <1>t, <1>s, <2>1, SlotAtOwn, StartTypes, AboutSlotTypes
          DEF RenewStart, TypeOK
<1>10. ASSUME NEW r \in Requests, NEW p \in Pairs, RenewIssue(r, p) PROVE TypeOK'
  <2>1. job[r].about \in Slot /\ job[r].given \in Pairs
    BY <1>10, <1>t DEF RenewIssue, Move, JobsTyped, OnSlot, Presenting, TypeOK
  <2>3. pc' \in [Requests -> Steps] /\ job' \in [Requests -> Job]
    BY <1>10, <1>t DEF RenewIssue, Move, TypeOK, Steps, Job
  <2> QED BY <1>10, <1>t, <2>1, <2>3, MintTypes DEF RenewIssue, TypeOK
<1>11. ASSUME NEW r \in Requests, RenewLost(r) PROVE TypeOK'
  BY <1>11, <1>t, FinishTypes, ForgetTypes DEF RenewLost, TypeOK
<1>12. ASSUME NEW r \in Requests, NEW d \in BOOLEAN, RenewWon(r, d) PROVE TypeOK'
  <2>1. job[r].minted \in Pairs /\ job[r].given \in Pairs
    BY <1>12, <1>t DEF RenewWon, Finish, Move, MintedPrivate, JobsTyped, Presenting, TypeOK
  <2>2. RefreshExpiry(job[r].minted) \in Nat
    BY <2>1, <1>t DEF RefreshExpiry, TypeOK
  <2> QED BY <1>12, <1>t, <2>1, <2>2, FinishTypes DEF RenewWon, TypeOK
<1>13. ASSUME NEW s \in Slot, RevokeClient(s) PROVE TypeOK'
  BY <1>13, <1>t, DropTypes DEF RevokeClient, TypeOK
<1>14. ASSUME NEW a \in Account, RevokeAll(a) PROVE TypeOK'
  BY <1>14, <1>t, DropTypes DEF RevokeAll, TypeOK
<1>15. ASSUME NEW r \in Requests, NEW a \in Account, PasswordRead(r, a) \/ DeleteRead(r, a)
       PROVE TypeOK'
  <2>1. CASE PasswordRead(r, a)
    BY <2>1, <1>t, <1>s, StartTypes, AboutAccountTypes DEF PasswordRead, TypeOK
  <2>2. CASE DeleteRead(r, a)
    BY <2>2, <1>t, <1>s, StartTypes, AboutAccountTypes DEF DeleteRead, TypeOK
  <2> QED BY <1>15, <2>1, <2>2
<1>16. ASSUME NEW r \in Requests, ChangeStatements(r) PROVE TypeOK'
  <2>1. job[r].about \in Account
    BY <1>16, <1>t DEF ChangeStatements, Statements, Move, JobsTyped, OnAccount
  <2>2. begun[job[r].about] + 1 \in Nat
    BY <2>1, <1>t DEF TypeOK
  <2>3. locked' \in SUBSET Slot
    BY <1>16, <1>t DEF ChangeStatements, Statements, SlotsOf, TypeOK
  <2>4. PICK to \in Committing : pc' = [pc EXCEPT ![r] = to]
    BY <1>16 DEF ChangeStatements, Statements, Move
  <2>5. pc' \in [Requests -> Steps]
    BY <1>t, <2>4 DEF TypeOK, Committing, Steps
  <2>6. begun' \in [Account -> Nat]
    BY <1>16, <1>t, <2>2 DEF ChangeStatements, Statements, TypeOK
  <2> QED BY <1>16, <1>t, <2>3, <2>5, <2>6 DEF ChangeStatements, Statements, TypeOK
<1>17. ASSUME NEW r \in Requests, PasswordCommit(r) \/ DeleteCommit(r) PROVE TypeOK'
  <2>1. ChangeCommit(r) /\ job[r].about \in Account
    BY <1>17, <1>t
       DEF PasswordCommit, DeleteCommit, ChangeCommit, Commit, Committing, Finish, Move,
           JobsTyped, OnAccount
  <2>2. deleted' \in SUBSET Account
    BY <1>17, <1>t, <2>1 DEF PasswordCommit, DeleteCommit, TypeOK
  <2>3. begun[job[r].about] \in Nat
    BY <2>1, <1>t DEF TypeOK
  <2>4. locked' \in SUBSET Slot /\ changes' \in [Account -> Nat]
    BY <1>t, <2>1, <2>3 DEF ChangeCommit, Commit, Unlock, TypeOK
  <2> QED BY <1>t, <2>1, <2>2, <2>4, FinishTypes, DropTypes DEF ChangeCommit, Commit, TypeOK
<1>18. ASSUME NEW r \in Requests, Abort(r) PROVE TypeOK'
  <2>1. locked' \in SUBSET Slot
    BY <1>18, <1>t DEF Abort, Unlock, TypeOK
  <2> QED BY <1>18, <1>t, <2>1, FinishTypes, ForgetTypes DEF Abort, TypeOK
<1>19. CASE Sweep
  BY <1>19, <1>t, DropTypes DEF Sweep, TypeOK
<1>20. CASE Tick
  BY <1>20, <1>t DEF Tick, TypeOK
<1>21. CASE UNCHANGED vars
  BY <1>21, <1>t DEF vars, TypeOK
<1> QED
  BY <1>1, <1>2, <1>3, <1>4, <1>5, <1>6, <1>7, <1>8, <1>9, <1>10, <1>11, <1>12, <1>13, <1>14,
     <1>15, <1>16, <1>17, <1>18, <1>19, <1>20, <1>21, ChangeSteps
     DEF Next, Begin, Continue, ChangeStep

-----------------------------------------------------------------------------
(* Pairs that are in a client's hands or were ever in place keep their      *)
(* claims, and no client is made to forget a pair.                          *)
LEMMA ClaimsStable ==
    ASSUME IInv, [Next]_vars
    PROVE  /\ held \subseteq held'
           /\ \A p \in held \cup armed : owner'[p] = owner[p] /\ iat'[p] = iat[p]
<1> USE DEF tables, tokens, history
<1>t. TypeOK /\ MintedPrivate /\ KnownAreMinted
  BY DEF IInv
<1>1. ASSUME NEW r \in Requests, NEW p \in Pairs, LogonIssue(r, p) \/ RenewIssue(r, p)
      PROVE  /\ held \subseteq held'
             /\ \A q \in held \cup armed : owner'[q] = owner[q] /\ iat'[q] = iat[q]
  BY <1>1, <1>t DEF LogonIssue, RenewIssue, Mint, KnownAreMinted, TypeOK
<1>2. ASSUME NEW r \in Requests, RenewLost(r) \/ Abort(r)
      PROVE  /\ held \subseteq held'
             /\ \A q \in held \cup armed : owner'[q] = owner[q] /\ iat'[q] = iat[q]
  BY <1>2, <1>t DEF RenewLost, Abort, Finish, Move, Forget, MintedPrivate, TypeOK
<1>3. ASSUME NEW r \in Requests, NEW d \in BOOLEAN, RenewWon(r, d)
      PROVE  /\ held \subseteq held'
             /\ \A q \in held \cup armed : owner'[q] = owner[q] /\ iat'[q] = iat[q]
  BY <1>3 DEF RenewWon
<1>4. ASSUME NEW r \in Requests, Begin(r)
      PROVE  UNCHANGED tokens
  BY <1>4 DEF Begin, LogonGate, AckStart, ValidateStart, RenewStart, PasswordRead, DeleteRead
<1>5. ASSUME NEW r \in Requests,
             \/ AckUpsert(r) \/ ValidateSession(r) \/ ValidateAccount(r) \/ ValidateReply(r)
             \/ RenewRefused(r) \/ ChangeStep(r)
      PROVE  UNCHANGED tokens
  BY <1>5, ChangeSteps
     DEF AckUpsert, ValidateSession, ValidateAccount, ValidateReply, RenewRefused
<1>6. CASE \/ \E s \in Slot : RevokeClient(s)
           \/ \E a \in Account : RevokeAll(a)
           \/ Sweep \/ Tick \/ UNCHANGED vars
  BY <1>6 DEF RevokeClient, RevokeAll, Sweep, Tick, vars
<1> QED
  BY <1>1, <1>2, <1>3, <1>4, <1>5, <1>6 DEF Next, Continue, ChangeStep

(* A request that does not take the step keeps its place and its locals.   *)
LEMMA OthersKeep ==
    ASSUME TypeOK, NEW r \in Requests, Begin(r) \/ Continue(r) \/ Abort(r),
           NEW q \in Requests, q # r
    PROVE  pc'[q] = pc[q] /\ job'[q] = job[q]
<1> USE DEF Start, Move, Finish, TypeOK
<1>1. CASE Begin(r)
  BY <1>1 DEF Begin, LogonGate, AckStart, ValidateStart, RenewStart, PasswordRead, DeleteRead
<1>2. CASE Abort(r)
  BY <1>2 DEF Abort
<1>3. CASE Continue(r)
  <2>1. ASSUME NEW p \in Pairs, LogonIssue(r, p) \/ RenewIssue(r, p)
        PROVE  pc'[q] = pc[q] /\ job'[q] = job[q]
    BY <2>1 DEF LogonIssue, RenewIssue
  <2>2. ASSUME \/ AckUpsert(r) \/ ValidateSession(r) \/ ValidateAccount(r)
               \/ ValidateReply(r) \/ RenewRefused(r) \/ RenewLost(r)
        PROVE  pc'[q] = pc[q] /\ job'[q] = job[q]
    BY <2>2 DEF AckUpsert, ValidateSession, ValidateAccount, ValidateReply, RenewRefused,
       RenewLost
  <2>3. ASSUME NEW d \in BOOLEAN, RenewWon(r, d)
        PROVE  pc'[q] = pc[q] /\ job'[q] = job[q]
    BY <2>3 DEF RenewWon
  <2>4. ASSUME ChangeStatements(r) \/ ChangeCommit(r)
        PROVE  pc'[q] = pc[q] /\ job'[q] = job[q]
    BY <2>4 DEF ChangeStatements, ChangeCommit, Statements, Commit
  <2> QED BY <1>3, <2>1, <2>2, <2>3, <2>4, ChangeSteps DEF Continue, ChangeStep
<1> QED BY <1>1, <1>2, <1>3

(* The steps that no request takes.                                        *)
LEMMA OtherSteps ==
    ASSUME [Next]_vars, ~ \E r \in Requests : Begin(r) \/ Continue(r) \/ Abort(r)
    PROVE  UNCHANGED <<pc, job, tokens, begun, changes, armed, deleted, locked>>
BY DEF Next, RevokeClient, RevokeAll, Sweep, Tick, vars, tables, tokens, history

-----------------------------------------------------------------------------
(* JobsTyped: the request that steps, and the ones that do not.            *)
JobTyped(r) ==
    /\ pc[r] \in OnSlot => job[r].about \in Slot
    /\ pc[r] \in OnAccount => job[r].about \in Account
    /\ pc[r] \in Presenting =>
          /\ job[r].given \in held
          /\ owner[job[r].given] = job[r].about

LEMMA JobsStep == IInv /\ [Next]_vars => JobsTyped'
<1> SUFFICES ASSUME IInv, [Next]_vars, NEW q \in Requests PROVE JobTyped(q)'
  BY DEF JobsTyped, JobTyped
<1> USE DEF tables, tokens, history
<1>t. TypeOK /\ JobTyped(q) /\ KnownAreMinted
  BY DEF IInv, JobsTyped, JobTyped
<1>h. held \subseteq held' /\ \A p \in held : owner'[p] = owner[p]
  BY ClaimsStable
<1>k. ASSUME pc'[q] = pc[q], job'[q] = job[q] PROVE JobTyped(q)'
  BY <1>t, <1>h, <1>k DEF JobTyped, OnSlot, OnAccount, Committing, Presenting
<1>i. ASSUME pc'[q] = "idle" PROVE JobTyped(q)'
  BY <1>i DEF JobTyped, OnSlot, OnAccount, Committing, Presenting
<1>1. CASE ~ \E r \in Requests : Begin(r) \/ Continue(r) \/ Abort(r)
  BY <1>1, <1>k, OtherSteps
<1>2. ASSUME NEW r \in Requests, Begin(r) \/ Continue(r) \/ Abort(r), r # q
      PROVE JobTyped(q)'
  BY <1>2, <1>t, <1>k, OthersKeep
<1>3. CASE Begin(q)
  <2>1. ASSUME NEW s \in Slot, LogonGate(q, s) PROVE JobTyped(q)'
    BY <2>1, <1>t
       DEF LogonGate, Start, NoJob, JobTyped, OnSlot, OnAccount, Committing, Presenting, TypeOK
  <2>2. ASSUME NEW t \in Tenants, NEW a \in Pairs, NEW f \in Pairs, AckStart(q, t, a, f)
        PROVE JobTyped(q)'
    <3>1. owner[f] \in Slot /\ owner[f].tenant = t /\ f \in held
      BY <2>2, <1>t DEF AckStart, RefreshValid, Valid, KnownAreMinted, SameTenant, TypeOK
    <3>2. SlotAt(t, owner[f]) = owner[f]
      BY <3>1, SlotAtOwn
    <3>3. pc'[q] = "ackUpsert" /\ job'[q].about = owner[f] /\ job'[q].given = f
      BY <2>2, <3>2, <1>t DEF AckStart, Start, NoJob, TypeOK
    <3> QED BY <3>1, <3>3, <1>h DEF JobTyped, OnSlot, OnAccount, Committing, Presenting
  <2>3. ASSUME NEW t \in Tenants, NEW a \in Pairs, ValidateStart(q, t, a) PROVE JobTyped(q)'
    <3>1. owner[a] \in Slot /\ owner[a].tenant = t
      BY <2>3, <1>t DEF ValidateStart, AccessValid, Valid, KnownAreMinted, SameTenant, TypeOK
    <3>2. SlotAt(t, owner[a]) = owner[a]
      BY <3>1, SlotAtOwn
    <3>3. pc'[q] = "validateSession" /\ job'[q].about = owner[a]
      BY <2>3, <3>2, <1>t DEF ValidateStart, Start, NoJob, TypeOK
    <3> QED BY <3>1, <3>3 DEF JobTyped, OnSlot, OnAccount, Committing, Presenting
  <2>4. ASSUME NEW t \in Tenants, NEW f \in Pairs, RenewStart(q, t, f) PROVE JobTyped(q)'
    <3>1. owner[f] \in Slot /\ owner[f].tenant = t /\ f \in held
      BY <2>4, <1>t DEF RenewStart, RefreshValid, Valid, KnownAreMinted, SameTenant, TypeOK
    <3>2. SlotAt(t, owner[f]) = owner[f]
      BY <3>1, SlotAtOwn
    <3>3. pc'[q] = "renewAccount" /\ job'[q].about = owner[f] /\ job'[q].given = f
      BY <2>4, <3>2, <1>t DEF RenewStart, Start, NoJob, TypeOK
    <3> QED BY <3>1, <3>3, <1>h DEF JobTyped, OnSlot, OnAccount, Committing, Presenting
  <2>5. ASSUME NEW a \in Account, PasswordRead(q, a) \/ DeleteRead(q, a) PROVE JobTyped(q)'
    BY <2>5, <1>t
       DEF PasswordRead, DeleteRead, Start, NoJob, JobTyped, OnSlot, OnAccount, Committing,
           Presenting, TypeOK
  <2> QED BY <1>3, <2>1, <2>2, <2>3, <2>4, <2>5 DEF Begin
<1>4. CASE Continue(q)
  <2>1. ASSUME NEW p \in Pairs, RenewIssue(q, p) PROVE JobTyped(q)'
    <3>1. /\ pc[q] = "renewAccount" /\ pc'[q] = "renewRotate"
          /\ job'[q].about = job[q].about /\ job'[q].given = job[q].given
      BY <2>1, <1>t DEF RenewIssue, Move, TypeOK, Job
    <3> QED BY <3>1, <1>t, <1>h DEF JobTyped, OnSlot, OnAccount, Committing, Presenting
  <2>2. ASSUME ValidateSession(q) \/ ValidateAccount(q), pc'[q] # "idle" PROVE JobTyped(q)'
    <3>1. /\ pc[q] \in {"validateSession", "validateAccount"}
          /\ pc'[q] \in {"validateAccount", "accepted"}
          /\ job'[q].about = job[q].about
      BY <2>2, <1>t DEF ValidateSession, ValidateAccount, Finish, Move, TypeOK, Job
    <3> QED BY <3>1, <1>t DEF JobTyped, OnSlot, OnAccount, Committing, Presenting
  <2>3. ASSUME NEW p \in Pairs, LogonIssue(q, p) PROVE pc'[q] = "idle"
    BY <2>3, <1>t DEF LogonIssue, Finish, Move, TypeOK
  <2>4. ASSUME \/ AckUpsert(q) \/ ValidateReply(q) \/ RenewRefused(q) \/ RenewLost(q)
               \/ ChangeCommit(q)
               \/ \E d \in BOOLEAN : RenewWon(q, d)
        PROVE pc'[q] = "idle"
    BY <2>4, <1>t DEF AckUpsert, ValidateReply, RenewRefused, RenewLost, ChangeCommit, Commit,
       RenewWon, Finish, Move, TypeOK
  <2>5. ASSUME ChangeStatements(q) PROVE JobTyped(q)'
    <3>1. pc[q] \in OnAccount /\ pc'[q] \in Committing /\ job'[q] = job[q]
      BY <2>5, <1>t DEF ChangeStatements, Statements, Move, OnAccount, TypeOK
    <3> QED BY <3>1, <1>t DEF JobTyped, OnSlot, OnAccount, Committing, Presenting
  <2> QED BY <1>4, <1>i, <2>1, <2>2, <2>3, <2>4, <2>5, ChangeSteps DEF Continue, ChangeStep
<1>5. CASE Abort(q)
  BY <1>5, <1>i, <1>t DEF Abort, Finish, Move, TypeOK
<1> QED BY <1>1, <1>2, <1>3, <1>4, <1>5

(* Only minted pairs are known: a pair becomes known by being returned to  *)
(* its client or put in place, and it was minted before.                   *)
LEMMA KnownStep == IInv /\ [Next]_vars => KnownAreMinted'
<1> SUFFICES ASSUME IInv, [Next]_vars, NEW p \in held' \cup armed' PROVE owner'[p] # None
  BY DEF KnownAreMinted
<1> USE NoneAssumption DEF tables, tokens, history
<1>t. TypeOK /\ JobsTyped /\ MintedPrivate /\ KnownAreMinted
  BY DEF IInv
<1>h. \A x \in held \cup armed : owner'[x] = owner[x]
  BY ClaimsStable
<1>o. CASE p \in held \cup armed
  BY <1>o, <1>h, <1>t DEF KnownAreMinted
<1>n. CASE p \notin held \cup armed
  <2>1. ASSUME NEW r \in Requests, NEW x \in Pairs, LogonIssue(r, x) PROVE owner'[p] # None
    BY <2>1, <1>n, <1>t DEF LogonIssue, Finish, Move, Mint, JobsTyped, OnSlot, TypeOK
  <2>2. ASSUME NEW r \in Requests, AckUpsert(r) PROVE owner'[p] # None
    BY <2>2, <1>n, <1>t DEF AckUpsert, Finish, Move, PutSession, JobsTyped, Presenting
  <2>3. ASSUME NEW r \in Requests, NEW d \in BOOLEAN, RenewWon(r, d) PROVE owner'[p] # None
    BY <2>3, <1>n, <1>t DEF RenewWon, Finish, Move, MintedPrivate, JobsTyped, OnSlot
  <2>4. ASSUME NEW r \in Requests, Begin(r) PROVE FALSE
    BY <2>4, <1>n
       DEF Begin, LogonGate, AckStart, ValidateStart, RenewStart, PasswordRead, DeleteRead
  <2>5. ASSUME NEW r \in Requests,
               \/ ValidateSession(r) \/ ValidateAccount(r) \/ ValidateReply(r)
               \/ RenewRefused(r) \/ RenewLost(r) \/ ChangeStep(r)
               \/ Abort(r) \/ \E x \in Pairs : RenewIssue(r, x)
        PROVE FALSE
    BY <2>5, <1>n, ChangeSteps
       DEF ValidateSession, ValidateAccount, ValidateReply, RenewRefused, RenewLost, Abort,
           RenewIssue
  <2>6. CASE ~ \E r \in Requests : Begin(r) \/ Continue(r) \/ Abort(r)
    BY <2>6, <1>n, OtherSteps
  <2> QED BY <2>1, <2>2, <2>3, <2>4, <2>5, <2>6 DEF Continue, ChangeStep
<1> QED BY <1>o, <1>n

-----------------------------------------------------------------------------
(* MintedPrivate: a pair being minted stays out of everyone's hands.       *)

(* Steps of a request that mint nothing leave it without a minted pair.    *)
LEMMA RotateOnlyAfterIssue ==
    ASSUME TypeOK, NEW r \in Requests, Begin(r) \/ Continue(r) \/ Abort(r),
           pc'[r] = "renewRotate"
    PROVE  \E p \in Pairs : RenewIssue(r, p)
<1> USE DEF Start, Move, Finish, TypeOK
<1>1. ~ Begin(r)
  BY DEF Begin, LogonGate, AckStart, ValidateStart, RenewStart, PasswordRead, DeleteRead
<1>2. ~ Abort(r)
  BY DEF Abort
<1>3. ASSUME NEW p \in Pairs, LogonIssue(r, p) PROVE FALSE
  BY <1>3 DEF LogonIssue
<1>4. ASSUME \/ AckUpsert(r) \/ ValidateSession(r) \/ ValidateAccount(r) \/ ValidateReply(r)
             \/ RenewRefused(r) \/ RenewLost(r)
      PROVE FALSE
  BY <1>4 DEF AckUpsert, ValidateSession, ValidateAccount, ValidateReply, RenewRefused,
     RenewLost
<1>5. ASSUME NEW d \in BOOLEAN, RenewWon(r, d) PROVE FALSE
  BY <1>5 DEF RenewWon
<1>6. ASSUME ChangeStatements(r) PROVE FALSE
  BY <1>6 DEF ChangeStatements, Statements, Committing
<1>7. ASSUME ChangeCommit(r) PROVE FALSE
  BY <1>7 DEF ChangeCommit, Commit
<1> QED BY <1>1, <1>2, <1>3, <1>4, <1>5, <1>6, <1>7, ChangeSteps DEF Continue, ChangeStep

(* What a step does to a pair that some renewal has minted and not yet     *)
(* rotated in: nothing, unless that renewal itself takes the step.         *)
LEMMA MintedUntouched ==
    ASSUME IInv, [Next]_vars, NEW q \in Requests, pc[q] = "renewRotate",
           pc'[q] = "renewRotate", job'[q] = job[q]
    PROVE  /\ owner'[job[q].minted] = owner[job[q].minted]
           /\ job[q].minted \notin held'
           /\ job[q].minted \notin armed'
<1> USE NoneAssumption DEF tables, tokens, history
<1>t. TypeOK /\ JobsTyped /\ MintedPrivate /\ owner[job[q].minted] # None
  BY DEF IInv, JobsTyped, OnSlot, MintedPrivate
<1> DEFINE m == job[q].minted
<1>m. m \in Pairs /\ m \notin held /\ m \notin armed
  BY <1>t DEF MintedPrivate
<1>1. ASSUME NEW r \in Requests, NEW p \in Pairs, LogonIssue(r, p) \/ RenewIssue(r, p)
      PROVE  owner'[m] = owner[m] /\ m \notin held' /\ m \notin armed'
  BY <1>1, <1>t, <1>m DEF LogonIssue, RenewIssue, Mint, TypeOK
<1>2. ASSUME NEW r \in Requests, AckUpsert(r)
      PROVE  owner'[m] = owner[m] /\ m \notin held' /\ m \notin armed'
  BY <1>2, <1>t, <1>m DEF AckUpsert, PutSession, Finish, Move, JobsTyped, Presenting
<1>3. ASSUME NEW r \in Requests, RenewLost(r) \/ Abort(r) \/ \E d \in BOOLEAN : RenewWon(r, d)
      PROVE  owner'[m] = owner[m] /\ m \notin held' /\ m \notin armed'
  <2>1. r # q
    BY <1>3, <1>t DEF RenewLost, Abort, RenewWon, Finish, Move, TypeOK
  <2>2. pc[r] = "renewRotate" => job[r].minted # m
    BY <2>1, <1>t DEF MintedPrivate
  <2> QED BY <1>3, <1>t, <1>m, <2>2 DEF RenewLost, Abort, RenewWon, Finish, Move, Forget, TypeOK
<1>4. ASSUME NEW r \in Requests,
             \/ Begin(r) \/ ValidateSession(r) \/ ValidateAccount(r) \/ ValidateReply(r)
             \/ RenewRefused(r) \/ ChangeStep(r)
      PROVE  owner'[m] = owner[m] /\ m \notin held' /\ m \notin armed'
  BY <1>4, <1>m, ChangeSteps
     DEF Begin, LogonGate, AckStart, ValidateStart, RenewStart, PasswordRead, DeleteRead,
         ValidateSession, ValidateAccount, ValidateReply, RenewRefused
<1>5. CASE ~ \E r \in Requests : Begin(r) \/ Continue(r) \/ Abort(r)
  BY <1>5, <1>m, OtherSteps
<1> QED BY <1>1, <1>2, <1>3, <1>4, <1>5 DEF Continue, ChangeStep

LEMMA MintedStep == IInv /\ [Next]_vars => MintedPrivate'
<1> SUFFICES ASSUME IInv, [Next]_vars PROVE MintedPrivate'
  OBVIOUS
<1> USE NoneAssumption DEF tables, tokens, history
<1>t. TypeOK /\ JobsTyped /\ MintedPrivate /\ KnownAreMinted
  BY DEF IInv
(* A renewal under way after the step was so before, or mints in it.       *)
<1>1. ASSUME NEW q \in Requests, pc'[q] = "renewRotate"
      PROVE  \/ pc[q] = "renewRotate" /\ job'[q] = job[q]
             \/ \E p \in Pairs : RenewIssue(q, p)
  <2>1. CASE \E r \in Requests : r # q /\ (Begin(r) \/ Continue(r) \/ Abort(r))
    <3>1. pc'[q] = pc[q] /\ job'[q] = job[q]
      BY <2>1, <1>t, OthersKeep
    <3> QED BY <3>1, <1>1
  <2>2. CASE Begin(q) \/ Continue(q) \/ Abort(q)
    BY <2>2, <1>1, <1>t, RotateOnlyAfterIssue
  <2>3. CASE ~ \E r \in Requests : Begin(r) \/ Continue(r) \/ Abort(r)
    BY <2>3, <1>1, OtherSteps
  <2> QED BY <2>1, <2>2, <2>3
(* What minting itself establishes.                                        *)
<1>2. ASSUME NEW q \in Requests, NEW p \in Pairs, RenewIssue(q, p)
      PROVE  /\ job'[q].minted = p /\ owner'[p] = job'[q].about
             /\ p \notin held' /\ p \notin armed' /\ owner[p] = None
  BY <1>2, <1>t DEF RenewIssue, Move, Mint, KnownAreMinted, TypeOK, Job
<1>3. ASSUME NEW q \in Requests, pc[q] = "renewRotate"
      PROVE  job[q].minted \in Pairs /\ owner[job[q].minted] # None
  BY <1>3, <1>t DEF MintedPrivate, JobsTyped, OnSlot
<1>4. ASSUME NEW q \in Requests, NEW o \in Requests \ {q},
             pc'[q] = "renewRotate", pc'[o] = "renewRotate"
      PROVE  job'[q].minted # job'[o].minted
  <2>1. CASE /\ pc[q] = "renewRotate" /\ job'[q] = job[q]
             /\ pc[o] = "renewRotate" /\ job'[o] = job[o]
    BY <2>1, <1>t DEF MintedPrivate
  <2>2. ASSUME NEW p \in Pairs, RenewIssue(q, p)
        PROVE  job'[q].minted # job'[o].minted
    <3>1. job'[o] = job[o] /\ pc[o] = "renewRotate"
      BY <2>2, <1>4, <1>t DEF RenewIssue, Move, TypeOK
    <3> QED BY <3>1, <2>2, <1>2, <1>3
  <2>3. ASSUME NEW p \in Pairs, RenewIssue(o, p)
        PROVE  job'[q].minted # job'[o].minted
    <3>1. job'[q] = job[q] /\ pc[q] = "renewRotate"
      BY <2>3, <1>4, <1>t DEF RenewIssue, Move, TypeOK
    <3> QED BY <3>1, <2>3, <1>2, <1>3
  <2> QED BY <1>4, <1>1, <2>1, <2>2, <2>3
<1>5. ASSUME NEW q \in Requests, pc'[q] = "renewRotate"
      PROVE  /\ job'[q].minted \in Pairs
             /\ owner'[job'[q].minted] = job'[q].about
             /\ job'[q].minted \notin held'
             /\ job'[q].minted \notin armed'
  <2>1. CASE pc[q] = "renewRotate" /\ job'[q] = job[q]
    BY <2>1, <1>5, <1>t, MintedUntouched DEF MintedPrivate
  <2>2. CASE \E p \in Pairs : RenewIssue(q, p)
    BY <2>2, <1>2
  <2> QED BY <1>5, <1>1, <2>1, <2>2
<1> QED BY <1>4, <1>5 DEF MintedPrivate

-----------------------------------------------------------------------------
(* The session table: what a step can leave in a slot.  Either nothing, or *)
(* what was there, or a token acknowledged or rotated in by this step.     *)
Kept(s) == holder'[s] = holder[s] /\ expires'[s] = expires[s] /\ anchor'[s] = anchor[s]

LEMMA DropKeepsOrEmpties ==
    ASSUME TypeOK, NEW S, DropSessions(S), NEW s \in Slot
    PROVE  (s \in S /\ holder'[s] = None) \/ (s \notin S /\ Kept(s))
BY DEF TypeOK, DropSessions, Kept

LEMMA SessionCases ==
    ASSUME IInv, [Next]_vars, NEW s \in Slot, holder'[s] # None
    PROVE  \/ Kept(s) /\ holder[s] \in armed'
           \/ \E r \in Requests : AckUpsert(r) /\ job[r].about = s
           \/ \E r \in Requests, d \in BOOLEAN : RenewWon(r, d) /\ job[r].about = s
<1> USE DEF tables, tokens, history, Kept
<1>t. TypeOK /\ JobsTyped /\ HolderArmed /\ SessionMatchesToken
  BY DEF IInv
<1>n. holder[s] # None => holder[s] \in armed /\ owner[holder[s]] = s
  BY <1>t DEF HolderArmed, SessionMatchesToken
<1> DEFINE Same == Kept(s) /\ holder[s] \in armed'
<1>1. ASSUME NEW r \in Requests, AckUpsert(r), job[r].about # s PROVE Same
  BY <1>1, <1>t, <1>n DEF AckUpsert, PutSession, Finish, Move, TypeOK, JobsTyped, OnSlot
<1>2. ASSUME NEW r \in Requests, NEW d \in BOOLEAN, RenewWon(r, d), job[r].about # s PROVE Same
  <2>1. job[r].about \in Slot /\ owner[job[r].given] = job[r].about
    BY <1>2, <1>t DEF RenewWon, Finish, Move, JobsTyped, OnSlot, Presenting
  <2>2. holder'[s] = holder[s] /\ expires'[s] = expires[s] /\ anchor'[s] = anchor[s]
    BY <1>2, <2>1, <1>t DEF RenewWon, TypeOK
  <2> QED BY <1>2, <2>1, <2>2, <1>n DEF RenewWon
<1>3. ASSUME NEW r \in Requests, ChangeStep(r) PROVE Same
  <2>1. CASE ChangeStatements(r)
    BY <2>1, <1>n DEF ChangeStatements, Statements
  <2>2. CASE ChangeCommit(r)
    BY <2>2, <1>n, <1>t, DropKeepsOrEmpties DEF ChangeCommit, Commit
  <2> QED BY <1>3, <2>1, <2>2, ChangeSteps
<1>4. ASSUME NEW S, DropSessions(S), armed' = armed PROVE Same
  BY <1>4, <1>t, <1>n, DropKeepsOrEmpties
<1>5. ASSUME UNCHANGED <<holder, expires, anchor, armed>> PROVE Same
  BY <1>5, <1>n
<1>6. ASSUME NEW r \in Requests, Begin(r) \/ Abort(r)
      PROVE  UNCHANGED <<holder, expires, anchor, armed>>
  BY <1>6
     DEF Begin, LogonGate, AckStart, ValidateStart, RenewStart, PasswordRead, DeleteRead, Abort
<1>7. ASSUME NEW r \in Requests,
             \/ \E p \in Pairs : LogonIssue(r, p) \/ RenewIssue(r, p)
             \/ ValidateSession(r) \/ ValidateAccount(r) \/ ValidateReply(r)
             \/ RenewRefused(r) \/ RenewLost(r)
      PROVE  UNCHANGED <<holder, expires, anchor, armed>>
  BY <1>7 DEF LogonIssue, RenewIssue, ValidateSession, ValidateAccount, ValidateReply,
     RenewRefused, RenewLost
<1>8. ASSUME \/ \E x \in Slot : RevokeClient(x)
             \/ \E a \in Account : RevokeAll(a)
             \/ Sweep
      PROVE  (\E S : DropSessions(S)) /\ armed' = armed
  BY <1>8 DEF RevokeClient, RevokeAll, Sweep
<1>9. ASSUME Tick \/ UNCHANGED vars
      PROVE  UNCHANGED <<holder, expires, anchor, armed>>
  BY <1>9 DEF Tick, vars
<1> QED
  BY <1>1, <1>2, <1>3, <1>4, <1>5, <1>6, <1>7, <1>8, <1>9 DEF Next, Continue, ChangeStep

(* What an acknowledge and a rotation put into the slot.                   *)
LEMMA AckPuts ==
    ASSUME IInv, NEW r \in Requests, AckUpsert(r), NEW s \in Slot, job[r].about = s
    PROVE  /\ holder'[s] = job[r].given /\ expires'[s] = RefreshExpiry(job[r].given)
           /\ job[r].given \in Pairs /\ job[r].given \in held
           /\ job[r].given \in armed' /\ owner[job[r].given] = s
           /\ anchor'[s] = begun[AccountOf(s)]
           /\ UNCHANGED <<owner, iat>>
BY DEF IInv, TypeOK, JobsTyped, Presenting, AckUpsert, PutSession, Finish, Move, tokens

LEMMA RenewPuts ==
    ASSUME IInv, NEW r \in Requests, NEW d \in BOOLEAN, RenewWon(r, d),
           NEW s \in Slot, job[r].about = s
    PROVE  /\ holder[s] = job[r].given /\ job[r].given \in held
           /\ holder'[s] = job[r].minted /\ expires'[s] = RefreshExpiry(job[r].minted)
           /\ job[r].minted \in Pairs
           /\ job[r].minted \in armed' /\ owner[job[r].minted] = s
           /\ anchor'[s] = anchor[s]
           /\ UNCHANGED <<owner, iat>>
BY DEF IInv, TypeOK, JobsTyped, Presenting, MintedPrivate, RenewWon, Rotated, Finish, Move

LEMMA ArmedStep == IInv /\ [Next]_vars => HolderArmed'
<1> SUFFICES ASSUME IInv, [Next]_vars, NEW s \in Slot, holder'[s] # None
             PROVE  holder'[s] \in armed'
  BY DEF HolderArmed
<1> QED BY SessionCases, AckPuts, RenewPuts DEF Kept

LEMMA MatchStep == IInv /\ [Next]_vars => SessionMatchesToken'
<1> SUFFICES ASSUME IInv, [Next]_vars, NEW s \in Slot, holder'[s] # None
             PROVE  owner'[holder'[s]] = s /\ expires'[s] = iat'[holder'[s]] + RefreshTTL
  BY DEF SessionMatchesToken, RefreshExpiry
<1>1. CASE Kept(s)
  <2>1. holder[s] \in armed /\ owner[holder[s]] = s
        /\ expires[s] = iat[holder[s]] + RefreshTTL
    BY <1>1 DEF IInv, HolderArmed, SessionMatchesToken, RefreshExpiry, Kept
  <2>2. owner'[holder[s]] = owner[holder[s]] /\ iat'[holder[s]] = iat[holder[s]]
    BY <2>1, ClaimsStable
  <2> QED BY <1>1, <2>1, <2>2 DEF Kept
<1>2. ASSUME NEW r \in Requests, AckUpsert(r), job[r].about = s
      PROVE  owner'[holder'[s]] = s /\ expires'[s] = iat'[holder'[s]] + RefreshTTL
  BY <1>2, AckPuts DEF RefreshExpiry
<1>3. ASSUME NEW r \in Requests, NEW d \in BOOLEAN, RenewWon(r, d), job[r].about = s
      PROVE  owner'[holder'[s]] = s /\ expires'[s] = iat'[holder'[s]] + RefreshTTL
  BY <1>3, RenewPuts DEF RefreshExpiry
<1> QED BY <1>1, <1>2, <1>3, SessionCases

-----------------------------------------------------------------------------
(* Credential changes: their transactions take turns on an account, and    *)
(* every other step leaves them, their locks and their count alone.        *)
LEMMA TransactionCases ==
    ASSUME IInv, [Next]_vars
    PROVE  \/ \E r \in Requests : ChangeStatements(r) \/ ChangeCommit(r) \/ Abort(r)
           \/ /\ UNCHANGED <<locked, begun, changes>>
              /\ \A q \in Requests :
                    pc[q] \in Committing \/ pc'[q] \in Committing =>
                        pc'[q] = pc[q] /\ job'[q] = job[q]
<1> USE DEF tables, tokens, history, Committing
<1>t. TypeOK
  BY DEF IInv
<1> DEFINE Quiet(r) == /\ UNCHANGED <<locked, begun, changes>>
                       /\ pc[r] \notin Committing /\ pc'[r] \notin Committing
<1>1. ASSUME NEW r \in Requests, Begin(r) PROVE Quiet(r)
  BY <1>1, <1>t DEF Begin, LogonGate, AckStart, ValidateStart, RenewStart, PasswordRead,
     DeleteRead, Start, TypeOK
<1>2. ASSUME NEW r \in Requests, NEW p \in Pairs, LogonIssue(r, p) \/ RenewIssue(r, p)
      PROVE  Quiet(r)
  BY <1>2, <1>t DEF LogonIssue, RenewIssue, Finish, Move, TypeOK
<1>3. ASSUME NEW r \in Requests, NEW d \in BOOLEAN, RenewWon(r, d) PROVE Quiet(r)
  BY <1>3, <1>t DEF RenewWon, Finish, Move, TypeOK
<1>4. ASSUME NEW r \in Requests,
             \/ AckUpsert(r) \/ ValidateSession(r) \/ ValidateAccount(r) \/ ValidateReply(r)
             \/ RenewRefused(r) \/ RenewLost(r)
      PROVE  Quiet(r)
  BY <1>4, <1>t DEF AckUpsert, ValidateSession, ValidateAccount, ValidateReply, RenewRefused,
     RenewLost, Finish, Move, TypeOK
<1>5. ASSUME NEW r \in Requests, Quiet(r), Begin(r) \/ Continue(r), NEW q \in Requests,
             pc[q] \in Committing \/ pc'[q] \in Committing
      PROVE  pc'[q] = pc[q] /\ job'[q] = job[q]
  BY <1>5, <1>t, OthersKeep
<1>6. CASE ~ \E r \in Requests : Begin(r) \/ Continue(r) \/ Abort(r)
  BY <1>6, OtherSteps
<1>7. ASSUME NEW r \in Requests, Begin(r) \/ Continue(r)
      PROVE  Quiet(r) \/ ChangeStatements(r) \/ ChangeCommit(r)
  BY <1>7, <1>1, <1>2, <1>3, <1>4, ChangeSteps DEF Continue, ChangeStep
<1> QED BY <1>5, <1>6, <1>7

(* What the statements, the commit and the rollback of a transaction do.   *)
LEMMA StatementsDo ==
    ASSUME IInv, NEW r \in Requests, ChangeStatements(r)
    PROVE  /\ job[r].about \in Account
           /\ pc'[r] \in Committing /\ job' = job
           /\ \A q \in Requests : q # r => pc'[q] = pc[q]
           /\ \A q \in Requests : pc[q] \in Committing => job[q].about # job[r].about
           /\ locked' = locked \cup {s \in SlotsOf(job[r].about) : holder[s] # None}
           /\ begun' = [begun EXCEPT ![job[r].about] = @ + 1]
           /\ UNCHANGED <<holder, anchor, changes>>
BY DEF IInv, TypeOK, JobsTyped, OnAccount, ChangeStatements, Statements, Move

LEMMA CommitDoes ==
    ASSUME IInv, NEW r \in Requests, ChangeCommit(r)
    PROVE  /\ job[r].about \in Account
           /\ pc[r] \in Committing /\ pc'[r] = "idle"
           /\ \A q \in Requests : q # r => pc'[q] = pc[q] /\ job'[q] = job[q]
           /\ locked' = locked \ SlotsOf(job[r].about)
           /\ changes' = [changes EXCEPT ![job[r].about] = begun[job[r].about]]
           /\ DropSessions(locked \cap SlotsOf(job[r].about))
           /\ UNCHANGED begun
BY DEF IInv, TypeOK, JobsTyped, OnAccount, ChangeCommit, Commit, Finish, Move, Unlock

LEMMA AbortDoes ==
    ASSUME IInv, NEW r \in Requests, Abort(r)
    PROVE  /\ pc'[r] = "idle"
           /\ \A q \in Requests : q # r => pc'[q] = pc[q] /\ job'[q] = job[q]
           /\ \/ pc[r] \in Committing /\ locked' = locked \ SlotsOf(job[r].about)
              \/ pc[r] \notin Committing /\ locked' = locked
           /\ UNCHANGED <<holder, anchor, begun, changes>>
BY DEF IInv, TypeOK, Abort, Finish, Move, Unlock, history

LEMMA OneTransactionStep == IInv /\ [Next]_vars => OneTransaction'
<1> SUFFICES ASSUME IInv, [Next]_vars, NEW q \in Requests, NEW o \in Requests \ {q},
                    pc'[q] \in Committing, pc'[o] \in Committing
             PROVE  job'[o].about # job'[q].about
  BY DEF OneTransaction
<1> USE DEF Committing
<1>1. OneTransaction
  BY DEF IInv
<1>2. ASSUME NEW r \in Requests, ChangeStatements(r) PROVE job'[o].about # job'[q].about
  <2>1. \A x \in {q, o} \ {r} : pc[x] \in Committing
    BY <1>2, StatementsDo
  <2>2. CASE r \in {q, o}
    BY <1>2, <2>1, <2>2, StatementsDo
  <2>3. CASE r \notin {q, o}
    BY <1>1, <1>2, <2>1, <2>3, StatementsDo DEF OneTransaction
  <2> QED BY <2>2, <2>3
<1>3. ASSUME NEW r \in Requests, ChangeCommit(r) \/ Abort(r)
      PROVE  job'[o].about # job'[q].about
  <2>1. r # q /\ r # o
    BY <1>3, CommitDoes, AbortDoes
  <2>2. \A x \in {q, o} : pc'[x] = pc[x] /\ job'[x] = job[x]
    BY <1>3, <2>1, CommitDoes, AbortDoes
  <2> QED BY <1>1, <2>2 DEF OneTransaction
<1>4. CASE \A x \in Requests : pc'[x] \in Committing => pc'[x] = pc[x] /\ job'[x] = job[x]
  BY <1>1, <1>4 DEF OneTransaction
<1> QED BY <1>2, <1>3, <1>4, TransactionCases

LEMMA LocksStep == IInv /\ [Next]_vars => LocksOwned'
<1> SUFFICES ASSUME IInv, [Next]_vars, NEW s \in locked'
             PROVE  \E x \in Requests : pc'[x] \in Committing /\ job'[x].about = AccountOf(s)
  BY DEF LocksOwned
<1> DEFINE Owned == \E x \in Requests : pc'[x] \in Committing /\ job'[x].about = AccountOf(s)
<1>1. LocksOwned /\ TypeOK
  BY DEF IInv
<1>2. ASSUME NEW r \in Requests, ChangeStatements(r) PROVE Owned
  <2>1. CASE s \in SlotsOf(job[r].about)
    BY <1>2, <2>1, StatementsDo DEF SlotsOf
  <2>2. CASE s \in locked
    <3>1. PICK x \in Requests : pc[x] \in Committing /\ job[x].about = AccountOf(s)
      BY <1>1, <2>2 DEF LocksOwned
    <3> QED BY <1>2, <3>1, StatementsDo
  <2> QED BY <1>2, <2>1, <2>2, StatementsDo
<1>3. ASSUME NEW r \in Requests, ChangeCommit(r) \/ Abort(r) PROVE Owned
  <2>1. s \in locked /\ s \in Slot
    BY <1>1, <1>3, CommitDoes, AbortDoes DEF TypeOK
  <2>2. PICK x \in Requests : pc[x] \in Committing /\ job[x].about = AccountOf(s)
    BY <1>1, <2>1 DEF LocksOwned
  <2>3. x # r
    BY <1>3, <2>1, <2>2, CommitDoes, AbortDoes DEF SlotsOf
  <2> QED BY <1>3, <2>2, <2>3, CommitDoes, AbortDoes
<1>4. CASE /\ UNCHANGED locked
           /\ \A q \in Requests : pc[q] \in Committing => pc'[q] = pc[q] /\ job'[q] = job[q]
  BY <1>1, <1>4 DEF LocksOwned
<1> QED BY <1>2, <1>3, <1>4, TransactionCases

LEMMA BegunStep == IInv /\ [Next]_vars => ChangesBegun'
<1> SUFFICES ASSUME IInv, [Next]_vars, NEW a \in Account PROVE changes'[a] <= begun'[a]
  BY DEF ChangesBegun
<1>1. changes[a] <= begun[a] /\ TypeOK
  BY DEF IInv, ChangesBegun
<1>2. ASSUME NEW r \in Requests, ChangeStatements(r) PROVE changes'[a] <= begun'[a]
  BY <1>1, <1>2, StatementsDo DEF TypeOK
<1>3. ASSUME NEW r \in Requests, ChangeCommit(r) PROVE changes'[a] <= begun'[a]
  <2>1. changes' = [changes EXCEPT ![job[r].about] = begun[job[r].about]] /\ begun' = begun
    BY <1>3, CommitDoes
  <2>2. changes'[a] = changes[a] \/ changes'[a] = begun[a]
    BY <1>1, <2>1 DEF TypeOK
  <2>3. begun[a] \in Nat
    BY <1>1 DEF TypeOK
  <2> QED BY <1>1, <2>1, <2>2, <2>3
<1>4. ASSUME NEW r \in Requests, Abort(r) PROVE changes'[a] <= begun'[a]
  BY <1>1, <1>4, AbortDoes
<1> QED BY <1>1, <1>2, <1>3, <1>4, TransactionCases

(* The heart of the matter: a transaction misses only sessions that were   *)
(* acknowledged while it ran.                                              *)
LEMMA UnlockedStep == IInv /\ [Next]_vars => UnlockedAreNew'
<1> SUFFICES ASSUME IInv, [Next]_vars, NEW q \in Requests, pc'[q] \in Committing,
                    NEW s \in Slot, AccountOf(s) = job'[q].about,
                    s \notin locked', holder'[s] # None
             PROVE  anchor'[s] >= begun'[AccountOf(s)]
  BY DEF UnlockedAreNew, SlotsOf
<1> DEFINE New == anchor'[s] >= begun'[AccountOf(s)]
<1>t. TypeOK /\ OneTransaction /\ AccountOf(s) \in Account
  BY SlotFacts DEF IInv
<1>i. ASSUME pc[q] \in Committing, job[q].about = AccountOf(s), s \notin locked, holder[s] # None
      PROVE  anchor[s] >= begun[AccountOf(s)]
  BY <1>i DEF IInv, UnlockedAreNew, SlotsOf
<1>1. ASSUME NEW r \in Requests, ChangeStatements(r) PROVE New
  <2>1. q # r /\ job[r].about # AccountOf(s)
    BY <1>1, StatementsDo DEF SlotsOf
  <2> QED BY <1>1, <1>i, <1>t, <2>1, StatementsDo DEF TypeOK
<1>2. ASSUME NEW r \in Requests, ChangeCommit(r) PROVE New
  <2>1. q # r
    BY <1>2, CommitDoes DEF Committing
  <2>2. pc[q] \in Committing /\ job[q].about = AccountOf(s) /\ job[r].about # AccountOf(s)
    <3>1. pc[q] \in Committing /\ pc[r] \in Committing /\ job[q].about = AccountOf(s)
      BY <1>2, <2>1, CommitDoes
    <3> QED BY <1>t, <2>1, <3>1 DEF OneTransaction
  <2>3. s \notin locked /\ s \notin locked \cap SlotsOf(job[r].about)
    BY <1>2, <2>2, CommitDoes DEF SlotsOf
  <2> QED BY <1>2, <1>i, <1>t, <2>2, <2>3, CommitDoes, DropKeepsOrEmpties DEF Kept
<1>3. ASSUME NEW r \in Requests, Abort(r) PROVE New
  <2>1. q # r
    BY <1>3, AbortDoes DEF Committing
  <2>2. pc[q] \in Committing /\ job[q].about = AccountOf(s)
    BY <1>3, <2>1, AbortDoes
  <2>3. pc[r] \in Committing => job[r].about # AccountOf(s)
    BY <1>t, <2>1, <2>2 DEF OneTransaction
  <2>4. s \notin locked
    BY <1>3, <2>3, AbortDoes DEF SlotsOf
  <2> QED BY <1>3, <1>i, <2>2, <2>4, AbortDoes
<1>4. CASE UNCHANGED <<locked, begun>> /\ pc'[q] = pc[q] /\ job'[q] = job[q]
  <2>1. ASSUME Kept(s) PROVE New
    BY <1>4, <1>i, <2>1 DEF Kept
  <2>2. ASSUME NEW r \in Requests, AckUpsert(r), job[r].about = s PROVE New
    BY <1>4, <1>t, <2>2, AckPuts DEF TypeOK
  <2>3. ASSUME NEW r \in Requests, NEW d \in BOOLEAN, RenewWon(r, d), job[r].about = s PROVE New
    BY <1>4, <1>i, <1>t, <2>3, RenewPuts, NoneAssumption DEF TypeOK
  <2> QED BY <2>1, <2>2, <2>3, SessionCases
<1> QED BY <1>1, <1>2, <1>3, <1>4, TransactionCases

LEMMA AnchorStep == IInv /\ [Next]_vars => AnchoredAfterChange'
<1> SUFFICES ASSUME IInv, [Next]_vars, NEW s \in Slot, holder'[s] # None
             PROVE  anchor'[s] >= changes'[AccountOf(s)]
  BY DEF AnchoredAfterChange
<1> DEFINE Anchored1 == anchor'[s] >= changes'[AccountOf(s)]
<1>t. TypeOK /\ UnlockedAreNew /\ AccountOf(s) \in Account /\ s \in SlotsOf(AccountOf(s))
  BY SlotFacts DEF IInv
<1>i. holder[s] # None => anchor[s] >= changes[AccountOf(s)]
  BY DEF IInv, AnchoredAfterChange
<1>b. changes[AccountOf(s)] <= begun[AccountOf(s)]
  BY <1>t DEF IInv, ChangesBegun
<1>1. ASSUME NEW r \in Requests, ChangeCommit(r) PROVE Anchored1
  <2>1. /\ s \notin locked \cap SlotsOf(job[r].about)
        /\ holder'[s] = holder[s] /\ anchor'[s] = anchor[s]
    BY <1>1, <1>t, CommitDoes, DropKeepsOrEmpties DEF Kept
  <2>2. CASE job[r].about = AccountOf(s)
    BY <1>1, <1>t, <2>1, <2>2, CommitDoes DEF UnlockedAreNew, TypeOK
  <2>3. CASE job[r].about # AccountOf(s)
    BY <1>1, <1>i, <1>t, <2>1, <2>3, CommitDoes DEF TypeOK
  <2> QED BY <2>2, <2>3
<1>2. ASSUME NEW r \in Requests, ChangeStatements(r) \/ Abort(r) PROVE Anchored1
  BY <1>2, <1>i, StatementsDo, AbortDoes
<1>3. CASE UNCHANGED changes
  <2>1. ASSUME NEW r \in Requests, AckUpsert(r), job[r].about = s PROVE Anchored1
    BY <1>3, <1>b, <1>t, <2>1, AckPuts DEF TypeOK
  <2>2. ASSUME NEW r \in Requests, NEW d \in BOOLEAN, RenewWon(r, d), job[r].about = s
        PROVE  Anchored1
    BY <1>3, <1>i, <1>t, <2>2, RenewPuts, NoneAssumption DEF TypeOK
  <2> QED BY <1>3, <1>i, <2>1, <2>2, SessionCases DEF Kept
<1> QED BY <1>1, <1>2, <1>3, TransactionCases

-----------------------------------------------------------------------------
(* Validate: what the first read saw is still true, or the second one      *)
(* refuses, because no step brings a deleted account back.                 *)
LEMMA DeletionIsForGood == [Next]_vars => deleted \subseteq deleted'
<1> SUFFICES ASSUME [Next]_vars PROVE deleted \subseteq deleted'
  OBVIOUS
<1> USE DEF tables
<1>1. ASSUME NEW r \in Requests, Begin(r) \/ Abort(r) PROVE deleted \subseteq deleted'
  BY <1>1
     DEF Begin, LogonGate, AckStart, ValidateStart, RenewStart, PasswordRead, DeleteRead, Abort
<1>2. ASSUME NEW r \in Requests, Continue(r) PROVE deleted \subseteq deleted'
  <2>1. CASE ChangeStep(r)
    BY <2>1, ChangeSteps
  <2>2. CASE ~ ChangeStep(r)
    BY <1>2, <2>2
       DEF Continue, LogonIssue, RenewIssue, AckUpsert, ValidateSession, ValidateAccount,
           ValidateReply, RenewRefused, RenewLost, RenewWon, ChangeStep
  <2> QED BY <2>1, <2>2
<1> QED BY <1>1, <1>2, OtherSteps DEF Next, vars, RevokeClient, RevokeAll, Sweep, Tick

LEMMA ValidateStep == IInv /\ [Next]_vars => SeenStillHolds' /\ ValidateJustified'
<1> SUFFICES ASSUME IInv, [Next]_vars, NEW q \in Requests
             PROVE  /\ pc'[q] = "validateAccount" =>
                         job'[q].seen = 1 \/ AccountOf(job'[q].about) \notin Registered \ deleted'
                    /\ pc'[q] = "accepted" => job'[q].seen = 1
  BY DEF SeenStillHolds, ValidateJustified, LiveAccount
<1> DEFINE Fine == /\ pc'[q] = "validateAccount" =>
                         job'[q].seen = 1 \/ AccountOf(job'[q].about) \notin Registered \ deleted'
                   /\ pc'[q] = "accepted" => job'[q].seen = 1
<1>t. TypeOK
  BY DEF IInv
<1>v. /\ pc[q] = "validateAccount" =>
           job[q].seen = 1 \/ AccountOf(job[q].about) \notin Registered \ deleted
      /\ pc[q] = "accepted" => job[q].seen = 1
  BY DEF IInv, SeenStillHolds, ValidateJustified, LiveAccount
<1>k. ASSUME pc'[q] = pc[q], job'[q] = job[q] PROVE Fine
  BY <1>k, <1>v, DeletionIsForGood
<1>1. CASE ~ \E r \in Requests : Begin(r) \/ Continue(r) \/ Abort(r)
  BY <1>1, <1>k, OtherSteps
<1>2. ASSUME NEW r \in Requests, Begin(r) \/ Continue(r) \/ Abort(r), r # q PROVE Fine
  BY <1>2, <1>t, <1>k, OthersKeep
<1>3. CASE Begin(q) \/ Abort(q)
  <2>1. pc'[q] \notin {"validateAccount", "accepted"}
    BY <1>3, <1>t DEF Begin, LogonGate, AckStart, ValidateStart, RenewStart, PasswordRead,
       DeleteRead, Abort, Start, Finish, Move, TypeOK
  <2> QED BY <2>1
<1>4. CASE ValidateSession(q)
  BY <1>4, <1>t DEF ValidateSession, Finish, Move, LiveAccount, TypeOK, Job, tables
<1>5. CASE ValidateAccount(q)
  BY <1>5, <1>t, <1>v DEF ValidateAccount, Finish, Move, LiveAccount, TypeOK
<1>6. ASSUME \/ \E p \in Pairs : LogonIssue(q, p) \/ RenewIssue(q, p)
             \/ \E d \in BOOLEAN : RenewWon(q, d)
             \/ AckUpsert(q) \/ ValidateReply(q) \/ RenewRefused(q) \/ RenewLost(q)
      PROVE  Fine
  <2>1. pc'[q] \notin {"validateAccount", "accepted"}
    BY <1>6, <1>t DEF LogonIssue, RenewIssue, RenewWon, AckUpsert, ValidateReply, RenewRefused,
       RenewLost, Finish, Move, TypeOK
  <2> QED BY <2>1
<1>7. ASSUME ChangeStatements(q) \/ ChangeCommit(q) PROVE Fine
  <2>1. pc'[q] \notin {"validateAccount", "accepted"}
    BY <1>7, StatementsDo, CommitDoes DEF Committing
  <2> QED BY <2>1
<1> QED BY <1>1, <1>2, <1>3, <1>4, <1>5, <1>6, <1>7, ChangeSteps DEF Continue, ChangeStep

-----------------------------------------------------------------------------
(* The invariant of authn: types, and every relation above, hold in every  *)
(* reachable state, whatever the number of clients, tokens and requests.   *)
THEOREM Invariant == Spec => []IInv
<1>1. IInv /\ [Next]_vars => IInv'
  BY TypeStep, JobsStep, MintedStep, KnownStep, ArmedStep, MatchStep, OneTransactionStep,
     LocksStep, BegunStep, UnlockedStep, AnchorStep, ValidateStep
     DEF IInv
<1> QED BY InitInv, <1>1, PTL DEF Spec

(* Every session row agrees with the token it stands for: Upsert and       *)
(* Rotate write it for the token's own tenant, subject, client and expiry. *)
THEOREM SessionsMatch == Spec => []SessionMatchesToken
<1>1. IInv => SessionMatchesToken
  BY DEF IInv
<1> QED BY Invariant, <1>1, PTL

(* UpdatePassword, Reset and Delete end every session, and no renewal that *)
(* was under way carries one across: what exists was acknowledged since.   *)
THEOREM Anchored == Spec => []AnchoredAfterChange
<1>1. IInv => AnchoredAfterChange
  BY DEF IInv
<1> QED BY Invariant, <1>1, PTL

(* Validate accepts only if the session and the live account coexisted.    *)
THEOREM Justified == Spec => []ValidateJustified
<1>1. IInv => ValidateJustified
  BY DEF IInv
<1> QED BY Invariant, <1>1, PTL

(* Renew: concurrent renewals of one refresh token have one winner for     *)
(* each time the token was put in place.                                   *)
THEOREM OneWinner == Spec => RenewOnce
<1>1. ASSUME IInv, NEW r \in Requests, NEW d \in BOOLEAN, RenewWon(r, d)
      PROVE  job[r].given \in armed
  <2>1. job[r].about \in Slot /\ job[r].given \in Pairs
    BY <1>1 DEF IInv, TypeOK, JobsTyped, OnSlot, Presenting, RenewWon, Finish, Move
  <2>2. holder[job[r].about] = job[r].given
    BY <1>1 DEF RenewWon, Rotated
  <2> QED BY <1>1, <2>1, <2>2, NoneAssumption DEF IInv, HolderArmed
<1>2. IInv => [\A r \in Requests, delivered \in BOOLEAN :
                 RenewWon(r, delivered) => job[r].given \in armed]_vars
  BY <1>1
<1> QED BY Invariant, <1>2, PTL DEF Spec, RenewOnce

-----------------------------------------------------------------------------
(* The session store implements the register: every step of the service is *)
(* an issue, a withdrawal, a grant, an exchange, an end, or invisible.     *)
LEMMA RegisterStep ==
    ASSUME IInv, [Next]_vars
    PROVE  [Register!Next]_<<owner, held, holder>>
<1> USE NoneAssumption DEF tables, tokens, history
<1>t. TypeOK /\ JobsTyped /\ MintedPrivate /\ HolderArmed
  BY DEF IInv
<1> DEFINE Simulated == Register!Next \/ UNCHANGED <<owner, held, holder>>
<1>1. ASSUME NEW r \in Requests, NEW p \in Pairs, LogonIssue(r, p) \/ RenewIssue(r, p)
      PROVE  Simulated
  <2>1. job[r].about \in Slot
    BY <1>1, <1>t DEF LogonIssue, RenewIssue, Finish, Move, JobsTyped, OnSlot
  <2>2. Register!Issue(p, job[r].about)
    BY <1>1, <2>1 DEF LogonIssue, RenewIssue, Mint, Register!Issue
  <2> QED BY <2>1, <2>2 DEF Register!Next
<1>2. ASSUME NEW r \in Requests, RenewLost(r) \/ Abort(r) PROVE Simulated
  <2>1. CASE UNCHANGED <<owner, held, holder>>
    BY <2>1
  <2>2. CASE pc[r] = "renewRotate" /\ Forget(job[r].minted) /\ UNCHANGED <<held, holder>>
    <3>1. /\ job[r].minted \in Pairs
          /\ job[r].minted \notin armed /\ job[r].minted \notin held
      BY <2>2, <1>t DEF MintedPrivate
    <3>2. \A s \in Slot : holder[s] # job[r].minted
      BY <3>1, <1>t DEF HolderArmed
    <3>3. Register!Withdraw(job[r].minted)
      BY <2>2, <3>1, <3>2 DEF Forget, Register!Withdraw
    <3> QED BY <3>1, <3>3 DEF Register!Next
  <2> QED BY <1>2, <2>1, <2>2 DEF RenewLost, Abort, Finish, Move
<1>3. ASSUME NEW r \in Requests, AckUpsert(r) PROVE Simulated
  <2>1. /\ job[r].about \in Slot /\ job[r].given \in Pairs /\ owner[job[r].given] = job[r].about
        /\ job[r].given \in held
    BY <1>3, <1>t DEF AckUpsert, Finish, Move, JobsTyped, OnSlot, Presenting, TypeOK
  <2>2. Register!Grant(job[r].about, job[r].given)
    BY <1>3, <2>1 DEF AckUpsert, PutSession, Register!Grant
  <2> QED BY <2>1, <2>2 DEF Register!Next
<1>4. ASSUME NEW r \in Requests, NEW d \in BOOLEAN, RenewWon(r, d) PROVE Simulated
  <2>1. /\ job[r].about \in Slot /\ job[r].given \in Pairs /\ job[r].minted \in Pairs
        /\ owner[job[r].minted] = job[r].about
        /\ job[r].given \in held /\ job[r].minted \notin held
    BY <1>4, <1>t
       DEF RenewWon, Finish, Move, JobsTyped, OnSlot, Presenting, MintedPrivate, TypeOK
  <2>2. Register!Exchange(job[r].about, job[r].given, job[r].minted)
    BY <1>4, <2>1 DEF RenewWon, Rotated, Register!Exchange
  <2> QED BY <2>1, <2>2 DEF Register!Next
<1>5. ASSUME NEW S, DropSessions(S), UNCHANGED <<owner, held>> PROVE Simulated
  <2>1. Register!End(S \cap Slot)
    BY <1>5 DEF DropSessions, Register!End
  <2> QED BY <2>1 DEF Register!Next
<1>6. ASSUME \/ \E r \in Requests : ChangeCommit(r)
             \/ \E s \in Slot : RevokeClient(s)
             \/ \E a \in Account : RevokeAll(a)
             \/ Sweep
      PROVE  (\E S : DropSessions(S)) /\ UNCHANGED <<owner, held>>
  BY <1>6 DEF ChangeCommit, Commit, RevokeClient, RevokeAll, Sweep
<1>7. ASSUME NEW r \in Requests,
             \/ Begin(r) \/ ValidateSession(r) \/ ValidateAccount(r) \/ ValidateReply(r)
             \/ RenewRefused(r) \/ ChangeStatements(r)
      PROVE  UNCHANGED <<owner, held, holder>>
  BY <1>7 DEF Begin, LogonGate, AckStart, ValidateStart, RenewStart, PasswordRead, DeleteRead,
     ValidateSession, ValidateAccount, ValidateReply, RenewRefused, ChangeStatements, Statements
<1>8. ASSUME Tick \/ UNCHANGED vars PROVE UNCHANGED <<owner, held, holder>>
  BY <1>8 DEF Tick, vars
<1> QED
  BY <1>1, <1>2, <1>3, <1>4, <1>5, <1>6, <1>7, <1>8, ChangeSteps
     DEF Next, Continue, ChangeStep

(* So the guarantees of RefreshRegister are guarantees of the service: an  *)
(* empty slot is filled by an acknowledge only, and a renewal only ever    *)
(* trades the token that holds the slot.                                   *)
THEOREM Implements == Spec => ImplementsRegister
<1>1. Init => Register!Init
  BY DEF Init, Register!Init
<1>2. IInv /\ [Next]_vars => [Register!Next]_<<owner, held, holder>>
  BY RegisterStep
<1> QED BY Invariant, <1>1, <1>2, PTL DEF Spec, ImplementsRegister, Register!Spec, Register!rvars
=============================================================================
