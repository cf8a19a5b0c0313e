--------------------------- MODULE TokenSessions ---------------------------
(***************************************************************************)
(* The token sessions of an: logon, acknowledge, validate, renew and       *)
(* revoke, against the sessions table, while passwords change and accounts *)
(* are deleted.                                                            *)
(*                                                                         *)
(* Every HTTP request is a goroutine that runs one database statement at   *)
(* a time; an action is one such statement together with the in-memory     *)
(* work up to the next one.  A transaction is its statements, then its     *)
(* commit: READ COMMITTED lets others run in between, and makes them wait  *)
(* only for the rows it has written.  A client may present any             *)
(* token it was ever given, as often and as late as it likes, which covers *)
(* retries, duplicated and delayed calls.  Lockout and the checking of     *)
(* reset tokens and codes are other components: here a logon is one whose  *)
(* password matched, a reset one whose token did.                          *)
(***************************************************************************)
EXTENDS Naturals

CONSTANTS
    Tenants, Emails, Clients,
    Registered,   \* the accounts that were ever registered and verified
    Pairs,        \* token pairs that can exist: one access and one refresh token each
    Requests,     \* requests in flight at the same time
    None,
    AccessTTL, RefreshTTL,
    Horizon,      \* bound: no pair is minted after this instant
    MaxClock,     \* bound: the clock stops here
    MaxChanges    \* bound: credential-change transactions per account

Account == [tenant : Tenants, email : Emails]
Slot    == [tenant : Tenants, email : Emails, client : Clients]

AccountOf(s)   == [tenant |-> s.tenant, email |-> s.email]
SlotsOf(a)     == {s \in Slot : AccountOf(s) = a}
SlotAt(t, s)   == [tenant |-> t, email |-> s.email, client |-> s.client]

ASSUME NoneAssumption ==
    None \notin Pairs /\ None \notin Slot /\ None \notin Account

ASSUME RegisteredAssumption == Registered \subseteq Account

ASSUME BoundsAssumption ==
    /\ AccessTTL \in Nat /\ RefreshTTL \in Nat
    /\ Horizon \in Nat /\ MaxClock \in Nat /\ MaxChanges \in Nat

VARIABLES
    clock,
    deleted,      \* accounts.deleted
    holder,       \* sessions.refresh_jti by (tenant, email, client), None without a row
    expires,      \* sessions.expires, 0 without a row
    locked,       \* the session rows deleted by a transaction that has not committed
    owner,        \* the tenant, subject and client claims of each minted pair
    iat,          \* when it was minted
    held,         \* the pairs some client has received
    pc, job,      \* where each request stands, and its local variables
    \* The rest only records history; no action reads it.
    begun,        \* credential-change transactions of an account that ran their DELETE
    changes,      \* the last of them that committed
    anchor,       \* what `begun` was when a slot's session was last acknowledged
    armed,        \* refresh tokens put in place since they last won a renewal
    spent         \* refresh tokens that ever won a renewal

tables  == <<deleted, holder, expires, locked>>
tokens  == <<owner, iat, held>>
history == <<begun, changes, anchor, armed, spent>>
vars    == <<clock, tables, tokens, pc, job, history>>

Job == [about : Slot \cup Account \cup {None}, given : Pairs \cup {None},
        minted : Pairs \cup {None}, seen : Nat]

NoJob == [about |-> None, given |-> None, minted |-> None, seen |-> 0]

Steps == {"idle", "ackUpsert", "validateSession", "validateAccount", "accepted",
          "renewAccount", "renewRotate", "logonIssue", "passwordTx", "passwordCommit",
          "deleteTx", "deleteCommit"}

Committing == {"passwordCommit", "deleteCommit"}

TypeOK ==
    /\ clock \in Nat
    /\ deleted \in SUBSET Account
    /\ holder \in [Slot -> Pairs \cup {None}]
    /\ expires \in [Slot -> Nat]
    /\ locked \in SUBSET Slot
    /\ owner \in [Pairs -> Slot \cup {None}]
    /\ iat \in [Pairs -> Nat]
    /\ held \in SUBSET Pairs
    /\ pc \in [Requests -> Steps]
    /\ job \in [Requests -> Job]
    /\ begun \in [Account -> Nat]
    /\ changes \in [Account -> Nat]
    /\ anchor \in [Slot -> Nat]
    /\ armed \in SUBSET Pairs
    /\ spent \in SUBSET Pairs

Init ==
    /\ clock = 0
    /\ deleted = {}
    /\ holder = [s \in Slot |-> None]
    /\ expires = [s \in Slot |-> 0]
    /\ locked = {}
    /\ owner = [p \in Pairs |-> None]
    /\ iat = [p \in Pairs |-> 0]
    /\ held = {}
    /\ pc = [r \in Requests |-> "idle"]
    /\ job = [r \in Requests |-> NoJob]
    /\ begun = [a \in Account |-> 0]
    /\ changes = [a \in Account |-> 0]
    /\ anchor = [s \in Slot |-> 0]
    /\ armed = {}
    /\ spent = {}

-----------------------------------------------------------------------------
(* Tokens: jwt validity, and what the services read before they act.       *)

ValidForever(p, ttl) == p \in held
Valid(p, ttl)      == p \in held /\ clock < iat[p] + ttl
AccessValid(p)     == Valid(p, AccessTTL)
RefreshValid(p)    == Valid(p, RefreshTTL)
RefreshExpiry(p)   == iat[p] + RefreshTTL
LiveAccount(a)     == a \in Registered \ deleted

AnyTenant(t, p) == TRUE
SameTenant(t, p) == owner[p].tenant = t

Start(r, step, j) ==
    /\ pc[r] = "idle"
    /\ pc' = [pc EXCEPT ![r] = step]
    /\ job' = [job EXCEPT ![r] = j]

Move(r, from, to) ==
    /\ pc[r] = from
    /\ pc' = [pc EXCEPT ![r] = to]

Finish(r, from) ==
    /\ Move(r, from, "idle")
    /\ job' = [job EXCEPT ![r] = NoJob]

(* issue mints a pair for a slot; the session store is not touched.        *)
Mint(p, s) ==
    /\ clock <= Horizon
    /\ owner[p] = None
    /\ owner' = [owner EXCEPT ![p] = s]
    /\ iat' = [iat EXCEPT ![p] = clock]

(* DELETE of session rows: the slots in S have no session afterwards.      *)
DropSessions(S) ==
    /\ holder' = [s \in Slot |-> IF s \in S THEN None ELSE holder[s]]
    /\ expires' = [s \in Slot |-> IF s \in S THEN 0 ELSE expires[s]]
    /\ anchor' = [s \in Slot |-> IF s \in S THEN 0 ELSE anchor[s]]

PutSessionSignError(s, p) ==
    /\ holder' = [holder EXCEPT ![s] = p]
    /\ expires' = [expires EXCEPT ![s] = iat[p] - RefreshTTL]
    /\ armed' = armed \cup {p}

PutSession(s, p) ==
    /\ holder' = [holder EXCEPT ![s] = p]
    /\ expires' = [expires EXCEPT ![s] = RefreshExpiry(p)]
    /\ armed' = armed \cup {p}

-----------------------------------------------------------------------------
(* Authenticate: the account is read and its hash compared, the counter    *)
(* cleared, then a pair is minted and returned.                            *)

LogonGate(r, s) ==
    /\ LiveAccount(AccountOf(s))
    /\ Start(r, "logonIssue", [NoJob EXCEPT !.about = s])
    /\ UNCHANGED <<clock, tables, tokens, history>>

LogonIssue(r, p) ==
    /\ Finish(r, "logonIssue")
    /\ Mint(p, job[r].about)
    /\ held' = held \cup {p}
    /\ UNCHANGED <<clock, tables, history>>

(* Acknowledge: both tokens valid, of the caller's tenant and of one       *)
(* subject and client; they need not come from the same pair.              *)

AckStart(r, t, a, f) ==
    /\ AccessValid(a) /\ RefreshValid(f)
    /\ SameTenant(t, a) /\ SameTenant(t, f)
    /\ owner[a].client = owner[f].client /\ owner[a].email = owner[f].email
    /\ Start(r, "ackUpsert", [NoJob EXCEPT !.about = SlotAt(t, owner[f]), !.given = f])
    /\ UNCHANGED <<clock, tables, tokens, history>>

AckUpsert(r) ==
    LET s == job[r].about IN
    /\ Finish(r, "ackUpsert")
    /\ s \notin locked
    /\ PutSession(s, job[r].given)
    /\ anchor' = [anchor EXCEPT ![s] = begun[AccountOf(s)]]
    /\ UNCHANGED <<clock, deleted, locked, tokens, begun, changes, spent>>

(* Validate: the token, then the session row, then the account row.        *)

ValidateStart(r, t, a) ==
    /\ AccessValid(a)
    /\ SameTenant(t, a)
    /\ Start(r, "validateSession", [NoJob EXCEPT !.about = SlotAt(t, owner[a])])
    /\ UNCHANGED <<clock, tables, tokens, history>>

(* `seen` records whether the session and a live account exist right now.  *)
ValidateSession(r) ==
    LET s == job[r].about IN
    /\ \/ /\ Finish(r, "validateSession")
          /\ holder[s] = None
       \/ /\ Move(r, "validateSession", "validateAccount")
          /\ holder[s] # None
          /\ job' = [job EXCEPT ![r].seen = IF LiveAccount(AccountOf(s)) THEN 1 ELSE 0]
    /\ UNCHANGED <<clock, tables, tokens, history>>

ValidateAccountUnread(r) ==
    /\ Move(r, "validateAccount", "accepted")
    /\ UNCHANGED <<clock, tables, tokens, history, job>>

ValidateAccount(r) ==
    /\ \/ /\ Move(r, "validateAccount", "accepted")
          /\ LiveAccount(AccountOf(job[r].about))
          /\ UNCHANGED job
       \/ /\ Finish(r, "validateAccount")
          /\ ~ LiveAccount(AccountOf(job[r].about))
    /\ UNCHANGED <<clock, tables, tokens, history>>

ValidateReply(r) ==
    /\ Finish(r, "accepted")
    /\ UNCHANGED <<clock, tables, tokens, history>>

(* Renew: the token, then the account row, then a new pair is minted in    *)
(* memory, then one conditional UPDATE rotates the session.                *)

RenewStart(r, t, f) ==
    /\ RefreshValid(f)
    /\ SameTenant(t, f)
    /\ Start(r, "renewAccount", [NoJob EXCEPT !.about = SlotAt(t, owner[f]), !.given = f])
    /\ UNCHANGED <<clock, tables, tokens, history>>

RenewRefused(r) ==
    /\ Finish(r, "renewAccount")
    /\ ~ LiveAccount(AccountOf(job[r].about))
    /\ UNCHANGED <<clock, tables, tokens, history>>

RenewIssue(r, p) ==
    /\ Move(r, "renewAccount", "renewRotate")
    /\ LiveAccount(AccountOf(job[r].about))
    /\ Mint(p, job[r].about)
    /\ job' = [job EXCEPT ![r].minted = p]
    /\ UNCHANGED <<clock, tables, held, history>>

RotatedAnyToken(r) == holder[job[r].about] # None
RotatedAsUpsert(r) == TRUE
Rotated(r) == holder[job[r].about] = job[r].given

(* The rotation won.  The response reaches the client, or it is lost.      *)
RenewWon(r, delivered) ==
    /\ Finish(r, "renewRotate")
    /\ job[r].about \notin locked
    /\ Rotated(r)
    /\ holder' = [holder EXCEPT ![job[r].about] = job[r].minted]
    /\ expires' = [expires EXCEPT ![job[r].about] = RefreshExpiry(job[r].minted)]
    /\ armed' = (armed \ {job[r].given}) \cup {job[r].minted}
    /\ spent' = spent \cup {job[r].given}
    /\ held' = IF delivered THEN held \cup {job[r].minted} ELSE held
    /\ UNCHANGED <<clock, deleted, locked, owner, iat, begun, changes, anchor>>

(* A minted pair that no client ever received leaves no trace.             *)
Forget(p) ==
    /\ owner' = [owner EXCEPT ![p] = None]
    /\ iat' = [iat EXCEPT ![p] = 0]

RenewLost(r) ==
    /\ Finish(r, "renewRotate")
    /\ job[r].about \notin locked
    /\ ~ Rotated(r)
    /\ Forget(job[r].minted)
    /\ UNCHANGED <<clock, tables, held, history>>

(* Revoke: one DELETE, of one client's session or of all of them.          *)

RevokeClient(s) ==
    /\ holder[s] # None
    /\ s \notin locked
    /\ DropSessions({s})
    /\ UNCHANGED <<clock, deleted, locked, tokens, pc, job, begun, changes, armed, spent>>

RevokeAll(a) ==
    /\ SlotsOf(a) \cap locked = {}
    /\ DropSessions(SlotsOf(a))
    /\ UNCHANGED <<clock, deleted, locked, tokens, pc, job, begun, changes, armed, spent>>

-----------------------------------------------------------------------------
(* The account service: each handler reads the account, then runs one      *)
(* transaction: it updates the account and deletes its sessions, and both  *)
(* take effect when it commits.                                            *)

PasswordRead(r, a) ==
    /\ LiveAccount(a)
    /\ Start(r, "passwordTx", [NoJob EXCEPT !.about = a])
    /\ UNCHANGED <<clock, tables, tokens, history>>

DeleteRead(r, a) ==
    /\ LiveAccount(a)
    /\ Start(r, "deleteTx", [NoJob EXCEPT !.about = a])
    /\ UNCHANGED <<clock, tables, tokens, history>>

(* The UPDATE of the account row waits for another transaction on it, and  *)
(* has no deleted guard: it applies to an account deleted since the read.  *)
(* The DELETE that follows reaches the session rows that exist right now.  *)
Statements(r, from, to) ==
    LET a == job[r].about IN
    /\ Move(r, from, to)
    /\ begun[a] < MaxChanges
    /\ \A q \in Requests : pc[q] \in Committing => job[q].about # a
    /\ locked' = locked \cup {s \in SlotsOf(a) : holder[s] # None}
    /\ begun' = [begun EXCEPT ![a] = @ + 1]
    /\ UNCHANGED <<clock, deleted, holder, expires, tokens, job, changes, anchor, armed, spent>>

PasswordStatements(r) == Statements(r, "passwordTx", "passwordCommit")
DeleteStatements(r)   == Statements(r, "deleteTx", "deleteCommit")

Unlock(r) == locked' = locked \ SlotsOf(job[r].about)

Commit(r, from) ==
    LET a == job[r].about IN
    /\ Finish(r, from)
    /\ Unlock(r)
    /\ changes' = [changes EXCEPT ![a] = begun[a]]
    /\ DropSessions(locked \cap SlotsOf(a))
    /\ UNCHANGED <<clock, tokens, begun, armed, spent>>

PasswordCommitOnly(r) ==
    /\ Finish(r, "passwordCommit")
    /\ Unlock(r)
    /\ changes' = [changes EXCEPT ![job[r].about] = begun[job[r].about]]
    /\ UNCHANGED <<clock, deleted, holder, expires, tokens, begun, anchor, armed, spent>>

PasswordCommit(r) ==
    /\ Commit(r, "passwordCommit")
    /\ UNCHANGED deleted

DeleteCommit(r) ==
    /\ Commit(r, "deleteCommit")
    /\ deleted' = deleted \cup {job[r].about}

-----------------------------------------------------------------------------
(* The environment: time, the janitor's sweep, and requests that die (a    *)
(* crash, a cancelled context) between two statements: a transaction rolls *)
(* back.                                                                   *)

Tick ==
    /\ clock < MaxClock
    /\ clock' = clock + 1
    /\ UNCHANGED <<tables, tokens, pc, job, history>>

Expired(s) == holder[s] # None /\ expires[s] < clock

SweepLate ==
    LET late == {s \in Slot : Expired(s) /\ expires[s] + RefreshTTL < clock} IN
    /\ late # {}
    /\ late \cap locked = {}
    /\ DropSessions(late)
    /\ UNCHANGED <<clock, deleted, locked, tokens, pc, job, begun, changes, armed, spent>>

Sweep ==
    /\ \E s \in Slot : Expired(s)
    /\ \A s \in locked : ~ Expired(s)
    /\ DropSessions({s \in Slot : Expired(s)})
    /\ UNCHANGED <<clock, deleted, locked, tokens, pc, job, begun, changes, armed, spent>>

Abort(r) ==
    /\ pc[r] # "idle"
    /\ Finish(r, pc[r])
    /\ IF pc[r] = "renewRotate"
       THEN Forget(job[r].minted)
       ELSE UNCHANGED <<owner, iat>>
    /\ IF pc[r] \in Committing THEN Unlock(r) ELSE UNCHANGED locked
    /\ UNCHANGED <<clock, deleted, holder, expires, held, history>>

Begin(r) ==
    \/ \E s \in Slot : LogonGate(r, s)
    \/ \E t \in Tenants, a, f \in Pairs : AckStart(r, t, a, f)
    \/ \E t \in Tenants, a \in Pairs : ValidateStart(r, t, a)
    \/ \E t \in Tenants, f \in Pairs : RenewStart(r, t, f)
    \/ \E a \in Account : PasswordRead(r, a) \/ DeleteRead(r, a)

Continue(r) ==
    \/ \E p \in Pairs : LogonIssue(r, p) \/ RenewIssue(r, p)
    \/ AckUpsert(r)
    \/ ValidateSession(r) \/ ValidateAccount(r) \/ ValidateReply(r)
    \/ RenewRefused(r) \/ RenewLost(r)
    \/ \E delivered \in BOOLEAN : RenewWon(r, delivered)
    \/ PasswordStatements(r) \/ DeleteStatements(r)
    \/ PasswordCommit(r) \/ DeleteCommit(r)

Next ==
    \/ \E r \in Requests : Begin(r) \/ Continue(r) \/ Abort(r)
    \/ \E s \in Slot : RevokeClient(s)
    \/ \E a \in Account : RevokeAll(a)
    \/ Sweep
    \/ Tick

Spec == Init /\ [][Next]_vars

(* The server runs its requests to their end, the janitor's ticker fires,  *)
(* and time passes; nobody has to start a request or abandon one.          *)
Fairness ==
    /\ \A r \in Requests : WF_vars(Continue(r))
    /\ WF_vars(Sweep)
    /\ WF_vars(Tick)

FairSpec == Spec /\ Fairness
-----------------------------------------------------------------------------
(* The inductive invariant, part by part.  TLC checks its conjunction; the *)
(* proofs are in TokenSessionsProofs.                                      *)

OnSlot == {"ackUpsert", "validateSession", "validateAccount", "accepted",
           "renewAccount", "renewRotate", "logonIssue"}
OnAccount == {"passwordTx", "deleteTx"} \cup Committing
Presenting == {"ackUpsert", "renewAccount", "renewRotate"}

(* A request under way knows the row it is about, and a token it presents  *)
(* belongs to that row: claims are checked once and never change.          *)
JobsTyped ==
    \A r \in Requests :
        /\ pc[r] \in OnSlot => job[r].about \in Slot
        /\ pc[r] \in OnAccount => job[r].about \in Account
        /\ pc[r] \in Presenting =>
              /\ job[r].given \in held
              /\ owner[job[r].given] = job[r].about

(* A pair minted by a renewal under way is that renewal's alone: no client *)
(* has it and no session ever held it.                                     *)
MintedPrivate ==
    \A r \in Requests : pc[r] = "renewRotate" =>
        /\ job[r].minted \in Pairs
        /\ owner[job[r].minted] = job[r].about
        /\ job[r].minted \notin held
        /\ job[r].minted \notin armed
        /\ \A q \in Requests \ {r} :
              pc[q] = "renewRotate" => job[q].minted # job[r].minted

(* Only minted pairs are in anyone's hands or in place.                    *)
KnownAreMinted == \A p \in held \cup armed : owner[p] # None

HolderArmed == \A s \in Slot : holder[s] # None => holder[s] \in armed

(* Transactions on one account take turns, and row locks have an owner.    *)
OneTransaction ==
    \A r \in Requests : pc[r] \in Committing =>
        \A q \in Requests \ {r} :
            pc[q] \in Committing => job[q].about # job[r].about

LocksOwned ==
    \A s \in locked : \E r \in Requests :
        pc[r] \in Committing /\ job[r].about = AccountOf(s)

(* What a running transaction will not delete was acknowledged since its   *)
(* DELETE ran.                                                             *)
UnlockedAreNew ==
    \A r \in Requests : pc[r] \in Committing =>
        \A s \in SlotsOf(job[r].about) \ locked :
            holder[s] # None => anchor[s] >= begun[job[r].about]

ChangesBegun == \A a \in Account : changes[a] <= begun[a]

(* What a validation saw stays true or fails closed: deletion is for good. *)
SeenStillHolds ==
    \A r \in Requests : pc[r] = "validateAccount" =>
        \/ job[r].seen = 1
        \/ ~ LiveAccount(AccountOf(job[r].about))

-----------------------------------------------------------------------------
(* A session row agrees with the token it stands for: the token was issued *)
(* for exactly this tenant, subject and client, and the row lives as long  *)
(* as the token does, whichever of Upsert and Rotate wrote it last.        *)
SessionMatchesToken ==
    \A s \in Slot : holder[s] # None =>
        /\ owner[holder[s]] = s
        /\ expires[s] = RefreshExpiry(holder[s])

(* Rotate is one conditional UPDATE: of all the renewals that present a    *)
(* refresh token, at most one wins for each time the token was put in      *)
(* place by an acknowledge or by the renewal that minted it.               *)
RenewOnce ==
    [][\A r \in Requests, delivered \in BOOLEAN :
          RenewWon(r, delivered) => job[r].given \in armed]_vars

(* A password change, a reset and a deletion end every session, and no     *)
(* renewal that was under way carries one across: whatever session exists  *)
(* was acknowledged after the DELETE of the account's last change, if not  *)
(* after its commit.                                                       *)
AnchoredAfterChange ==
    \A s \in Slot : holder[s] # None => anchor[s] >= changes[AccountOf(s)]

(* Validate reads the session first and the account second.  When it       *)
(* accepts, there was one instant at which both said yes, although the two *)
(* reads are apart and a late acknowledge can recreate the session of a    *)
(* deleted account.                                                        *)
ValidateJustified ==
    \A r \in Requests : pc[r] = "accepted" => job[r].seen = 1

(* The session store behaves as the register of RefreshRegister: a renewed *)
(* pair takes the session only in exchange for the token in place.         *)
Register == INSTANCE RefreshRegister
                WITH Slots <- Slot, Tokens <- Pairs, issued <- owner, public <- held

ImplementsRegister == Register!Spec

(* The janitor reclaims every session that outlived its token, unless a    *)
(* client refreshed it first.                                              *)
ExpiredReclaimed ==
    \A s \in Slot : Expired(s) ~> ~ Expired(s)

(* Acknowledges that were under way can recreate the sessions of a deleted *)
(* account, but in the end none is left and none comes back.               *)
DeletedAccountsDrain ==
    \A a \in Account :
        (a \in deleted) ~> [](\A s \in SlotsOf(a) : holder[s] = None)

IInv ==
    /\ TypeOK
    /\ JobsTyped
    /\ MintedPrivate
    /\ KnownAreMinted
    /\ HolderArmed
    /\ SessionMatchesToken
    /\ OneTransaction
    /\ LocksOwned
    /\ UnlockedAreNew
    /\ ChangesBegun
    /\ AnchoredAfterChange
    /\ SeenStillHolds
    /\ ValidateJustified

(* README, "Tokens": only the latest refresh token of a session can renew, *)
(* so a refresh token that was rotated away never holds a session again.   *)
OldTokenIsDead ==
    \A s \in Slot : holder[s] \notin spent
=============================================================================
