----------------------------- MODULE OidcGrants -----------------------------
(***************************************************************************)
(* The OIDC provider of an: authorization requests, browser sessions,      *)
(* refresh and access tokens of one tenant, through login, code exchange,  *)
(* refresh, revocation and logout, while passwords change and accounts are *)
(* deleted.                                                                *)
(*                                                                         *)
(* The protocol library calls the storage several times per request; an    *)
(* action is one database statement with the work up to the next one, and  *)
(* a transaction its statements, then its commit.  Client authentication,  *)
(* PKCE and redirect checks read nothing that changes: an exchange here is *)
(* one that passed them.  Time is abstract: every row may be past its time *)
(* at any moment, and a read that misses it ends the request.  A response  *)
(* that never arrives is one whose tokens nobody presents.                 *)
(***************************************************************************)
EXTENDS Naturals, FiniteSets

CONSTANTS
    Accounts, Clients,
    AuthIds, Cookies, Refreshes, Accesses,   \* ids of the rows of the four tables
    Requests,     \* requests in flight at the same time
    None, Moving,
    MaxChanges    \* bound: credential-change transactions per account

Ids == AuthIds \cup Cookies \cup Refreshes \cup Accesses

ASSUME TablesApart ==
    /\ AuthIds \cap Cookies = {} /\ AuthIds \cap Refreshes = {} /\ AuthIds \cap Accesses = {}
    /\ Cookies \cap Refreshes = {} /\ Cookies \cap Accesses = {} /\ Refreshes \cap Accesses = {}

ASSUME NoneAssumption ==
    /\ None \notin Ids \cup Accounts \cup Clients
    /\ Moving \notin Refreshes \cup {None}
    /\ Ids \cap Accounts = {}

ASSUME BoundAssumption == MaxChanges \in Nat

ASSUME FiniteAssumption == IsFiniteSet(Requests)

(* What the rows of the four tables have in common.  `subject` is None in  *)
(* an authorization request nobody has logged in to, `client` in a browser *)
(* session.  The last two are history: the first refresh token of the      *)
(* grant, and what `begun` was when the row was tied to its subject.       *)
Row == [subject : Accounts \cup {None}, client : Clients \cup {None}, offline : BOOLEAN,
        root : Refreshes \cup {None}, since : Nat]

NoRow == [subject |-> None, client |-> None, offline |-> FALSE,
          root |-> None, since |-> 0]

ASSUME RowAssumption == None \notin Row

VARIABLES
    deleted,      \* accounts.deleted
    row,          \* the rows of the four tables by id, None without a row
    parent,       \* oidc_access_tokens.refresh_token_id
    locked,       \* rows deleted by a transaction that has not committed
    used,         \* ids taken so far
    known,        \* rows whose token, cookie or code some client or browser has received
    pc, job,      \* where each request stands, and its local variables
    begun,        \* credential-change transactions of an account that ran their DELETEs
    changes,      \* the last of them that committed
    uses          \* history: completed exchanges of an authorization request's code

tables  == <<row, parent, locked, used, known>>
history == <<begun, changes, uses>>
vars    == <<deleted, tables, pc, job, history>>

(* `issued` is history: the tokens the account had, when a logout began,   *)
(* at the client it names; none when it names no client.                   *)
Job == [on : Ids \cup Accounts \cup {None}, was : Row,
        minted : Cookies \cup Refreshes \cup {None}, access : Accesses \cup {None},
        issued : SUBSET (Refreshes \cup Accesses)]

NoJob == [on |-> None, was |-> NoRow, minted |-> None, access |-> None, issued |-> {}]

Committing == {"passwordCommit", "deleteCommit"}

Steps == {"idle", "loginSession", "loginAccount", "complete", "saveCode", "mintRefresh",
          "mintAccess", "idToken", "respond", "rotate", "revoke", "logoutCookie",
          "logoutRefresh", "logoutAccess", "passwordTx", "deleteTx"} \cup Committing

TypeOK ==
    /\ deleted \in SUBSET Accounts
    /\ row \in [Ids -> Row \cup {None}]
    /\ parent \in [Accesses -> Refreshes \cup {None}]
    /\ locked \in SUBSET Ids /\ used \in SUBSET Ids /\ known \in SUBSET Ids
    /\ pc \in [Requests -> Steps]
    /\ job \in [Requests -> Job]
    /\ begun \in [Accounts -> Nat] /\ changes \in [Accounts -> Nat]
    /\ uses \in [AuthIds -> Nat]

Init ==
    /\ deleted = {}
    /\ row = [i \in Ids |-> None]
    /\ parent = [x \in Accesses |-> None]
    /\ locked = {} /\ used = {} /\ known = {}
    /\ pc = [r \in Requests |-> "idle"]
    /\ job = [r \in Requests |-> NoJob]
    /\ begun = [a \in Accounts |-> 0] /\ changes = [a \in Accounts |-> 0]
    /\ uses = [i \in AuthIds |-> 0]

-----------------------------------------------------------------------------
(* Statements.  A delete of a refresh token cascades to its access tokens; *)
(* a statement that writes a row waits for the transaction that deleted    *)
(* it.                                                                     *)

LiveAccount(a) == a \in Accounts \ deleted
Exists(i)      == row[i] # None
Owned(a)       == {i \in Ids : Exists(i) /\ row[i].subject = a}
CascadeNot(S)  == S
Cascade(S)     == S \cup {x \in Accesses : parent[x] \in S}

Delivered(S)   == {i \in S \ {None} : Exists(i)}

Insert(i, content) ==
    /\ i \notin used
    /\ used' = used \cup {i}
    /\ row' = [row EXCEPT ![i] = content]

Drop(S) ==
    /\ row' = [i \in Ids |-> IF i \in S THEN None ELSE row[i]]
    /\ parent' = [x \in Accesses |-> IF x \in S THEN None ELSE parent[x]]
    /\ known' = known \ S

Delete(S) ==
    /\ S \cap locked = {}
    /\ Drop(S)
    /\ UNCHANGED <<locked, used>>

Start(r, step, j) ==
    /\ pc[r] = "idle"
    /\ pc' = [pc EXCEPT ![r] = step]
    /\ job' = [job EXCEPT ![r] = j]

Move(r, from, to) ==
    /\ pc[r] = from
    /\ pc' = [pc EXCEPT ![r] = to]

Finish(r, from) ==
    /\ Move(r, from, "idle")
    /\ job' = [job EXCEPT ![r] = NoJob]

-----------------------------------------------------------------------------
(* /authorize and the login page.                                          *)

Authorize(i, c, offline) ==
    /\ Insert(i, [NoRow EXCEPT !.client = c, !.offline = offline])
    /\ UNCHANGED <<deleted, parent, locked, known, pc, job, history>>

(* Submit: the password is checked, a browser session inserted, then the   *)
(* request completed.                                                      *)
SubmitGate(r, i, a) ==
    /\ i \in used
    /\ LiveAccount(a)
    /\ Start(r, "loginSession",
             [NoJob EXCEPT !.on = i, !.was.subject = a])
    /\ UNCHANGED <<deleted, tables, history>>

SubmitSession(r, k) ==
    LET a == job[r].was.subject IN
    /\ Move(r, "loginSession", "complete")
    /\ Insert(k, [job[r].was EXCEPT !.since = begun[a]])
    /\ job' = [job EXCEPT ![r].minted = k]
    /\ UNCHANGED <<deleted, parent, locked, known, history>>

(* Login with a browser session: the session is read, then its account.    *)
LoginRead(r, i, k) ==
    /\ i \in used
    /\ k \in known
    /\ Start(r, "loginAccount", [NoJob EXCEPT !.on = i, !.was = row[k]])
    /\ UNCHANGED <<deleted, tables, history>>

LoginAccount(r) ==
    /\ \/ /\ Move(r, "loginAccount", "complete")
          /\ LiveAccount(job[r].was.subject)
          /\ UNCHANGED job
       \/ /\ Finish(r, "loginAccount")
          /\ ~ LiveAccount(job[r].was.subject)
    /\ UNCHANGED <<deleted, tables, history>>

(* AuthenticateRequest ties the request to the account, whoever it was     *)
(* tied to before and however late; the response carries the cookie.       *)
Complete(r) ==
    LET i == job[r].on
        a == job[r].was.subject IN
    /\ Finish(r, "complete")
    /\ i \notin locked
    /\ row' = IF Exists(i)
              THEN [row EXCEPT ![i].subject = a, ![i].since = begun[a]]
              ELSE row
    /\ known' = known \cup Delivered({job[r].minted})
    /\ UNCHANGED <<deleted, parent, locked, used, history>>

(* The callback: the request is read, then a code is saved for it and sent *)
(* to the client; a code saved earlier stops working.                      *)
Callback(r, i) ==
    /\ Exists(i) /\ row[i].subject # None
    /\ Start(r, "saveCode", [NoJob EXCEPT !.on = i, !.was = row[i]])
    /\ UNCHANGED <<deleted, tables, history>>

SaveCode(r) ==
    /\ Finish(r, "saveCode")
    /\ job[r].on \notin locked
    /\ known' = known \cup Delivered({job[r].on})
    /\ UNCHANGED <<deleted, row, parent, locked, used, history>>

-----------------------------------------------------------------------------
(* The token endpoint: the code or the refresh token is read, a refresh    *)
(* token is rotated away, the new tokens are inserted, the account is read *)
(* for the id token, and the code's request deleted.                       *)

CodeRead(r, i) ==
    /\ i \in known
    /\ Start(r, IF row[i].offline THEN "mintRefresh" ELSE "mintAccess",
             [NoJob EXCEPT !.on = i, !.was = row[i]])
    /\ UNCHANGED <<deleted, tables, history>>

RefreshRead(r, t) ==
    /\ t \in known
    /\ Start(r, "rotate", [NoJob EXCEPT !.on = t, !.was = row[t]])
    /\ UNCHANGED <<deleted, tables, history>>

RotateAnyway(r) ==
    /\ Move(r, "rotate", "mintRefresh")
    /\ Delete(Cascade({job[r].on}))
    /\ UNCHANGED <<deleted, job, history>>

Rotate(r) ==
    /\ Move(r, "rotate", "mintRefresh")
    /\ Exists(job[r].on)
    /\ Delete(Cascade({job[r].on}))
    /\ UNCHANGED <<deleted, job, history>>

RotateLost(r) ==
    /\ Finish(r, "rotate")
    /\ ~ Exists(job[r].on)
    /\ UNCHANGED <<deleted, tables, history>>

Root(r, t) == IF job[r].was.root = None THEN t ELSE job[r].was.root

MintRefresh(r, t) ==
    /\ Move(r, "mintRefresh", "mintAccess")
    /\ Insert(t, [job[r].was EXCEPT !.root = Root(r, t), !.since = begun[job[r].was.subject]])
    /\ job' = [job EXCEPT ![r].minted = t, ![r].was.root = Root(r, t)]
    /\ UNCHANGED <<deleted, parent, locked, known, history>>

(* The foreign key: the refresh token must still be there.                 *)
MintAccess(r, x) ==
    LET t == job[r].minted IN
    /\ Move(r, "mintAccess", "idToken")
    /\ t # None => Exists(t) /\ t \notin locked
    /\ Insert(x, [job[r].was EXCEPT !.since = begun[job[r].was.subject]])
    /\ parent' = [parent EXCEPT ![x] = t]
    /\ job' = [job EXCEPT ![r].access = x]
    /\ UNCHANGED <<deleted, locked, known, history>>

MintRefused(r) ==
    /\ Finish(r, "mintAccess")
    /\ job[r].minted # None /\ ~ Exists(job[r].minted)
    /\ UNCHANGED <<deleted, tables, history>>

IdToken(r) ==
    /\ \/ /\ Move(r, "idToken", "respond")
          /\ LiveAccount(job[r].was.subject)
          /\ UNCHANGED job
       \/ /\ Finish(r, "idToken")
          /\ ~ LiveAccount(job[r].was.subject)
    /\ UNCHANGED <<deleted, tables, history>>

RespondOnly(r) ==
    /\ Finish(r, "respond")
    /\ known' = known \cup Delivered({job[r].minted, job[r].access})
    /\ uses' = [i \in AuthIds |-> IF i = job[r].on THEN uses[i] + 1 ELSE uses[i]]
    /\ UNCHANGED <<deleted, row, parent, locked, used, begun, changes>>

(* DeleteAuthRequest, which a missing row does not stop, and the response. *)
Respond(r) ==
    LET spent == {job[r].on} \cap AuthIds IN
    /\ Finish(r, "respond")
    /\ spent \cap locked = {}
    /\ row' = [i \in Ids |-> IF i \in spent THEN None ELSE row[i]]
    /\ known' = (known \ spent) \cup Delivered({job[r].minted, job[r].access})
    /\ uses' = [i \in AuthIds |-> IF i \in spent THEN uses[i] + 1 ELSE uses[i]]
    /\ UNCHANGED <<deleted, parent, locked, used, begun, changes>>

-----------------------------------------------------------------------------
(* Revocation and logout.                                                  *)

RevokeRead(r, t) ==
    /\ t \in known
    /\ Start(r, "revoke", [NoJob EXCEPT !.on = t])
    /\ UNCHANGED <<deleted, tables, history>>

RevokeDelete(r) ==
    /\ Finish(r, "revoke")
    /\ \/ Delete(Cascade({job[r].on}))
       \/ UNCHANGED tables
    /\ UNCHANGED <<deleted, history>>

RevokeAccess(x) ==
    /\ x \in known
    /\ Delete({x})
    /\ UNCHANGED <<deleted, pc, job, history>>

(* Logout reads the browser session, which may be past its time, deletes   *)
(* it, then the grants of its account at the client that is named, if any. *)
GrantsAt(T, a, c) ==
    {i \in T : Exists(i) /\ row[i].subject = a /\ row[i].client = c}

LogoutRead(r, k, c) ==
    /\ k \in known
    /\ \E session \in {[row[k] EXCEPT !.client = c], NoRow} :
           Start(r, "logoutCookie",
                 [NoJob EXCEPT !.on = k, !.was = session,
                               !.issued = GrantsAt(Refreshes \cup Accesses, session.subject, c)])
    /\ UNCHANGED <<deleted, tables, history>>

LogoutCookie(r) ==
    /\ \/ /\ Move(r, "logoutCookie", "logoutRefresh")
          /\ job[r].was.subject # None
          /\ UNCHANGED job
       \/ /\ Finish(r, "logoutCookie")
          /\ job[r].was.subject = None
    /\ Delete({job[r].on})
    /\ UNCHANGED <<deleted, history>>

LogoutRefresh(r) ==
    /\ Move(r, "logoutRefresh", "logoutAccess")
    /\ Delete(Cascade(GrantsAt(Refreshes, job[r].was.subject, job[r].was.client)))
    /\ UNCHANGED <<deleted, job, history>>

LogoutAccessCascaded(r) ==
    /\ Finish(r, "logoutAccess")
    /\ UNCHANGED <<deleted, tables, history>>

LogoutAccess(r) ==
    /\ Finish(r, "logoutAccess")
    /\ Delete(GrantsAt(Accesses, job[r].was.subject, job[r].was.client))
    /\ UNCHANGED <<deleted, history>>

-----------------------------------------------------------------------------
(* Credential changes: the account service's transaction, with DeleteAll   *)
(* of the revoker.                                                         *)

PasswordRead(r, a) ==
    /\ LiveAccount(a)
    /\ Start(r, "passwordTx", [NoJob EXCEPT !.on = a])
    /\ UNCHANGED <<deleted, tables, history>>

DeleteRead(r, a) ==
    /\ LiveAccount(a)
    /\ Start(r, "deleteTx", [NoJob EXCEPT !.on = a])
    /\ UNCHANGED <<deleted, tables, history>>

RevokedTokensOnly(a) == Owned(a) \cap (Refreshes \cup Accesses)
Revoked(a) == Owned(a)

Statements(r, from, to) ==
    LET a == job[r].on IN
    /\ Move(r, from, to)
    /\ begun[a] < MaxChanges
    /\ \A q \in Requests : pc[q] \in Committing => job[q].on # a
    /\ locked' = locked \cup Revoked(a)
    /\ begun' = [begun EXCEPT ![a] = @ + 1]
    /\ UNCHANGED <<deleted, row, parent, used, known, job, changes, uses>>

PasswordStatements(r) == Statements(r, "passwordTx", "passwordCommit")
DeleteStatements(r)   == Statements(r, "deleteTx", "deleteCommit")

LockedBy(r) == locked \cap Owned(job[r].on)

Commit(r, from) ==
    LET a == job[r].on IN
    /\ Finish(r, from)
    /\ Drop(LockedBy(r))
    /\ locked' = locked \ LockedBy(r)
    /\ changes' = [changes EXCEPT ![a] = begun[a]]
    /\ UNCHANGED <<used, begun, uses>>

PasswordCommit(r) ==
    /\ Commit(r, "passwordCommit")
    /\ UNCHANGED deleted

DeleteCommit(r) ==
    /\ Commit(r, "deleteCommit")
    /\ deleted' = deleted \cup {job[r].on}

-----------------------------------------------------------------------------
(* The environment: the janitor sweeps the rows of one table that are past *)
(* their time, and requests die between two statements, rolling back their *)
(* transaction.                                                            *)

Sweep(S) ==
    /\ S # {}
    /\ \A i \in S : Exists(i)
    /\ Delete(Cascade(S))
    /\ UNCHANGED <<deleted, pc, job, history>>

Abort(r) ==
    /\ pc[r] # "idle"
    /\ Finish(r, pc[r])
    /\ locked' = IF pc[r] \in Committing THEN locked \ LockedBy(r) ELSE locked
    /\ UNCHANGED <<deleted, row, parent, used, known, history>>

Login(r) ==
    \/ \E i \in AuthIds, a \in Accounts : SubmitGate(r, i, a)
    \/ \E i \in AuthIds, k \in Cookies : LoginRead(r, i, k)
    \/ \E i \in AuthIds : Callback(r, i)
    \/ \E k \in Cookies : SubmitSession(r, k)
    \/ LoginAccount(r)
    \/ Complete(r) \/ SaveCode(r)

Token(r) ==
    \/ \E i \in AuthIds : CodeRead(r, i)
    \/ \E t \in Refreshes : RefreshRead(r, t) \/ MintRefresh(r, t)
    \/ \E x \in Accesses : MintAccess(r, x)
    \/ Rotate(r) \/ RotateLost(r) \/ MintRefused(r) \/ IdToken(r) \/ Respond(r)

SignOut(r) ==
    \/ \E t \in Refreshes : RevokeRead(r, t)
    \/ \E k \in Cookies, c \in Clients \cup {None} : LogoutRead(r, k, c)
    \/ RevokeDelete(r)
    \/ LogoutCookie(r) \/ LogoutRefresh(r) \/ LogoutAccess(r)

Change(r) ==
    \/ \E a \in Accounts : PasswordRead(r, a) \/ DeleteRead(r, a)
    \/ PasswordStatements(r) \/ DeleteStatements(r)
    \/ PasswordCommit(r) \/ DeleteCommit(r)

Next ==
    \/ \E i \in AuthIds, c \in Clients, offline \in BOOLEAN : Authorize(i, c, offline)
    \/ \E r \in Requests : Login(r) \/ Token(r) \/ SignOut(r) \/ Change(r) \/ Abort(r)
    \/ \E x \in Accesses : RevokeAccess(x)
    \/ \E table \in {AuthIds, Cookies, Refreshes, Accesses} : \E S \in SUBSET table : Sweep(S)

Spec == Init /\ [][Next]_vars

-----------------------------------------------------------------------------
(* The inductive invariant, in parts.                                      *)

Begun  == {i \in AuthIds : Exists(i) /\ row[i].subject # None}
Tokens == {i \in Refreshes \cup Accesses : Exists(i)}

(* Rows come from ids taken, have the fields of their table, and a code    *)
(* belongs to a request somebody logged in to.                             *)
RowsFit ==
    /\ \A i \in Ids : Exists(i) => i \in used
    /\ \A i \in AuthIds : Exists(i) => row[i].root = None
    /\ known \subseteq {i \in Ids : Exists(i)} /\ known \cap AuthIds \subseteq Begun
    /\ \A k \in Cookies : Exists(k) => row[k].subject # None
    /\ \A i \in Tokens : row[i].subject # None
    /\ \A i \in Ids : Exists(i) => row[i].root \in used \cup {None}
    /\ \A t \in Refreshes : Exists(t) => row[t].root # None
    /\ \A x \in Accesses : ~ Exists(x) => parent[x] = None

(* The local variables of a request fit where it stands.                   *)
JobsFit ==
    \A r \in Requests :
        LET j == job[r] IN
        /\ pc[r] \in {"loginSession", "loginAccount", "complete", "saveCode"} =>
               j.on \in AuthIds /\ j.on \in used
        /\ pc[r] \in {"loginSession", "loginAccount", "complete", "saveCode", "mintRefresh",
                      "mintAccess", "idToken", "respond", "rotate"} =>
               j.was.subject # None /\ j.was.root \in used \cup {None}
        /\ pc[r] = "saveCode" /\ Exists(j.on) => j.on \in Begun
        /\ pc[r] \in {"loginAccount", "complete"} => j.minted \in Cookies \cup {None}
        /\ pc[r] \in {"mintRefresh", "mintAccess", "idToken", "respond"} =>
               j.on \in AuthIds \cup Refreshes /\ j.on \in used
        /\ pc[r] \in {"mintAccess", "idToken", "respond"} => j.minted \in Refreshes \cup {None}
        /\ pc[r] = "rotate" =>
               /\ j.on \in Refreshes /\ j.on \in used /\ j.was.root # None
               /\ Exists(j.on) => row[j.on].root = j.was.root
        /\ pc[r] = "revoke" => j.on \in Refreshes
        /\ pc[r] = "logoutCookie" => j.on \in Cookies
        /\ pc[r] \in {"passwordTx", "deleteTx"} \cup Committing => j.on \in Accounts
        /\ pc[r] \in {"logoutCookie", "logoutRefresh", "logoutAccess"} =>
               \A i \in j.issued :
                   /\ i \in used
                   /\ Exists(i) => /\ row[i].subject = j.was.subject /\ row[i].client = j.was.client
                                   /\ pc[r] = "logoutAccess" => i \notin Refreshes

(* One transaction at a time changes an account, the rows it has locked    *)
(* are the account's, access tokens with their refresh tokens, and rows    *)
(* tied to the account since are not among them.                           *)
Transactions ==
    /\ \A q, r \in Requests :
           pc[q] \in Committing /\ pc[r] \in Committing /\ q # r => job[q].on # job[r].on
    /\ \A i \in locked :
           Exists(i) /\ \E r \in Requests : pc[r] \in Committing /\ row[i].subject = job[r].on
    /\ \A x \in Accesses : parent[x] \in locked => x \in locked
    /\ \A a \in Accounts : changes[a] <= begun[a]
    /\ \A r \in Requests : pc[r] \in Committing => begun[job[r].on] > changes[job[r].on]
    /\ \A r \in Requests, i \in Ids :
           pc[r] \in Committing /\ Exists(i) /\ row[i].subject = job[r].on /\ i \notin locked =>
               row[i].since >= begun[job[r].on]

(* A grant never forks: however exchanges of its refresh tokens interleave *)
(* (CreateAccessAndRefreshTokens), one token of it is live, or one         *)
(* exchange holds it, or it is over.                                       *)
Rotating(r) == pc[r] = "mintRefresh" /\ job[r].was.root # None

OneHeir ==
    /\ \A t, u \in Refreshes :
           Exists(t) /\ Exists(u) /\ row[t].root = row[u].root => t = u
    /\ \A t \in Refreshes, r \in Requests :
           Exists(t) /\ Rotating(r) => row[t].root # job[r].was.root
    /\ \A q, r \in Requests :
           Rotating(q) /\ Rotating(r) /\ job[q].was.root = job[r].was.root => q = r

(* An access token never outlives the refresh token it was minted with     *)
(* (the foreign key's cascade), and a refresh token has one of them, for   *)
(* its own subject and client.                                             *)
AccessFollows ==
    /\ \A x \in Accesses : parent[x] # None =>
           /\ Exists(parent[x])
           /\ row[x].subject = row[parent[x]].subject /\ row[x].client = row[parent[x]].client
    /\ \A x, y \in Accesses : parent[x] # None /\ parent[x] = parent[y] => x = y

(* A credential change ends what the provider held for the account: every  *)
(* browser session, completed request and token there is was written after *)
(* the DELETEs of the last change (revoker.go, DeleteAll).                 *)
GrantsAfterChange ==
    \A i \in Ids : Exists(i) /\ row[i].subject # None => row[i].since >= changes[row[i].subject]

(* A logout that names a client (client_id of Logout, DeleteGrants) ends   *)
(* the tokens the account had there when it began.  Its first DELETE       *)
(* leaves only access tokens that belong to no refresh token, so that      *)
(* nothing it has found can be renewed even if it fails there; its second  *)
(* leaves none of them, whatever exchanges, sweeps and credential changes  *)
(* came in between.  Of a logout that names no client, or fails before its *)
(* first DELETE, this says nothing: it ends no token.                      *)
LogoutEndsClient ==
    [][\A r \in Requests :
           /\ LogoutRefresh(r) =>
                  \A i \in job[r].issued : row'[i] # None => i \in Accesses /\ parent'[i] = None
           /\ LogoutAccess(r) => \A i \in job[r].issued : row'[i] = None]_vars

(* A code is not single use (CodeOnce below), but after the first exchange *)
(* only those that had read it by then can complete: its request is gone   *)
(* for good, and each completion takes one of them away (DeleteAuthRequest *)
(* ends every exchange).                                                   *)
Exchanging(i) ==
    {r \in Requests : /\ pc[r] \in {"mintRefresh", "mintAccess", "idToken", "respond"}
                     /\ job[r].on = i}

CodeUsesCounted ==
    \A i \in AuthIds :
        /\ uses[i] > 0 => i \in used /\ ~ Exists(i)
        /\ uses[i] + Cardinality(Exchanging(i)) <= Cardinality(Requests)

(* A request in the middle of minting holds what it has minted alone.      *)
MintedApart ==
    \A r \in Requests :
        pc[r] = "mintAccess" /\ job[r].minted # None =>
            /\ \A q \in Requests : pc[q] = "mintAccess" /\ job[q].minted = job[r].minted => q = r
            /\ \A x \in Accesses : parent[x] # job[r].minted
            /\ job[r].minted \in used
            /\ Exists(job[r].minted) =>
                   /\ row[job[r].minted].subject = job[r].was.subject
                   /\ row[job[r].minted].client = job[r].was.client

GInv ==
    /\ TypeOK /\ RowsFit /\ JobsFit /\ Transactions
    /\ OneHeir /\ AccessFollows /\ GrantsAfterChange /\ MintedApart

-----------------------------------------------------------------------------
(* The grants of a refresh token are the families of GrantFamily.          *)

LiveOf(g) == {t \in Refreshes : Exists(t) /\ row[t].root = g}

Tip(g) ==
    IF LiveOf(g) # {} THEN CHOOSE t \in LiveOf(g) : TRUE
    ELSE IF \E r \in Requests : Rotating(r) /\ job[r].was.root = g THEN Moving ELSE None

Families == INSTANCE GrantFamily
    WITH Tokens <- Refreshes, tip <- [g \in Refreshes |-> Tip(g)], seen <- used \cap Refreshes

(* Every grant keeps the promise of GrantFamily: it has one refresh token  *)
(* at a time, moves only by an exchange of it, and once over stays over.   *)
ImplementsFamilies == Families!Spec

-----------------------------------------------------------------------------
(* What comments and tests say of the provider and the code does not do.   *)

(* "a replay of the same code finds nothing" (storage.go, DeleteAuthRequest). *)
CodeOnce == \A i \in AuthIds : uses[i] <= 1
=============================================================================
