-------------------------- MODULE OidcGrantsProofs --------------------------
(***************************************************************************)
(* Proofs about OidcGrants, for any accounts, clients, ids, number of      *)
(* requests and number of credential changes.                              *)
(*                                                                         *)
(* A step moves one request and changes the tables in one of five ways: it *)
(* deletes rows together with what refers to them, inserts a row, ties a   *)
(* request to an account, locks rows, or lets go of them. What a request   *)
(* has in hand (Fits) survives whatever others do to the tables because    *)
(* ids are used once and rows of tokens never change (Evolves).            *)
(***************************************************************************)
EXTENDS OidcGrants, FiniteSetTheorems, TLAPS

LoggingIn == {"loginSession", "loginAccount", "complete", "saveCode"}
Minting   == {"mintRefresh", "mintAccess", "idToken", "respond"}
Leaving   == {"logoutCookie", "logoutRefresh", "logoutAccess"}
Changing  == {"passwordTx", "deleteTx"} \cup Committing

(* What GInv says of a request at step p with j in hand, where the ids U   *)
(* are taken and R are the rows.                                           *)
Fits(U, R, p, j) ==
    /\ p \in Steps /\ j \in Job
    /\ p \in LoggingIn => j.on \in AuthIds /\ j.on \in U
    /\ p \in LoggingIn \cup Minting \cup {"rotate"} =>
           j.was.subject # None /\ j.was.root \in U \cup {None}
    /\ p = "saveCode" /\ R[j.on] # None => R[j.on].subject # None
    /\ p \in {"loginAccount", "complete"} => j.minted \in Cookies \cup {None}
    /\ p \in Minting => j.on \in AuthIds \cup Refreshes /\ j.on \in U
    /\ p \in {"mintAccess", "idToken", "respond"} => j.minted \in Refreshes \cup {None}
    /\ p = "rotate" =>
           /\ j.on \in Refreshes /\ j.on \in U /\ j.was.root # None
           /\ R[j.on] # None => R[j.on].root = j.was.root
    /\ p = "revoke" => j.on \in Refreshes
    /\ p = "logoutCookie" => j.on \in Cookies
    /\ p \in Changing => j.on \in Accounts
    /\ p \in Leaving =>
           \A i \in j.issued :
               /\ i \in U
               /\ R[i] # None => /\ R[i].subject = j.was.subject /\ R[i].client = j.was.client
                                 /\ p = "logoutAccess" => i \notin Refreshes
    /\ p = "mintAccess" /\ j.minted # None =>
           /\ j.minted \in U
           /\ R[j.minted] # None => /\ R[j.minted].subject = j.was.subject
                                    /\ R[j.minted].client = j.was.client

(* Ids stay taken, a row once gone stays gone, and while it is there only  *)
(* an authorization request changes, to be tied to an account.             *)
Evolves(U, R, V, S) ==
    /\ U \subseteq V
    /\ \A i \in U \cap Ids :
           S[i] # None =>
               /\ R[i] # None
               /\ S[i].root = R[i].root /\ S[i].client = R[i].client
               /\ i \notin AuthIds => S[i].subject = R[i].subject
               /\ R[i].subject # None => S[i].subject # None

LEMMA FitsKept ==
    ASSUME NEW U, NEW R, NEW V, NEW S, NEW p, NEW j, Evolves(U, R, V, S), Fits(U, R, p, j)
    PROVE  Fits(V, S, p, j)
<1>1. j.issued \subseteq Refreshes \cup Accesses
    BY DEF Fits, Job
<1>2. \A i \in Refreshes \cup Accesses : i \in Ids /\ i \notin AuthIds
    BY TablesApart DEF Ids
<1>3. \A i \in AuthIds : i \in Ids
    BY DEF Ids
<1>4. U \subseteq V
    BY DEF Evolves
<1>5. p = "saveCode" /\ S[j.on] # None => S[j.on].subject # None
    BY <1>3 DEF Fits, Evolves, LoggingIn
<1>6. p = "rotate" /\ S[j.on] # None => S[j.on].root = j.was.root
    BY <1>2 DEF Fits, Evolves
<1>7. p \in Leaving =>
           \A i \in j.issued :
               /\ i \in V
               /\ S[i] # None => /\ S[i].subject = j.was.subject /\ S[i].client = j.was.client
                                 /\ p = "logoutAccess" => i \notin Refreshes
    BY <1>1, <1>2 DEF Fits, Evolves
<1>8. p = "mintAccess" /\ j.minted # None /\ S[j.minted] # None =>
          S[j.minted].subject = j.was.subject /\ S[j.minted].client = j.was.client
    BY <1>2 DEF Fits, Evolves
<1> QED
    BY <1>4, <1>5, <1>6, <1>7, <1>8 DEF Fits

LEMMA RequestFits ==
    ASSUME GInv, NEW r \in Requests
    PROVE  Fits(used, row, pc[r], job[r])
BY DEF GInv, TypeOK, JobsFit, MintedApart, Fits, Exists, Begun, LoggingIn, Minting, Leaving, Changing

LEMMA NoJobFits == ASSUME NEW U, NEW R PROVE Fits(U, R, "idle", NoJob)
<1>1. NoRow \in Row
    BY DEF NoRow, Row
<1>2. NoJob \in Job
    BY <1>1 DEF NoJob, Job
<1> QED
    BY <1>2 DEF Fits, Steps, LoggingIn, Minting, Leaving, Changing, Committing

(* Every request fits, and no two hold the same refresh token to mint an   *)
(* access token for.                                                       *)
MintsApart ==
    \A r \in Requests :
        pc[r] = "mintAccess" /\ job[r].minted # None =>
            /\ \A q \in Requests : pc[q] = "mintAccess" /\ job[q].minted = job[r].minted => q = r
            /\ \A x \in Accesses : parent[x] # job[r].minted

LEMMA FitTogether ==
    ASSUME \A r \in Requests : Fits(used', row', pc'[r], job'[r]), MintsApart'
    PROVE  JobsFit' /\ MintedApart'
<1>1. JobsFit'
    BY DEF Fits, JobsFit, Exists, Begun, LoggingIn, Minting, Leaving, Changing
<1>2. MintedApart'
    BY DEF Fits, MintedApart, MintsApart, Exists
<1> QED
    BY <1>1, <1>2

-----------------------------------------------------------------------------
(* What a step does to the requests: one of them moves on, the others stay *)
(* where they are.                                                         *)

Moves(r, p, j) ==
    /\ pc' = [pc EXCEPT ![r] = p]
    /\ job' = [job EXCEPT ![r] = j]

RequestsFit ==
    /\ pc' \in [Requests -> Steps] /\ job' \in [Requests -> Job]
    /\ \A q \in Requests : Fits(used', row', pc'[q], job'[q])

LEMMA MovesFit ==
    ASSUME GInv, NEW r \in Requests, NEW p, NEW j, Moves(r, p, j),
           Evolves(used, row, used', row'), Fits(used', row', p, j)
    PROVE  RequestsFit
<1>1. p \in Steps /\ j \in Job
    BY DEF Fits
<1>2. pc' \in [Requests -> Steps] /\ job' \in [Requests -> Job]
    BY <1>1 DEF GInv, TypeOK, Moves
<1>3. \A q \in Requests : Fits(used', row', pc'[q], job'[q])
    <2> SUFFICES ASSUME NEW q \in Requests PROVE Fits(used', row', pc'[q], job'[q])
        OBVIOUS
    <2>1. CASE q = r
        <3>1. pc'[q] = p /\ job'[q] = j
            BY <2>1 DEF GInv, TypeOK, Moves
        <3> QED
            BY <3>1
    <2>2. CASE q # r
        <3>1. pc'[q] = pc[q] /\ job'[q] = job[q]
            BY <2>2 DEF GInv, TypeOK, Moves
        <3>2. Fits(used, row, pc[q], job[q])
            BY RequestFits
        <3>3. Fits(used', row', pc[q], job[q])
            BY <3>2, FitsKept
        <3> QED
            BY <3>1, <3>3
    <2> QED
        BY <2>1, <2>2
<1> QED
    BY <1>2, <1>3 DEF RequestsFit

LEMMA StillFit ==
    ASSUME GInv, pc' = pc, job' = job, Evolves(used, row, used', row')
    PROVE  RequestsFit
<1>1. \A q \in Requests : Fits(used', row', pc[q], job[q])
    BY RequestFits, FitsKept
<1> QED
    BY <1>1 DEF GInv, TypeOK, RequestsFit

(* The transactions of credential changes are the ones there were; no      *)
(* exchange has taken a grant's token; none has minted a refresh token.    *)
SameChanges ==
    \A q \in Requests :
        /\ pc'[q] \in Committing <=> pc[q] \in Committing
        /\ pc[q] \in Committing => job'[q].on = job[q].on

NoneTaken ==
    \A q \in Requests :
        pc'[q] = "mintRefresh" /\ job'[q].was.root # None =>
            pc[q] = "mintRefresh" /\ job[q].was.root = job'[q].was.root

NoneMinted ==
    \A q \in Requests :
        pc'[q] = "mintAccess" /\ job'[q].minted # None =>
            pc[q] = "mintAccess" /\ job[q].minted = job'[q].minted

LEMMA MovesApart ==
    ASSUME GInv, NEW r \in Requests, NEW p, NEW j, Moves(r, p, j)
    PROVE  /\ pc[r] \notin Committing /\ p \notin Committing => SameChanges
           /\ (p = "mintRefresh" => j.was.root = None) => NoneTaken
           /\ (p = "mintAccess" => j.minted = None) => NoneMinted
<1>1. \A q \in Requests :
          /\ q = r => pc'[q] = p /\ job'[q] = j
          /\ q # r => pc'[q] = pc[q] /\ job'[q] = job[q]
    BY DEF GInv, TypeOK, Moves
<1> QED
    BY <1>1 DEF SameChanges, NoneTaken, NoneMinted

-----------------------------------------------------------------------------
(* What keeps each part of the invariant.                                  *)

(* Rows a transaction has locked stay; a row is what it was or written     *)
(* after the statements of every change of its account.                    *)
WrittenAfter ==
    \A i \in Ids : row'[i] # None /\ row'[i].subject # None =>
        \/ /\ row[i] # None
           /\ row'[i].subject = row[i].subject /\ row'[i].since = row[i].since
        \/ row'[i].since >= begun[row'[i].subject]

LockedStay ==
    /\ locked' = locked
    /\ \A i \in locked : row'[i] # None /\ row'[i].subject = row[i].subject
    /\ \A x \in Accesses : parent'[x] \in locked => parent'[x] = parent[x]

LEMMA TransactionsKept ==
    ASSUME GInv, SameChanges, begun' = begun, changes' = changes, LockedStay, WrittenAfter
    PROVE  Transactions'
<1> USE DEF GInv, Transactions
<1>1. (\A q, r \in Requests :
           pc[q] \in Committing /\ pc[r] \in Committing /\ q # r => job[q].on # job[r].on)'
    BY DEF SameChanges
<1>2. (\A i \in locked :
           Exists(i) /\ \E r \in Requests : pc[r] \in Committing /\ row[i].subject = job[r].on)'
    BY DEF SameChanges, LockedStay, Exists
<1>3. (\A x \in Accesses : parent[x] \in locked => x \in locked)'
    BY DEF LockedStay
<1>4. (\A a \in Accounts : changes[a] <= begun[a])'
    OBVIOUS
<1>5. (\A r \in Requests : pc[r] \in Committing => begun[job[r].on] > changes[job[r].on])'
    BY DEF SameChanges
<1>6. (\A r \in Requests, i \in Ids :
           pc[r] \in Committing /\ Exists(i) /\ row[i].subject = job[r].on /\ i \notin locked =>
               row[i].since >= begun[job[r].on])'
    <2> SUFFICES ASSUME NEW r \in Requests, NEW i \in Ids, pc'[r] \in Committing, row'[i] # None,
                        row'[i].subject = job'[r].on, i \notin locked'
                 PROVE  row'[i].since >= begun'[job'[r].on]
        BY DEF Exists
    <2>1. pc[r] \in Committing /\ job'[r].on = job[r].on
        BY DEF SameChanges
    <2>2. job[r].on \in Accounts
        BY <2>1 DEF JobsFit
    <2>3. row'[i].subject # None
        BY <2>1, <2>2, NoneAssumption
    <2> QED
        BY <2>1, <2>3 DEF WrittenAfter, LockedStay, Exists
<1> QED
    BY <1>1, <1>2, <1>3, <1>4, <1>5, <1>6

LEMMA GrantsKept ==
    ASSUME GInv, row' \in [Ids -> Row \cup {None}], begun' = begun, changes' = changes, WrittenAfter
    PROVE  GrantsAfterChange'
<1> SUFFICES ASSUME NEW i \in Ids, row'[i] # None, row'[i].subject # None
             PROVE  row'[i].since >= changes[row'[i].subject]
    BY DEF GrantsAfterChange, Exists
<1>1. CASE row[i] # None /\ row'[i].subject = row[i].subject /\ row'[i].since = row[i].since
    BY <1>1 DEF GInv, GrantsAfterChange, Exists
<1>2. CASE row'[i].since >= begun[row'[i].subject]
    <2>1. row'[i].subject \in Accounts /\ row'[i].since \in Nat
        BY DEF Row
    <2>2. begun[row'[i].subject] \in Nat /\ changes[row'[i].subject] \in Nat
        BY <2>1 DEF GInv, TypeOK
    <2>3. changes[row'[i].subject] <= begun[row'[i].subject]
        BY <2>1 DEF GInv, Transactions
    <2> QED
        BY <1>2, <2>1, <2>2, <2>3
<1> QED
    BY <1>1, <1>2 DEF WrittenAfter

(* No refresh token is new.                                                *)
LEMMA HeirKept ==
    ASSUME GInv, NoneTaken,
           \A t \in Refreshes : row'[t] # None => row[t] # None /\ row'[t].root = row[t].root
    PROVE  OneHeir'
BY DEF GInv, OneHeir, Rotating, Exists, NoneTaken

(* No access token is new.                                                 *)
LEMMA MintsKept ==
    ASSUME GInv, NoneMinted, \A x \in Accesses : parent'[x] # None => parent'[x] = parent[x]
    PROVE  MintsApart'
BY DEF GInv, MintedApart, MintsApart, NoneMinted

LEMMA Assembled ==
    ASSUME deleted' \in SUBSET Accounts, row' \in [Ids -> Row \cup {None}],
           parent' \in [Accesses -> Refreshes \cup {None}], locked' \in SUBSET Ids,
           used' \in SUBSET Ids, known' \in SUBSET Ids, begun' \in [Accounts -> Nat],
           changes' \in [Accounts -> Nat], uses' \in [AuthIds -> Nat],
           RequestsFit, RowsFit', Transactions', OneHeir', AccessFollows', GrantsAfterChange',
           MintsApart'
    PROVE  GInv'
<1>1. TypeOK'
    BY DEF TypeOK, RequestsFit
<1>2. JobsFit' /\ MintedApart'
    BY FitTogether DEF RequestsFit
<1> QED
    BY <1>1, <1>2 DEF GInv
-----------------------------------------------------------------------------
(* Deletes.                                                                *)

Drops(S) ==
    /\ row' \in [Ids -> Row \cup {None}]
    /\ \A i \in Ids : row'[i] = IF i \in S THEN None ELSE row[i]
    /\ parent' \in [Accesses -> Refreshes \cup {None}]
    /\ \A x \in Accesses : parent'[x] = IF x \in S THEN None ELSE parent[x]
    /\ \A x \in Accesses : parent[x] \in S => x \in S
    /\ used' = used
    /\ known' \in SUBSET Ids
    /\ \A i \in known' : row'[i] # None /\ (i \in AuthIds => row'[i].subject # None)

LEMMA DropsTables ==
    ASSUME GInv, NEW S, Drops(S)
    PROVE  RowsFit' /\ AccessFollows' /\ Evolves(used, row, used', row')
<1> USE DEF GInv
<1>1. \A i \in AuthIds \cup Cookies \cup Refreshes \cup Accesses : i \in Ids
    BY DEF Ids
<1>2. \A i \in Ids : row'[i] # None => i \notin S /\ row[i] # None /\ row'[i] = row[i]
    BY DEF Drops
<1>3. RowsFit'
    <2>1. (known \subseteq {i \in Ids : Exists(i)} /\ known \cap AuthIds \subseteq Begun)'
        BY DEF Drops, Exists, Begun
    <2>2. (\A i \in Tokens : row[i].subject # None)'
        BY <1>1, <1>2 DEF RowsFit, Tokens, Exists
    <2>3. (\A x \in Accesses : ~ Exists(x) => parent[x] = None)'
        BY <1>1 DEF RowsFit, Exists, Drops
    <2>4. (\A i \in Ids : Exists(i) => row[i].root \in used \cup {None})'
        BY <1>2 DEF RowsFit, Exists, Drops
    <2>5. (\A i \in Ids : Exists(i) => i \in used)'
        BY <1>2 DEF RowsFit, Exists, Drops
    <2> QED
        BY <1>1, <1>2, <2>1, <2>2, <2>3, <2>4, <2>5 DEF RowsFit, Exists
<1>4. AccessFollows'
    <2>1. \A x \in Accesses : parent'[x] # None =>
              /\ x \notin S /\ parent'[x] = parent[x] /\ parent[x] \notin S
              /\ parent[x] \in Ids
        BY <1>1 DEF Drops, TypeOK
    <2>2. \A x \in Accesses : parent'[x] # None =>
              row'[x] = row[x] /\ row'[parent'[x]] = row[parent[x]]
        BY <1>1, <2>1 DEF Drops
    <2> QED
        BY <2>1, <2>2 DEF AccessFollows, Exists
<1>5. Evolves(used, row, used', row')
    BY <1>2 DEF Evolves, Drops
<1> QED
    BY <1>3, <1>4, <1>5

LEMMA DropsKeep ==
    ASSUME GInv, NEW S, Drops(S), S \cap locked = {}, locked' = locked
    PROVE  LockedStay /\ WrittenAfter
<1>1. LockedStay
    <2>1. \A i \in locked : i \in Ids /\ row[i] # None
        BY DEF GInv, TypeOK, Transactions, Exists
    <2>2. \A i \in locked : row'[i] = row[i]
        BY <2>1 DEF Drops
    <2>3. None \notin locked
        BY <2>1, NoneAssumption
    <2> QED
        BY <2>1, <2>2, <2>3 DEF LockedStay, Drops
<1>2. WrittenAfter
    BY DEF WrittenAfter, Drops
<1> QED
    BY <1>1, <1>2

(* A step that deletes S, or nothing, and moves request r, which neither   *)
(* takes a grant's token nor has minted a refresh token.                   *)
LEMMA DropStep ==
    ASSUME GInv, NEW S, Drops(S), S \cap locked = {}, locked' = locked,
           deleted' = deleted, begun' = begun, changes' = changes, uses' \in [AuthIds -> Nat],
           RequestsFit, SameChanges, NoneMinted, OneHeir'
    PROVE  GInv'
<1>1. RowsFit' /\ AccessFollows' /\ LockedStay /\ WrittenAfter
    BY DropsTables, DropsKeep
<1>2. Transactions' /\ GrantsAfterChange'
    BY <1>1, TransactionsKept, GrantsKept DEF Drops
<1>3. MintsApart'
    BY MintsKept DEF Drops
<1>4. /\ deleted' \in SUBSET Accounts /\ locked' \in SUBSET Ids /\ used' \in SUBSET Ids
      /\ begun' \in [Accounts -> Nat] /\ changes' \in [Accounts -> Nat]
    BY DEF GInv, TypeOK, Drops
<1> QED
    BY <1>1, <1>2, <1>3, <1>4, Assembled DEF Drops

LEMMA DropsHeir ==
    ASSUME GInv, NEW S, Drops(S), NoneTaken
    PROVE  OneHeir'
<1>1. \A t \in Refreshes : row'[t] # None => row[t] # None /\ row'[t].root = row[t].root
    BY DEF Drops, Ids
<1> QED
    BY <1>1, HeirKept

LEMMA DropMove ==
    ASSUME GInv, NEW S, Drops(S), S \cap locked = {}, locked' = locked,
           deleted' = deleted, begun' = begun, changes' = changes, uses' \in [AuthIds -> Nat],
           NEW r \in Requests, NEW p, NEW j, Moves(r, p, j), Fits(used', row', p, j),
           pc[r] \notin Committing, p \notin Committing,
           p = "mintRefresh" => j.was.root = None,
           p = "mintAccess" => j.minted = None
    PROVE  GInv'
<1>1. RequestsFit
    BY DropsTables, MovesFit
<1>2. SameChanges /\ NoneTaken /\ NoneMinted
    BY MovesApart
<1>3. OneHeir'
    BY <1>2, DropsHeir
<1> QED
    BY <1>1, <1>2, <1>3, DropStep

(* A read: the tables are as they were.                                    *)
LEMMA NothingDrops ==
    ASSUME GInv, UNCHANGED tables
    PROVE  Drops({})
<1>1. \A i \in known : row[i] # None /\ (i \in AuthIds => row[i].subject # None)
    BY DEF GInv, RowsFit, Begun, Exists
<1> QED
    BY <1>1 DEF Drops, GInv, TypeOK, tables

LEMMA ReadMove ==
    ASSUME GInv, UNCHANGED <<deleted, tables, history>>,
           NEW r \in Requests, NEW p, NEW j, Moves(r, p, j), Fits(used, row, p, j),
           pc[r] \notin Committing, p \notin Committing,
           p = "mintRefresh" => j.was.root = None,
           p = "mintAccess" => j.minted = None
    PROVE  GInv'
<1>1. Drops({}) /\ {} \cap locked = {} /\ locked' = locked
    BY NothingDrops DEF tables
<1>2. begun' = begun /\ changes' = changes /\ uses' \in [AuthIds -> Nat]
    BY DEF history, GInv, TypeOK
<1>3. Fits(used', row', p, j)
    BY DEF tables
<1> QED
    BY <1>1, <1>2, <1>3, DropMove

(* Drop of the model on a set closed under the foreign key.                *)
LEMMA DropDrops ==
    ASSUME GInv, NEW S, Drop(S), used' = used, \A x \in Accesses : parent[x] \in S => x \in S
    PROVE  Drops(S)
<1>1. row' \in [Ids -> Row \cup {None}] /\ parent' \in [Accesses -> Refreshes \cup {None}]
    BY DEF Drop, GInv, TypeOK
<1>2. \A i \in known' : i \in Ids /\ i \notin S /\ row'[i] = row[i]
    BY DEF Drop, GInv, TypeOK
<1>3. \A i \in known' : row'[i] # None /\ (i \in AuthIds => row'[i].subject # None)
    BY <1>2 DEF Drop, GInv, RowsFit, Begun, Exists
<1> QED
    BY <1>1, <1>2, <1>3 DEF Drop, Drops

LEMMA CascadeDrops ==
    ASSUME GInv, NEW S, S \subseteq Ids, Delete(Cascade(S))
    PROVE  Drops(Cascade(S)) /\ Cascade(S) \cap locked = {} /\ locked' = locked
<1>1. \A x \in Accesses : parent[x] \in Cascade(S) => x \in Cascade(S)
    <2>1. \A x \in Accesses : parent[x] \notin Accesses
        BY TablesApart, NoneAssumption DEF GInv, TypeOK, Ids
    <2> QED
        BY <2>1 DEF Cascade
<1> QED
    BY <1>1, DropDrops DEF Delete

(* Of rows nothing refers to.                                              *)
LEMMA DeleteDrops ==
    ASSUME GInv, NEW S, S \cap (Refreshes \cup {None}) = {}, Delete(S)
    PROVE  Drops(S) /\ S \cap locked = {} /\ locked' = locked
BY DropDrops DEF Delete, GInv, TypeOK
-----------------------------------------------------------------------------
(* The actions that read: one lemma for each.                              *)

LEMMA IdsAll ==
    /\ AuthIds \subseteq Ids /\ Cookies \subseteq Ids /\ Refreshes \subseteq Ids /\ Accesses \subseteq Ids
    /\ NoRow \in Row /\ NoJob \in Job
<1>1. NoRow \in Row
    BY DEF NoRow, Row
<1> QED
    BY <1>1 DEF Ids, NoJob, Job

(* What a read of a row that is there brings.                              *)
LEMMA RowRead ==
    ASSUME GInv, NEW i \in Ids, row[i] # None
    PROVE  /\ row[i] \in Row /\ row[i].root \in used \cup {None} /\ i \in used
           /\ i \in AuthIds => row[i].root = None
           /\ i \in Refreshes => row[i].root # None
           /\ i \in Cookies \cup Refreshes \cup Accesses => row[i].subject # None
BY DEF GInv, TypeOK, RowsFit, Tokens, Exists

LEMMA KnownRead ==
    ASSUME GInv, NEW i \in known
    PROVE  i \in Ids /\ row[i] # None /\ (i \in AuthIds => row[i].subject # None)
BY DEF GInv, RowsFit, Begun, Exists

LEMMA FinishMoves ==
    ASSUME NEW r \in Requests, NEW from, Finish(r, from)
    PROVE  pc[r] = from /\ Moves(r, "idle", NoJob)
BY DEF Finish, Move, Moves

LEMMA MoveMoves ==
    ASSUME GInv, NEW r \in Requests, NEW from, NEW to, Move(r, from, to), UNCHANGED job
    PROVE  pc[r] = from /\ Moves(r, to, job[r])
BY DEF Move, Moves, GInv, TypeOK

(* A request that ends after a read, found or not.                         *)
LEMMA ReadEnds ==
    ASSUME GInv, NEW r \in Requests, NEW from, Finish(r, from), from \notin Committing,
           UNCHANGED <<deleted, tables, history>>
    PROVE  GInv'
<1>1. pc[r] = from /\ Moves(r, "idle", NoJob)
    BY FinishMoves
<1>2. Fits(used, row, "idle", NoJob)
    BY NoJobFits
<1>3. "idle" \notin Committing
    BY DEF Committing
<1> QED
    BY <1>1, <1>2, <1>3, ReadMove

LEMMA SubmitGateStep ==
    ASSUME GInv, NEW r \in Requests, NEW i \in AuthIds, NEW a \in Accounts, SubmitGate(r, i, a)
    PROVE  GInv'
<1> DEFINE j == [NoJob EXCEPT !.on = i, !.was.subject = a]
<1>1. pc[r] = "idle" /\ Moves(r, "loginSession", j)
    BY DEF SubmitGate, Start, Moves
<1>2. j \in Job /\ j.on = i /\ j.was.subject = a /\ j.was.root = None
    BY IdsAll DEF NoJob, Job, NoRow, Row
<1>3. a # None
    BY NoneAssumption
<1> HIDE DEF j
<1>4. Fits(used, row, "loginSession", j)
    BY <1>2, <1>3 DEF SubmitGate, Fits, Steps, LoggingIn, Minting, Leaving, Changing, Committing
<1> QED
    BY <1>1, <1>4, ReadMove DEF SubmitGate, Committing

LEMMA LoginReadStep ==
    ASSUME GInv, NEW r \in Requests, NEW i \in AuthIds, NEW k \in Cookies, LoginRead(r, i, k)
    PROVE  GInv'
<1> DEFINE j == [NoJob EXCEPT !.on = i, !.was = row[k]]
<1>1. pc[r] = "idle" /\ Moves(r, "loginAccount", j)
    BY DEF LoginRead, Start, Moves
<1>2. row[k] \in Row /\ row[k].subject # None /\ row[k].root \in used \cup {None}
    BY KnownRead, RowRead DEF LoginRead
<1>3. j \in Job /\ j.on = i /\ j.was = row[k] /\ j.minted = None
    BY <1>2, IdsAll DEF NoJob, Job
<1> HIDE DEF j
<1>4. Fits(used, row, "loginAccount", j)
    BY <1>2, <1>3 DEF LoginRead, Fits, Steps, LoggingIn, Minting, Leaving, Changing, Committing
<1> QED
    BY <1>1, <1>4, ReadMove DEF LoginRead, Committing

(* A request that goes on with what it has in hand.                        *)
LEMMA LoginAccountStep ==
    ASSUME GInv, NEW r \in Requests, LoginAccount(r)
    PROVE  GInv'
<1>1. CASE Move(r, "loginAccount", "complete") /\ UNCHANGED job
    <2>1. pc[r] = "loginAccount" /\ Moves(r, "complete", job[r])
        BY <1>1, MoveMoves
    <2>2. Fits(used, row, "loginAccount", job[r])
        BY <2>1, RequestFits
    <2>3. Fits(used, row, "complete", job[r])
        BY <2>2 DEF Fits, Steps, LoggingIn, Minting, Leaving, Changing, Committing
    <2> QED
        BY <2>1, <2>3, ReadMove DEF LoginAccount, Committing
<1>2. CASE Finish(r, "loginAccount")
    BY <1>2, ReadEnds DEF LoginAccount, Committing
<1> QED
    BY <1>1, <1>2 DEF LoginAccount

LEMMA CallbackStep ==
    ASSUME GInv, NEW r \in Requests, NEW i \in AuthIds, Callback(r, i)
    PROVE  GInv'
<1> DEFINE j == [NoJob EXCEPT !.on = i, !.was = row[i]]
<1>1. pc[r] = "idle" /\ Moves(r, "saveCode", j)
    BY DEF Callback, Start, Moves
<1>2. row[i] \in Row /\ row[i].root \in used \cup {None} /\ i \in used
    BY IdsAll, RowRead DEF Callback, Exists
<1>3. j \in Job /\ j.on = i /\ j.was = row[i]
    BY <1>2, IdsAll DEF NoJob, Job
<1> HIDE DEF j
<1>4. Fits(used, row, "saveCode", j)
    BY <1>2, <1>3 DEF Callback, Fits, Steps, LoggingIn, Minting, Leaving, Changing, Committing
<1> QED
    BY <1>1, <1>4, ReadMove DEF Callback, Committing

LEMMA CodeReadStep ==
    ASSUME GInv, NEW r \in Requests, NEW i \in AuthIds, CodeRead(r, i)
    PROVE  GInv'
<1> DEFINE j == [NoJob EXCEPT !.on = i, !.was = row[i]]
           p == IF row[i].offline THEN "mintRefresh" ELSE "mintAccess"
<1>1. pc[r] = "idle" /\ Moves(r, p, j)
    BY DEF CodeRead, Start, Moves
<1>2. row[i] \in Row /\ row[i].root = None /\ i \in used /\ row[i].subject # None
    BY KnownRead, RowRead DEF CodeRead
<1>3. j \in Job /\ j.on = i /\ j.was = row[i] /\ j.minted = None
    BY <1>2, IdsAll DEF NoJob, Job
<1>4. p \in {"mintRefresh", "mintAccess"}
    OBVIOUS
<1> HIDE DEF j, p
<1>5. Fits(used, row, p, j)
    BY <1>2, <1>3, <1>4 DEF Fits, Steps, LoggingIn, Minting, Leaving, Changing, Committing
<1>6. p \notin Committing /\ pc[r] \notin Committing
    BY <1>1, <1>4 DEF Committing
<1> QED
    BY <1>1, <1>2, <1>3, <1>5, <1>6, ReadMove DEF CodeRead

LEMMA RefreshReadStep ==
    ASSUME GInv, NEW r \in Requests, NEW t \in Refreshes, RefreshRead(r, t)
    PROVE  GInv'
<1> DEFINE j == [NoJob EXCEPT !.on = t, !.was = row[t]]
<1>1. pc[r] = "idle" /\ Moves(r, "rotate", j)
    BY DEF RefreshRead, Start, Moves
<1>2. /\ row[t] \in Row /\ row[t].root # None /\ row[t].root \in used /\ t \in used
      /\ row[t].subject # None
    BY KnownRead, RowRead DEF RefreshRead
<1>3. j \in Job /\ j.on = t /\ j.was = row[t]
    BY <1>2, IdsAll DEF NoJob, Job
<1> HIDE DEF j
<1>4. Fits(used, row, "rotate", j)
    BY <1>2, <1>3 DEF Fits, Steps, LoggingIn, Minting, Leaving, Changing, Committing
<1> QED
    BY <1>1, <1>4, ReadMove DEF RefreshRead, Committing

LEMMA RotateLostStep ==
    ASSUME GInv, NEW r \in Requests, RotateLost(r)
    PROVE  GInv'
BY ReadEnds DEF RotateLost, Committing

LEMMA MintRefusedStep ==
    ASSUME GInv, NEW r \in Requests, MintRefused(r)
    PROVE  GInv'
BY ReadEnds DEF MintRefused, Committing

LEMMA IdTokenStep ==
    ASSUME GInv, NEW r \in Requests, IdToken(r)
    PROVE  GInv'
<1>1. CASE Move(r, "idToken", "respond") /\ UNCHANGED job
    <2>1. pc[r] = "idToken" /\ Moves(r, "respond", job[r])
        BY <1>1, MoveMoves
    <2>2. Fits(used, row, "idToken", job[r])
        BY <2>1, RequestFits
    <2>3. Fits(used, row, "respond", job[r])
        BY <2>2 DEF Fits, Steps, LoggingIn, Minting, Leaving, Changing, Committing
    <2> QED
        BY <2>1, <2>3, ReadMove DEF IdToken, Committing
<1>2. CASE Finish(r, "idToken")
    BY <1>2, ReadEnds DEF IdToken, Committing
<1> QED
    BY <1>1, <1>2 DEF IdToken

LEMMA RevokeReadStep ==
    ASSUME GInv, NEW r \in Requests, NEW t \in Refreshes, RevokeRead(r, t)
    PROVE  GInv'
<1> DEFINE j == [NoJob EXCEPT !.on = t]
<1>1. pc[r] = "idle" /\ Moves(r, "revoke", j)
    BY DEF RevokeRead, Start, Moves
<1>2. j \in Job /\ j.on = t
    BY IdsAll DEF NoJob, Job
<1> HIDE DEF j
<1>3. Fits(used, row, "revoke", j)
    BY <1>2 DEF Fits, Steps, LoggingIn, Minting, Leaving, Changing, Committing
<1> QED
    BY <1>1, <1>3, ReadMove DEF RevokeRead, Committing

LEMMA LogoutReadStep ==
    ASSUME GInv, NEW r \in Requests, NEW k \in Cookies, NEW c \in Clients \cup {None},
           LogoutRead(r, k, c)
    PROVE  GInv'
<1>1. row[k] \in Row
    BY KnownRead, RowRead DEF LogoutRead
<1>2. [row[k] EXCEPT !.client = c] \in Row /\ [row[k] EXCEPT !.client = c].client = c
    BY <1>1 DEF Row
<1>3. PICK session \in {[row[k] EXCEPT !.client = c], NoRow} :
           Start(r, "logoutCookie",
                 [NoJob EXCEPT !.on = k, !.was = session,
                               !.issued = GrantsAt(Refreshes \cup Accesses, session.subject, c)])
    BY DEF LogoutRead
<1> DEFINE issued == GrantsAt(Refreshes \cup Accesses, session.subject, c)
           j == [NoJob EXCEPT !.on = k, !.was = session, !.issued = issued]
<1>4. pc[r] = "idle" /\ Moves(r, "logoutCookie", j)
    BY <1>3 DEF Start, Moves
<1>5. session \in Row
    BY <1>2, IdsAll
<1>6. issued \in SUBSET (Refreshes \cup Accesses)
    BY DEF GrantsAt
<1>7. \A i \in issued : i \in used /\ row[i].subject = session.subject /\ row[i].client = session.client
    <2>1. \A i \in issued : i \in Ids /\ row[i] # None /\ row[i].subject = session.subject /\ row[i].client = c
        BY IdsAll DEF GrantsAt, Exists
    <2>2. \A i \in issued : i \in used /\ row[i].subject # None
        BY <2>1, <1>6, RowRead
    <2>3. CASE session = NoRow
        <3>1. session.subject = None
            BY <2>3 DEF NoRow
        <3> QED
            BY <2>1, <2>2, <3>1
    <2>4. CASE session = [row[k] EXCEPT !.client = c]
        BY <2>1, <2>2, <2>4, <1>2
    <2> QED
        BY <1>3, <2>3, <2>4
<1> HIDE DEF issued
<1>8. j \in Job /\ j.on = k /\ j.was = session /\ j.issued = issued
    BY <1>5, <1>6, IdsAll DEF NoJob, Job
<1> HIDE DEF j
<1>9. Fits(used, row, "logoutCookie", j)
    BY <1>7, <1>8 DEF Fits, Steps, LoggingIn, Minting, Leaving, Changing, Committing
<1> QED
    BY <1>4, <1>9, ReadMove DEF LogoutRead, Committing

(* PasswordRead and DeleteRead.                                            *)
LEMMA ChangeReadStep ==
    ASSUME GInv, NEW r \in Requests, NEW a \in Accounts, PasswordRead(r, a) \/ DeleteRead(r, a)
    PROVE  GInv'
<1> DEFINE j == [NoJob EXCEPT !.on = a]
<1>1. PICK p \in {"passwordTx", "deleteTx"} : pc[r] = "idle" /\ Moves(r, p, j)
    BY DEF PasswordRead, DeleteRead, Start, Moves
<1>2. j \in Job /\ j.on = a
    BY IdsAll DEF NoJob, Job
<1> HIDE DEF j
<1>3. Fits(used, row, p, j)
    BY <1>1, <1>2 DEF Fits, Steps, LoggingIn, Minting, Leaving, Changing, Committing
<1>4. p \notin Committing /\ p # "mintRefresh" /\ p # "mintAccess" /\ pc[r] \notin Committing
    BY <1>1 DEF Committing
<1> QED
    BY <1>1, <1>3, <1>4, ReadMove DEF PasswordRead, DeleteRead
-----------------------------------------------------------------------------
(* The actions that delete.                                                *)

(* SaveCode: nothing is deleted, but the code is known.                    *)
LEMMA SaveCodeStep ==
    ASSUME GInv, NEW r \in Requests, SaveCode(r)
    PROVE  GInv'
<1>1. pc[r] = "saveCode" /\ Moves(r, "idle", NoJob)
    BY FinishMoves DEF SaveCode
<1>2. /\ UNCHANGED <<deleted, row, parent, locked, used, begun, changes, uses>>
      /\ known' = known \cup Delivered({job[r].on})
    BY DEF SaveCode, history
<1>3. Fits(used, row, "saveCode", job[r])
    BY <1>1, RequestFits
<1>4. \A i \in Delivered({job[r].on}) :
          i \in AuthIds /\ row[i] # None /\ row[i].subject # None
    BY <1>3 DEF Delivered, Exists, Fits, LoggingIn
<1>5. \A i \in known : i \in Ids /\ row[i] # None /\ (i \in AuthIds => row[i].subject # None)
    BY KnownRead
<1>6. Drops({})
    BY <1>2, <1>4, <1>5, IdsAll DEF Drops, GInv, TypeOK
<1>7. Fits(used', row', "idle", NoJob)
    BY NoJobFits
<1> QED
    BY <1>1, <1>2, <1>6, <1>7, DropMove DEF Committing, GInv, TypeOK

LEMMA RespondStep ==
    ASSUME GInv, NEW r \in Requests, Respond(r)
    PROVE  GInv'
<1> DEFINE spent == {job[r].on} \cap AuthIds
           sent == Delivered({job[r].minted, job[r].access})
<1>1. pc[r] = "respond" /\ Moves(r, "idle", NoJob)
    BY FinishMoves DEF Respond
<1>2. /\ UNCHANGED <<deleted, parent, locked, used, begun, changes>>
      /\ spent \cap locked = {}
      /\ row' = [i \in Ids |-> IF i \in spent THEN None ELSE row[i]]
      /\ known' = (known \ spent) \cup sent
      /\ uses' = [i \in AuthIds |-> IF i \in spent THEN uses[i] + 1 ELSE uses[i]]
    BY DEF Respond
<1>3. Fits(used, row, "respond", job[r])
    BY <1>1, RequestFits
<1>4. \A i \in sent : i \in Refreshes \cup Accesses /\ row[i] # None
    BY <1>3 DEF Delivered, Exists, Fits, Job
<1>5. \A i \in known : i \in Ids /\ row[i] # None /\ (i \in AuthIds => row[i].subject # None)
    BY KnownRead
<1>6. \A i \in Refreshes \cup Accesses : i \notin AuthIds /\ i \in Ids
    BY TablesApart, IdsAll
<1>7. uses' \in [AuthIds -> Nat]
    BY <1>2 DEF GInv, TypeOK
<1>8. Drops(spent)
    <2>1. row' \in [Ids -> Row \cup {None}] /\ parent' \in [Accesses -> Refreshes \cup {None}]
        BY <1>2 DEF GInv, TypeOK
    <2>2. \A x \in Accesses : x \notin spent /\ parent[x] \notin spent
        BY <1>6, IdsAll, NoneAssumption DEF GInv, TypeOK
    <2>3. \A i \in sent : i \notin spent
        BY <1>4, <1>6
    <2>4. \A i \in known' : i \in Ids /\ i \notin spent /\ row'[i] = row[i]
        BY <1>2, <1>4, <1>5, <1>6, <2>3
    <2>5. \A i \in known' : row[i] # None /\ (i \in AuthIds => row[i].subject # None)
        BY <1>2, <1>4, <1>5, <1>6
    <2> QED
        BY <1>2, <2>1, <2>2, <2>4, <2>5 DEF Drops
<1>9. Fits(used', row', "idle", NoJob)
    BY NoJobFits
<1> HIDE DEF spent, sent
<1> QED
    BY <1>1, <1>2, <1>7, <1>8, <1>9, DropMove DEF Committing

LEMMA RevokeDeleteStep ==
    ASSUME GInv, NEW r \in Requests, RevokeDelete(r)
    PROVE  GInv'
<1>1. Finish(r, "revoke") /\ UNCHANGED <<deleted, history>>
    BY DEF RevokeDelete
<1>2. pc[r] = "revoke" /\ Moves(r, "idle", NoJob)
    BY <1>1, FinishMoves
<1>3. CASE UNCHANGED tables
    BY <1>1, <1>3, ReadEnds DEF Committing
<1>4. CASE Delete(Cascade({job[r].on}))
    <2>1. {job[r].on} \subseteq Ids
        BY <1>2, RequestFits, IdsAll DEF Fits
    <2>2. /\ Drops(Cascade({job[r].on})) /\ Cascade({job[r].on}) \cap locked = {}
          /\ locked' = locked
        BY <1>4, <2>1, CascadeDrops
    <2>3. Fits(used', row', "idle", NoJob)
        BY NoJobFits
    <2> QED
        BY <1>1, <1>2, <2>2, <2>3, DropMove DEF Committing, history, GInv, TypeOK
<1> QED
    BY <1>3, <1>4 DEF RevokeDelete

LEMMA DropAlone ==
    ASSUME GInv, NEW S, Drops(S), S \cap locked = {}, locked' = locked,
           UNCHANGED <<deleted, pc, job, history>>
    PROVE  GInv'
<1>1. pc' = pc /\ job' = job /\ begun' = begun /\ changes' = changes /\ uses' = uses
    BY DEF history
<1>2. RequestsFit
    BY <1>1, DropsTables, StillFit
<1>3. SameChanges /\ NoneTaken /\ NoneMinted
    BY <1>1 DEF SameChanges, NoneTaken, NoneMinted
<1>4. OneHeir'
    BY <1>3, DropsHeir
<1> QED
    BY <1>1, <1>2, <1>3, <1>4, DropStep DEF GInv, TypeOK

LEMMA RevokeAccessStep ==
    ASSUME GInv, NEW x \in Accesses, RevokeAccess(x)
    PROVE  GInv'
<1>1. {x} \cap (Refreshes \cup {None}) = {}
    BY TablesApart, NoneAssumption, IdsAll
<1> QED
    BY <1>1, DeleteDrops, DropAlone DEF RevokeAccess

LEMMA SweepStep ==
    ASSUME GInv, NEW S, S \subseteq Ids, Sweep(S)
    PROVE  GInv'
BY CascadeDrops, DropAlone DEF Sweep

LEMMA LogoutCookieStep ==
    ASSUME GInv, NEW r \in Requests, LogoutCookie(r)
    PROVE  GInv'
<1>1. pc[r] = "logoutCookie"
    BY DEF LogoutCookie, Move, Finish
<1>2. job[r].on \in Cookies
    BY <1>1, RequestFits DEF Fits
<1>3. {job[r].on} \cap (Refreshes \cup {None}) = {}
    BY <1>2, TablesApart, NoneAssumption, IdsAll
<1>4. Drops({job[r].on}) /\ {job[r].on} \cap locked = {} /\ locked' = locked
    BY <1>3, DeleteDrops DEF LogoutCookie
<1>5. /\ deleted' = deleted /\ begun' = begun /\ changes' = changes
      /\ uses' \in [AuthIds -> Nat]
    BY DEF LogoutCookie, history, GInv, TypeOK
<1>6. CASE Move(r, "logoutCookie", "logoutRefresh") /\ UNCHANGED job
    <2>1. Moves(r, "logoutRefresh", job[r])
        BY <1>6, MoveMoves
    <2>2. Fits(used, row, "logoutRefresh", job[r])
        BY <1>1, RequestFits DEF Fits, Steps, LoggingIn, Minting, Leaving, Changing, Committing
    <2>3. Fits(used', row', "logoutRefresh", job[r])
        BY <2>2, <1>4, DropsTables, FitsKept
    <2> QED
        BY <1>1, <1>4, <1>5, <2>1, <2>3, DropMove DEF Committing
<1>7. CASE Finish(r, "logoutCookie")
    <2>1. Moves(r, "idle", NoJob) /\ Fits(used', row', "idle", NoJob)
        BY <1>7, FinishMoves, NoJobFits
    <2> QED
        BY <1>1, <1>4, <1>5, <2>1, DropMove DEF Committing
<1> QED
    BY <1>6, <1>7 DEF LogoutCookie

LEMMA LogoutRefreshStep ==
    ASSUME GInv, NEW r \in Requests, LogoutRefresh(r)
    PROVE  GInv'
<1> DEFINE S == GrantsAt(Refreshes, job[r].was.subject, job[r].was.client)
<1>1. pc[r] = "logoutRefresh" /\ Moves(r, "logoutAccess", job[r])
    BY MoveMoves DEF LogoutRefresh
<1>2. S \subseteq Ids
    BY IdsAll DEF GrantsAt
<1>3. Drops(Cascade(S)) /\ Cascade(S) \cap locked = {} /\ locked' = locked
    BY <1>2, CascadeDrops DEF LogoutRefresh
<1>4. /\ deleted' = deleted /\ begun' = begun /\ changes' = changes
      /\ uses' \in [AuthIds -> Nat]
    BY DEF LogoutRefresh, history, GInv, TypeOK
<1>5. Fits(used, row, "logoutRefresh", job[r])
    BY <1>1, RequestFits
<1>6. Fits(used', row', "logoutRefresh", job[r])
    BY <1>3, <1>5, DropsTables, FitsKept
<1>7. \A i \in job[r].issued : row'[i] # None => i \notin Refreshes
    <2> SUFFICES ASSUME NEW i \in job[r].issued, row'[i] # None, i \in Refreshes PROVE FALSE
        OBVIOUS
    <2>1. i \in Ids
        BY IdsAll
    <2>2. row[i] # None /\ i \notin S
        BY <2>1, <1>3 DEF Drops, Cascade
    <2>3. row[i].subject = job[r].was.subject /\ row[i].client = job[r].was.client
        BY <2>2, <1>5 DEF Fits, Leaving
    <2> QED
        BY <2>2, <2>3 DEF GrantsAt, Exists
<1>8. Fits(used', row', "logoutAccess", job[r])
    BY <1>6, <1>7 DEF Fits, Steps, LoggingIn, Minting, Leaving, Changing, Committing
<1> HIDE DEF S
<1> QED
    BY <1>1, <1>3, <1>4, <1>8, DropMove DEF Committing

LEMMA LogoutAccessStep ==
    ASSUME GInv, NEW r \in Requests, LogoutAccess(r)
    PROVE  GInv'
<1> DEFINE S == GrantsAt(Accesses, job[r].was.subject, job[r].was.client)
<1>1. pc[r] = "logoutAccess" /\ Moves(r, "idle", NoJob) /\ Fits(used', row', "idle", NoJob)
    BY FinishMoves, NoJobFits DEF LogoutAccess
<1>2. S \cap (Refreshes \cup {None}) = {}
    BY TablesApart, NoneAssumption, IdsAll DEF GrantsAt
<1>3. Drops(S) /\ S \cap locked = {} /\ locked' = locked
    BY <1>2, DeleteDrops DEF LogoutAccess
<1>4. /\ deleted' = deleted /\ begun' = begun /\ changes' = changes
      /\ uses' \in [AuthIds -> Nat]
    BY DEF LogoutAccess, history, GInv, TypeOK
<1> HIDE DEF S
<1> QED
    BY <1>1, <1>3, <1>4, DropMove DEF Committing

(* Rotate: the exchange now holds the grant, whose token is gone.          *)
LEMMA RotateStep ==
    ASSUME GInv, NEW r \in Requests, Rotate(r)
    PROVE  GInv'
<1> DEFINE t == job[r].on
           S == Cascade({t})
<1>1. pc[r] = "rotate" /\ Moves(r, "mintRefresh", job[r])
    BY MoveMoves DEF Rotate
<1>2. Fits(used, row, "rotate", job[r])
    BY <1>1, RequestFits
<1>3. /\ t \in Refreshes /\ t \in Ids /\ row[t] # None
      /\ row[t].root = job[r].was.root /\ job[r].was.root # None
    BY <1>2, IdsAll DEF Fits, Rotate, Exists
<1>4. Drops(S) /\ S \cap locked = {} /\ locked' = locked
    BY <1>3, CascadeDrops DEF Rotate
<1>5. /\ deleted' = deleted /\ begun' = begun /\ changes' = changes
      /\ uses' \in [AuthIds -> Nat]
    BY DEF Rotate, history, GInv, TypeOK
<1>6. Fits(used, row, "mintRefresh", job[r])
    BY <1>2 DEF Fits, Steps, LoggingIn, Minting, Leaving, Changing, Committing
<1>7. RequestsFit
    BY <1>1, <1>4, <1>6, DropsTables, FitsKept, MovesFit
<1>8. SameChanges /\ NoneMinted
    BY <1>1, MovesApart DEF Committing
<1>9. OneHeir'
    <2>1. \A u \in Refreshes : row'[u] # None => row[u] # None /\ row'[u].root = row[u].root /\ u # t
        BY <1>4, IdsAll DEF Drops, Cascade
    <2>2. \A q \in Requests : Rotating(q)' =>
              /\ job'[q].was.root = job[q].was.root
              /\ q = r \/ Rotating(q)
        BY <1>1 DEF Rotating, Moves, GInv, TypeOK
    <2>3. \A u \in Refreshes : row'[u] # None => row'[u].root # job[r].was.root
        BY <1>3, <2>1 DEF GInv, OneHeir, Exists
    <2>4. \A q \in Requests : Rotating(q) => job[q].was.root # job[r].was.root
        BY <1>3 DEF GInv, OneHeir, Exists
    <2> QED
        BY <2>1, <2>2, <2>3, <2>4 DEF GInv, OneHeir, Exists
<1> HIDE DEF S, t
<1> QED
    BY <1>4, <1>5, <1>7, <1>8, <1>9, DropStep
-----------------------------------------------------------------------------
(* Inserts.  An access token comes with the refresh token t it refers to,  *)
(* which is there, not locked, and has no other access token.              *)

Inserts(i, content, t) ==
    /\ i \in Ids \ used /\ content \in Row
    /\ used' = used \cup {i} /\ row' = [row EXCEPT ![i] = content]
    /\ UNCHANGED <<deleted, locked, known, history>>
    /\ content.root \in used \cup {i, None}
    /\ i \in AuthIds => content.root = None
    /\ i \notin AuthIds => content.subject # None
    /\ i \in Refreshes => content.root # None
    /\ content.subject # None => content.since = begun[content.subject]
    /\ parent' \in [Accesses -> Refreshes \cup {None}]
    /\ \A x \in Accesses : parent'[x] = IF x = i THEN t ELSE parent[x]
    /\ t # None =>
           /\ t \in Refreshes /\ row[t] # None /\ t \notin locked
           /\ content.subject = row[t].subject /\ content.client = row[t].client
           /\ \A y \in Accesses : parent[y] # t

LEMMA InsertTables ==
    ASSUME GInv, NEW i, NEW content, NEW t, Inserts(i, content, t)
    PROVE  /\ RowsFit' /\ AccessFollows' /\ Evolves(used, row, used', row')
           /\ LockedStay /\ WrittenAfter
           /\ row' \in [Ids -> Row \cup {None}]
<1> USE DEF GInv
<1>1. content # None
    BY RowAssumption DEF Inserts
<1>2. row[i] = None
    BY DEF RowsFit, Exists, Inserts
<1>3. \A k \in Ids : row'[k] = IF k = i THEN content ELSE row[k]
    BY DEF Inserts, TypeOK
<1>4. \A k \in known \cup locked : k \in Ids /\ k # i /\ row[k] # None
    BY <1>2 DEF TypeOK, RowsFit, Transactions, Exists
<1>5. row' \in [Ids -> Row \cup {None}]
    BY DEF Inserts, TypeOK
<1>6. RowsFit'
    <2>1. (\A k \in Ids : Exists(k) => k \in used)'
        BY <1>3 DEF RowsFit, Exists, Inserts
    <2>2. (\A k \in AuthIds : Exists(k) => row[k].root = None)'
        BY <1>3, IdsAll DEF RowsFit, Exists, Inserts
    <2>3. (known \subseteq {k \in Ids : Exists(k)} /\ known \cap AuthIds \subseteq Begun)'
        <3>1. known' = known /\ \A k \in known : row'[k] = row[k]
            BY <1>3, <1>4 DEF Inserts
        <3> QED
            BY <1>4, <3>1 DEF RowsFit, Begun, Exists
    <2>4. \A k \in Cookies \cup Refreshes \cup Accesses : k \notin AuthIds /\ k \in Ids
        BY TablesApart, IdsAll
    <2>5. (\A k \in Cookies : Exists(k) => row[k].subject # None)'
        BY <1>3, <2>4 DEF RowsFit, Exists, Inserts
    <2>6. (\A k \in Tokens : row[k].subject # None)'
        BY <1>3, <2>4 DEF RowsFit, Exists, Inserts, Tokens
    <2>7. (\A k \in Ids : Exists(k) => row[k].root \in used \cup {None})'
        BY <1>3 DEF RowsFit, Exists, Inserts
    <2>8. (\A u \in Refreshes : Exists(u) => row[u].root # None)'
        BY <1>3, IdsAll DEF RowsFit, Exists, Inserts
    <2>9. (\A x \in Accesses : ~ Exists(x) => parent[x] = None)'
        BY <1>1, <1>3, IdsAll DEF RowsFit, Exists, Inserts
    <2> QED
        BY <2>1, <2>2, <2>3, <2>5, <2>6, <2>7, <2>8, <2>9 DEF RowsFit
<1>7. AccessFollows'
    <2>1. \A u \in Refreshes : row[u] # None => row'[u] = row[u]
        BY <1>2, <1>3, IdsAll
    <2>2. i \in Accesses => row'[i] = content
        BY <1>3, IdsAll
    <2>3. \A x \in Accesses : x # i /\ parent[x] # None => row'[x] = row[x]
        BY <1>3, IdsAll
    <2>4. \A x \in Accesses : parent[x] # None => parent[x] \in Refreshes /\ row[parent[x]] # None
        BY DEF TypeOK, AccessFollows, Exists
    <2>5. (\A x \in Accesses : parent[x] # None =>
              /\ Exists(parent[x])
              /\ row[x].subject = row[parent[x]].subject /\ row[x].client = row[parent[x]].client)'
        <3> SUFFICES ASSUME NEW x \in Accesses, parent'[x] # None
                     PROVE  /\ row'[parent'[x]] # None
                            /\ row'[x].subject = row'[parent'[x]].subject
                            /\ row'[x].client = row'[parent'[x]].client
            BY DEF Exists
        <3>1. CASE x = i
            BY <3>1, <2>1, <2>2 DEF Inserts
        <3>2. CASE x # i
            BY <3>2, <2>1, <2>3, <2>4 DEF Inserts, AccessFollows
        <3> QED
            BY <3>1, <3>2
    <2>6. (\A x, y \in Accesses : parent[x] # None /\ parent[x] = parent[y] => x = y)'
        BY DEF Inserts, AccessFollows
    <2> QED
        BY <2>5, <2>6 DEF AccessFollows
<1>8. Evolves(used, row, used', row')
    BY <1>3 DEF Evolves, Inserts
<1>9. LockedStay
    <2>1. None \notin locked
        BY NoneAssumption DEF TypeOK
    <2> QED
        BY <1>3, <1>4, <2>1 DEF LockedStay, Inserts
<1>10. WrittenAfter
    <2> SUFFICES ASSUME NEW k \in Ids, row'[k] # None, row'[k].subject # None, k = i
                 PROVE  row'[k].since >= begun[row'[k].subject]
        BY <1>3 DEF WrittenAfter
    <2>1. content.subject \in Accounts
        BY <1>3 DEF Inserts, Row
    <2>2. begun[content.subject] \in Nat
        BY <2>1 DEF TypeOK
    <2> QED
        BY <1>3, <2>2 DEF Inserts
<1> QED
    BY <1>5, <1>6, <1>7, <1>8, <1>9, <1>10

LEMMA InsertStep ==
    ASSUME GInv, NEW i, NEW content, NEW t, Inserts(i, content, t),
           RequestsFit, SameChanges, OneHeir', MintsApart'
    PROVE  GInv'
<1>1. /\ RowsFit' /\ AccessFollows' /\ LockedStay /\ WrittenAfter
      /\ row' \in [Ids -> Row \cup {None}]
    BY InsertTables
<1>2. Transactions' /\ GrantsAfterChange'
    BY <1>1, TransactionsKept, GrantsKept DEF Inserts, history
<1>3. /\ deleted' \in SUBSET Accounts /\ locked' \in SUBSET Ids /\ used' \in SUBSET Ids
      /\ known' \in SUBSET Ids /\ parent' \in [Accesses -> Refreshes \cup {None}]
      /\ begun' \in [Accounts -> Nat] /\ changes' \in [Accounts -> Nat]
      /\ uses' \in [AuthIds -> Nat]
    BY DEF GInv, TypeOK, Inserts, history
<1> QED
    BY <1>1, <1>2, <1>3, Assembled

(* Of anything but a refresh token.                                        *)
LEMMA InsertHeir ==
    ASSUME GInv, NEW i, NEW content, NEW t, Inserts(i, content, t), i \notin Refreshes, NoneTaken
    PROVE  OneHeir'
<1>1. \A u \in Refreshes : row'[u] # None => row[u] # None /\ row'[u].root = row[u].root
    BY IdsAll DEF Inserts, GInv, TypeOK
<1> QED
    BY <1>1, HeirKept

LEMMA InsertMints ==
    ASSUME GInv, NEW i, NEW content, Inserts(i, content, None), NoneMinted
    PROVE  MintsApart'
<1>1. \A x \in Accesses : parent'[x] # None => parent'[x] = parent[x]
    BY DEF Inserts
<1> QED
    BY <1>1, MintsKept

LEMMA ParentNone == ASSUME GInv, NEW x \in Accesses, x \notin used PROVE parent[x] = None
BY IdsAll DEF GInv, RowsFit, Exists

LEMMA AuthorizeStep ==
    ASSUME GInv, NEW i \in AuthIds, NEW c \in Clients, NEW offline \in BOOLEAN,
           Authorize(i, c, offline)
    PROVE  GInv'
<1> DEFINE content == [NoRow EXCEPT !.client = c, !.offline = offline]
<1>1. content \in Row /\ content.root = None /\ content.subject = None
    BY IdsAll DEF NoRow, Row
<1> HIDE DEF content
<1>2. i \notin Refreshes /\ i \notin Accesses
    BY TablesApart
<1>3. i \notin used /\ used' = used \cup {i} /\ row' = [row EXCEPT ![i] = content]
    BY DEF Authorize, Insert, content
<1>4. Inserts(i, content, None)
    BY <1>1, <1>2, <1>3, IdsAll DEF Authorize, Inserts, GInv, TypeOK
<1>5. pc' = pc /\ job' = job
    BY DEF Authorize
<1>6. RequestsFit
    BY <1>4, <1>5, InsertTables, StillFit
<1>7. SameChanges /\ NoneTaken /\ NoneMinted
    BY <1>5 DEF SameChanges, NoneTaken, NoneMinted
<1>8. OneHeir' /\ MintsApart'
    BY <1>2, <1>4, <1>7, InsertHeir, InsertMints
<1> QED
    BY <1>4, <1>6, <1>7, <1>8, InsertStep

LEMMA SubmitSessionStep ==
    ASSUME GInv, NEW r \in Requests, NEW k \in Cookies, SubmitSession(r, k)
    PROVE  GInv'
<1> DEFINE a == job[r].was.subject
           content == [job[r].was EXCEPT !.since = begun[a]]
           j == [job[r] EXCEPT !.minted = k]
<1>1. pc[r] = "loginSession" /\ Moves(r, "complete", j)
    BY DEF SubmitSession, Move, Moves, GInv, TypeOK
<1>2. Fits(used, row, "loginSession", job[r])
    BY <1>1, RequestFits
<1>3. job[r] \in Job /\ job[r].was \in Row /\ a # None /\ a \in Accounts
    BY <1>2 DEF Fits, Job, Row, LoggingIn
<1>4. begun[a] \in Nat
    BY <1>3 DEF GInv, TypeOK
<1>5. /\ content \in Row /\ content.subject = a /\ content.since = begun[a]
      /\ content.root = job[r].was.root
    BY <1>3, <1>4 DEF Row
<1>6. k \notin used /\ used' = used \cup {k} /\ row' = [row EXCEPT ![k] = content]
    BY DEF SubmitSession, Insert
<1>7. j \in Job /\ j.minted = k /\ j.on = job[r].on /\ j.was = job[r].was
    BY <1>3 DEF Job
<1> HIDE DEF a, content, j
<1>8. k \notin AuthIds /\ k \notin Refreshes /\ k \notin Accesses /\ k \in Ids
    BY TablesApart, IdsAll
<1>9. job[r].was.root \in used \cup {None}
    BY <1>2 DEF Fits, LoggingIn
<1>10. Inserts(k, content, None)
    BY <1>3, <1>5, <1>6, <1>8, <1>9 DEF SubmitSession, Inserts, GInv, TypeOK
<1>11. Evolves(used, row, used', row')
    BY <1>10, InsertTables
<1>12. Fits(used', row', "loginSession", job[r])
    BY <1>2, <1>11, FitsKept
<1>13. Fits(used', row', "complete", j)
    BY <1>12, <1>7 DEF Fits, Steps, LoggingIn, Minting, Leaving, Changing, Committing
<1>14. RequestsFit
    BY <1>1, <1>11, <1>13, MovesFit
<1>15. SameChanges /\ NoneTaken /\ NoneMinted
    BY <1>1, MovesApart DEF Committing
<1>16. OneHeir' /\ MintsApart'
    BY <1>8, <1>10, <1>15, InsertHeir, InsertMints
<1> QED
    BY <1>10, <1>14, <1>15, <1>16, InsertStep

(* MintRefresh: the new token belongs to a grant no token and no other     *)
(* exchange has, since its first token is new or the exchange held it.     *)
LEMMA MintRefreshStep ==
    ASSUME GInv, NEW r \in Requests, NEW t \in Refreshes, MintRefresh(r, t)
    PROVE  GInv'
<1> DEFINE a == job[r].was.subject
           g == Root(r, t)
           content == [job[r].was EXCEPT !.root = g, !.since = begun[a]]
           j == [job[r] EXCEPT !.minted = t, !.was.root = g]
<1>1. pc[r] = "mintRefresh" /\ Moves(r, "mintAccess", j)
    BY DEF MintRefresh, Move, Moves, GInv, TypeOK
<1>2. Fits(used, row, "mintRefresh", job[r])
    BY <1>1, RequestFits
<1>3. /\ job[r] \in Job /\ job[r].was \in Row /\ a # None /\ a \in Accounts
      /\ job[r].was.root \in used \cup {None} /\ job[r].was.root \in Refreshes \cup {None}
    BY <1>2 DEF Fits, Job, Row, Minting
<1>4. begun[a] \in Nat
    BY <1>3 DEF GInv, TypeOK
<1>5. t \notin used /\ used' = used \cup {t} /\ row' = [row EXCEPT ![t] = content]
    BY DEF MintRefresh, Insert
<1>6. t # None
    BY IdsAll, NoneAssumption
<1>7. g \in Refreshes /\ g # None /\ g \in used'
    BY <1>3, <1>5, <1>6 DEF Root
<1>8. /\ content \in Row /\ content.subject = a /\ content.since = begun[a] /\ content.root = g
      /\ content.client = job[r].was.client
    BY <1>3, <1>4, <1>7 DEF Row
<1>9. /\ j \in Job /\ j.minted = t /\ j.on = job[r].on /\ j.was.subject = a /\ j.was.root = g
      /\ j.was.client = job[r].was.client
    BY <1>3, <1>7 DEF Job, Row
<1>10. /\ Rotating(r) => g = job[r].was.root
       /\ ~ Rotating(r) => g = t
    BY <1>1 DEF Root, Rotating
<1> HIDE DEF a, content, j, g
<1>11. t \notin AuthIds /\ t \notin Accesses /\ t \in Ids
    BY TablesApart, IdsAll
<1>12. Inserts(t, content, None)
    BY <1>3, <1>5, <1>7, <1>8, <1>11 DEF MintRefresh, Inserts, GInv, TypeOK
<1>13. Evolves(used, row, used', row')
    BY <1>12, InsertTables
<1>14. Fits(used', row', "mintRefresh", job[r])
    BY <1>2, <1>13, FitsKept
<1>15. row'[t] = content
    BY <1>5, <1>11 DEF GInv, TypeOK
<1>16. Fits(used', row', "mintAccess", j)
    BY <1>3, <1>5, <1>7, <1>8, <1>9, <1>14, <1>15
       DEF Fits, Steps, LoggingIn, Minting, Leaving, Changing, Committing
<1>17. RequestsFit
    BY <1>1, <1>13, <1>16, MovesFit
<1>18. SameChanges /\ NoneTaken
    BY <1>1, MovesApart DEF Committing
<1>19. \A q \in Requests : q # r => pc'[q] = pc[q] /\ job'[q] = job[q]
    BY <1>1 DEF Moves, GInv, TypeOK
<1>20. pc'[r] = "mintAccess" /\ job'[r] = j
    BY <1>1 DEF Moves, GInv, TypeOK
<1>21. \A u \in Refreshes : row[u] # None => row[u].root # g
    <2>1. CASE Rotating(r)
        BY <2>1, <1>10 DEF GInv, OneHeir, Exists
    <2>2. CASE ~ Rotating(r)
        <3>1. \A u \in Refreshes : row[u] # None => row[u].root \in used
            BY IdsAll DEF GInv, RowsFit, Exists
        <3> QED
            BY <2>2, <3>1, <1>5, <1>10
    <2> QED
        BY <2>1, <2>2
<1>22. \A q \in Requests : Rotating(q) /\ q # r => job[q].was.root # g
    <2>1. CASE Rotating(r)
        BY <2>1, <1>10 DEF GInv, OneHeir
    <2>2. CASE ~ Rotating(r)
        <3>1. \A q \in Requests : Rotating(q) => job[q].was.root \in used
            BY RequestFits DEF Rotating, Fits, Minting
        <3> QED
            BY <2>2, <3>1, <1>5, <1>10
    <2> QED
        BY <2>1, <2>2
<1>23. OneHeir'
    <2>1. \A u \in Refreshes : u # t => row'[u] = row[u]
        BY <1>5, IdsAll DEF GInv, TypeOK
    <2>2. \A q \in Requests : Rotating(q)' => q # r /\ Rotating(q) /\ job'[q] = job[q]
        BY <1>19, <1>20 DEF Rotating
    <2>3. (\A u, v \in Refreshes :
              Exists(u) /\ Exists(v) /\ row[u].root = row[v].root => u = v)'
        BY <2>1, <1>8, <1>15, <1>21 DEF GInv, OneHeir, Exists
    <2>4. (\A u \in Refreshes, q \in Requests :
              Exists(u) /\ Rotating(q) => row[u].root # job[q].was.root)'
        BY <2>1, <2>2, <1>8, <1>15, <1>22 DEF GInv, OneHeir, Exists
    <2>5. (\A p, q \in Requests :
              Rotating(p) /\ Rotating(q) /\ job[p].was.root = job[q].was.root => p = q)'
        BY <2>2 DEF GInv, OneHeir
    <2> QED
        BY <2>3, <2>4, <2>5 DEF OneHeir
<1>24. MintsApart'
    <2>1. \A x \in Accesses : parent'[x] = parent[x]
        BY <1>11, <1>12 DEF Inserts
    <2>2. \A x \in Accesses : parent[x] # None => parent[x] \in used
        BY IdsAll DEF GInv, TypeOK, AccessFollows, RowsFit, Exists
    <2>3. \A q \in Requests : pc[q] = "mintAccess" /\ job[q].minted # None => job[q].minted \in used
        BY DEF GInv, MintedApart
    <2> QED
        BY <2>1, <2>2, <2>3, <1>5, <1>6, <1>9, <1>19, <1>20 DEF GInv, MintedApart, MintsApart
<1> QED
    BY <1>12, <1>17, <1>18, <1>23, <1>24, InsertStep

LEMMA MintAccessStep ==
    ASSUME GInv, NEW r \in Requests, NEW x \in Accesses, MintAccess(r, x)
    PROVE  GInv'
<1> DEFINE a == job[r].was.subject
           t == job[r].minted
           content == [job[r].was EXCEPT !.since = begun[a]]
           j == [job[r] EXCEPT !.access = x]
<1>1. pc[r] = "mintAccess" /\ Moves(r, "idToken", j)
    BY DEF MintAccess, Move, Moves, GInv, TypeOK
<1>2. Fits(used, row, "mintAccess", job[r])
    BY <1>1, RequestFits
<1>3. /\ job[r] \in Job /\ job[r].was \in Row /\ a # None /\ a \in Accounts
      /\ job[r].was.root \in used \cup {None} /\ t \in Refreshes \cup {None}
    BY <1>2 DEF Fits, Job, Row, Minting
<1>4. begun[a] \in Nat
    BY <1>3 DEF GInv, TypeOK
<1>5. /\ x \notin used /\ used' = used \cup {x} /\ row' = [row EXCEPT ![x] = content]
      /\ parent' = [parent EXCEPT ![x] = t]
    BY DEF MintAccess, Insert
<1>6. /\ content \in Row /\ content.subject = a /\ content.since = begun[a]
      /\ content.root = job[r].was.root /\ content.client = job[r].was.client
    BY <1>3, <1>4 DEF Row
<1>7. /\ j \in Job /\ j.minted = t /\ j.on = job[r].on /\ j.was = job[r].was
    BY <1>3 DEF Job
<1>8. t # None =>
          /\ row[t] # None /\ t \notin locked
          /\ content.subject = row[t].subject /\ content.client = row[t].client
          /\ \A y \in Accesses : parent[y] # t
    BY <1>1, <1>2, <1>6 DEF MintAccess, Exists, Fits, GInv, MintedApart
<1> HIDE DEF a, t, content, j
<1>9. x \notin AuthIds /\ x \notin Refreshes /\ x \in Ids
    BY TablesApart, IdsAll
<1>10. Inserts(x, content, t)
    <2>1. parent' \in [Accesses -> Refreshes \cup {None}]
        BY <1>3, <1>5 DEF GInv, TypeOK
    <2>2. \A y \in Accesses : parent'[y] = IF y = x THEN t ELSE parent[y]
        BY <1>5 DEF GInv, TypeOK
    <2> QED
        BY <2>1, <2>2, <1>3, <1>5, <1>6, <1>8, <1>9 DEF MintAccess, Inserts
<1>11. Evolves(used, row, used', row')
    BY <1>10, InsertTables
<1>12. Fits(used', row', "mintAccess", job[r])
    BY <1>2, <1>11, FitsKept
<1>13. Fits(used', row', "idToken", j)
    BY <1>12, <1>7 DEF Fits, Steps, LoggingIn, Minting, Leaving, Changing, Committing, t
<1>14. RequestsFit
    BY <1>1, <1>11, <1>13, MovesFit
<1>15. SameChanges /\ NoneTaken /\ NoneMinted
    BY <1>1, MovesApart DEF Committing
<1>16. OneHeir'
    BY <1>9, <1>10, <1>15, InsertHeir
<1>17. MintsApart'
    <2>1. \A q \in Requests : pc'[q] = "mintAccess" =>
              q # r /\ pc[q] = "mintAccess" /\ job'[q] = job[q]
        BY <1>1 DEF Moves, GInv, TypeOK
    <2>2. \A q \in Requests : q # r /\ pc[q] = "mintAccess" /\ job[q].minted # None =>
              job[q].minted # t
        BY <1>1 DEF GInv, MintedApart, t
    <2> QED
        BY <2>1, <2>2, <1>10 DEF GInv, MintedApart, MintsApart, Inserts
<1> QED
    BY <1>10, <1>14, <1>15, <1>16, <1>17, InsertStep
-----------------------------------------------------------------------------
(* Complete ties a request to an account; no row comes or goes.            *)

LEMMA CompleteStep ==
    ASSUME GInv, NEW r \in Requests, Complete(r)
    PROVE  GInv'
<1> USE DEF GInv
<1> DEFINE i == job[r].on
           a == job[r].was.subject
           content == [row[i] EXCEPT !.subject = a, !.since = begun[a]]
<1>1. pc[r] = "complete" /\ Moves(r, "idle", NoJob) /\ Fits(used', row', "idle", NoJob)
    BY FinishMoves, NoJobFits DEF Complete
<1>2. Fits(used, row, "complete", job[r])
    BY <1>1, RequestFits
<1>3. /\ i \in AuthIds /\ i \in Ids /\ a # None /\ a \in Accounts
      /\ job[r].minted \in Cookies \cup {None}
    BY <1>2, IdsAll DEF Fits, LoggingIn, Job, Row
<1>4. begun[a] \in Nat
    BY <1>3 DEF TypeOK
<1>5. row[i] # None => /\ content \in Row /\ content # None /\ content.subject = a
                       /\ content.since = begun[a] /\ content.root = row[i].root
                       /\ content.client = row[i].client
    <2> SUFFICES ASSUME row[i] # None
                 PROVE  /\ content \in Row /\ content # None /\ content.subject = a
                        /\ content.since = begun[a] /\ content.root = row[i].root
                        /\ content.client = row[i].client
        OBVIOUS
    <2>1. row[i] \in Row
        BY <1>3 DEF TypeOK
    <2>2. content \in Row /\ content.subject = a /\ content.since = begun[a]
          /\ content.root = row[i].root /\ content.client = row[i].client
        BY <2>1, <1>3, <1>4 DEF Row
    <2> QED
        BY <2>2, RowAssumption
<1>6. row' = IF row[i] # None THEN [row EXCEPT ![i] = content] ELSE row
    BY DEF Complete, Exists, TypeOK
<1>7. i \notin locked /\ known' = known \cup Delivered({job[r].minted})
      /\ UNCHANGED <<deleted, parent, locked, used, begun, changes, uses>>
    BY DEF Complete, history
<1> HIDE DEF content
<1>8. row' \in [Ids -> Row \cup {None}]
    BY <1>3, <1>5, <1>6 DEF TypeOK
<1>9. \A k \in Ids : row'[k] = IF k = i /\ row[i] # None THEN content ELSE row[k]
    BY <1>3, <1>6 DEF TypeOK
<1>10. \A k \in Cookies \cup Refreshes \cup Accesses : k \in Ids /\ k # i /\ k \notin AuthIds
    BY <1>3, TablesApart, IdsAll
<1>11. \A k \in Ids : row'[k] # None =>
           /\ row[k] # None /\ row'[k].root = row[k].root /\ row'[k].client = row[k].client
           /\ k \notin AuthIds => row'[k] = row[k]
           /\ row[k].subject # None => row'[k].subject # None
    BY <1>3, <1>5, <1>9
<1> HIDE DEF i, a
<1>12. Evolves(used, row, used', row')
    BY <1>7, <1>11 DEF Evolves
<1>13. RequestsFit
    BY <1>1, <1>12, MovesFit
<1>14. SameChanges /\ NoneTaken /\ NoneMinted
    BY <1>1, MovesApart DEF Committing
<1>15. RowsFit'
    <2>1. (\A k \in Ids : Exists(k) => k \in used)'
        BY <1>7, <1>11 DEF RowsFit, Exists
    <2>2. (\A k \in AuthIds : Exists(k) => row[k].root = None)'
        BY <1>11, IdsAll DEF RowsFit, Exists
    <2>3. (known \subseteq {k \in Ids : Exists(k)} /\ known \cap AuthIds \subseteq Begun)'
        <3>1. \A k \in Delivered({job[r].minted}) : k \in Cookies /\ row[k] # None
            BY <1>3 DEF Delivered, Exists
        <3>2. \A k \in known : k \in Ids /\ row[k] # None /\ (k \in AuthIds => row[k].subject # None)
            BY KnownRead
        <3>3. \A k \in Ids : row[k] # None => row'[k] # None
            BY <1>5, <1>9
        <3> QED
            BY <1>7, <1>10, <1>11, <3>1, <3>2, <3>3 DEF Begun, Exists
    <2>4. (\A k \in Cookies : Exists(k) => row[k].subject # None)'
        BY <1>10, <1>11 DEF RowsFit, Exists
    <2>5. (\A k \in Tokens : row[k].subject # None)'
        BY <1>10, <1>11 DEF RowsFit, Exists, Tokens
    <2>6. (\A k \in Ids : Exists(k) => row[k].root \in used \cup {None})'
        BY <1>7, <1>11 DEF RowsFit, Exists
    <2>7. (\A u \in Refreshes : Exists(u) => row[u].root # None)'
        BY <1>10, <1>11 DEF RowsFit, Exists
    <2>8. (\A x \in Accesses : ~ Exists(x) => parent[x] = None)'
        BY <1>7, <1>9, <1>10 DEF RowsFit, Exists
    <2> QED
        BY <2>1, <2>2, <2>3, <2>4, <2>5, <2>6, <2>7, <2>8 DEF RowsFit
<1>16. AccessFollows'
    <2>1. \A x \in Accesses : row'[x] = row[x]
        BY <1>9, <1>10
    <2>2. \A x \in Accesses : parent[x] # None => row'[parent[x]] = row[parent[x]]
        BY <1>9, <1>10 DEF TypeOK
    <2> QED
        BY <1>7, <2>1, <2>2 DEF AccessFollows, Exists
<1>17. LockedStay
    <2>1. \A k \in locked : k \in Ids /\ row[k] # None /\ k # i
        BY <1>7 DEF TypeOK, Transactions, Exists
    <2> QED
        BY <1>7, <1>9, <2>1 DEF LockedStay
<1>18. WrittenAfter
    <2>1. row[i] # None => row'[i].since >= begun[row'[i].subject]
        BY <1>3, <1>4, <1>5, <1>9
    <2> QED
        BY <1>9, <2>1 DEF WrittenAfter
<1>19. OneHeir'
    <2>1. \A u \in Refreshes : row'[u] # None => row[u] # None /\ row'[u].root = row[u].root
        BY <1>11, IdsAll
    <2> QED
        BY <2>1, <1>14, HeirKept
<1>20. MintsApart'
    BY <1>7, <1>14, MintsKept
<1>21. Transactions' /\ GrantsAfterChange'
    BY <1>7, <1>8, <1>14, <1>17, <1>18, TransactionsKept, GrantsKept
<1>22. /\ deleted' \in SUBSET Accounts /\ locked' \in SUBSET Ids /\ used' \in SUBSET Ids
       /\ parent' \in [Accesses -> Refreshes \cup {None}]
       /\ begun' \in [Accounts -> Nat] /\ changes' \in [Accounts -> Nat]
       /\ uses' \in [AuthIds -> Nat]
    BY <1>7 DEF TypeOK
<1>23. known' \in SUBSET Ids
    BY <1>15 DEF RowsFit
<1> QED
    BY <1>8, <1>13, <1>15, <1>16, <1>19, <1>20, <1>21, <1>22, <1>23, Assembled

-----------------------------------------------------------------------------
(* Credential changes: the DELETEs lock rows, the commit deletes them, and *)
(* a rollback lets go of them.                                             *)

LEMMA StatementsStep ==
    ASSUME GInv, NEW r \in Requests, NEW from \in {"passwordTx", "deleteTx"},
           NEW to \in Committing, Statements(r, from, to)
    PROVE  GInv'
<1> USE DEF GInv
<1> DEFINE a == job[r].on
<1>1. pc[r] = from /\ Moves(r, to, job[r])
    BY MoveMoves DEF Statements
<1>2. Fits(used, row, from, job[r])
    BY <1>1, RequestFits
<1>3. a \in Accounts /\ a # None
    BY <1>2, NoneAssumption DEF Fits, Changing
<1>4. /\ UNCHANGED <<deleted, row, parent, used, known, job, changes, uses>>
      /\ locked' = locked \cup Owned(a)
      /\ begun' = [begun EXCEPT ![a] = @ + 1]
      /\ \A q \in Requests : pc[q] \in Committing => job[q].on # a
    BY DEF Statements, Revoked
<1>5. /\ begun' \in [Accounts -> Nat] /\ begun'[a] = begun[a] + 1
      /\ \A b \in Accounts : b # a => begun'[b] = begun[b]
    BY <1>3, <1>4 DEF TypeOK
<1>6. Fits(used', row', to, job[r])
    BY <1>2, <1>4 DEF Fits, Steps, LoggingIn, Minting, Leaving, Changing, Committing
<1>7. Evolves(used, row, used', row')
    BY <1>4 DEF Evolves
<1>8. RequestsFit
    BY <1>1, <1>6, <1>7, MovesFit
<1>9. \A q \in Requests :
          /\ job'[q] = job[q]
          /\ pc'[q] \in Committing <=> q = r \/ pc[q] \in Committing
          /\ q # r => pc'[q] = pc[q]
    BY <1>1, <1>4 DEF Moves, TypeOK
<1>10. \A q \in Requests : pc[q] \in Committing => job[q].on \in Accounts
    BY RequestFits DEF Fits, Changing
<1> HIDE DEF a
<1>11. Transactions'
    <2>1. (\A p, q \in Requests :
              pc[p] \in Committing /\ pc[q] \in Committing /\ p # q => job[p].on # job[q].on)'
        BY <1>4, <1>9 DEF Transactions, a
    <2>2. (\A i \in locked :
              Exists(i) /\ \E q \in Requests : pc[q] \in Committing /\ row[i].subject = job[q].on)'
        BY <1>4, <1>9 DEF Transactions, Exists, Owned, a
    <2>3. (\A x \in Accesses : parent[x] \in locked => x \in locked)'
        <3> SUFFICES ASSUME NEW x \in Accesses, parent[x] \in Owned(a) PROVE x \in Owned(a)
            BY <1>4 DEF Transactions
        <3>1. parent[x] \in Ids /\ row[parent[x]].subject = a
            BY DEF Owned
        <3>2. parent[x] # None
            BY <3>1, NoneAssumption
        <3>3. row[x].subject = a /\ Exists(x)
            BY <3>1, <3>2 DEF AccessFollows, RowsFit
        <3> QED
            BY <3>3, IdsAll DEF Owned
    <2>4. (\A b \in Accounts : changes[b] <= begun[b])'
        BY <1>3, <1>4, <1>5 DEF Transactions, TypeOK
    <2>5. (\A q \in Requests : pc[q] \in Committing => begun[job[q].on] > changes[job[q].on])'
        <3>1. changes[a] <= begun[a] /\ changes[a] \in Nat /\ begun[a] \in Nat
            BY <1>3 DEF Transactions, TypeOK
        <3>2. begun'[a] > changes[a]
            BY <3>1, <1>5
        <3> QED
            BY <3>2, <1>4, <1>5, <1>9, <1>10 DEF Transactions, a
    <2>6. (\A q \in Requests, i \in Ids :
              pc[q] \in Committing /\ Exists(i) /\ row[i].subject = job[q].on /\ i \notin locked =>
                  row[i].since >= begun[job[q].on])'
        BY <1>4, <1>5, <1>9, <1>10 DEF Transactions, Exists, Owned, a
    <2> QED
        BY <2>1, <2>2, <2>3, <2>4, <2>5, <2>6 DEF Transactions
<1>12. NoneTaken /\ NoneMinted
    BY <1>1, MovesApart DEF Committing
<1>13. OneHeir' /\ MintsApart'
    BY <1>4, <1>12, HeirKept, MintsKept
<1>14. RowsFit' /\ AccessFollows' /\ GrantsAfterChange'
    <2>1. RowsFit'
        BY <1>4 DEF RowsFit, Exists, Begun, Tokens
    <2>2. AccessFollows'
        BY <1>4 DEF AccessFollows, Exists
    <2>3. GrantsAfterChange'
        BY <1>4 DEF GrantsAfterChange, Exists
    <2> QED
        BY <2>1, <2>2, <2>3
<1>15. locked' \in SUBSET Ids
    BY <1>4 DEF Owned, TypeOK
<1> QED
    BY <1>4, <1>5, <1>8, <1>11, <1>13, <1>14, <1>15, Assembled DEF TypeOK

(* The end of r's transaction, committed or rolled back: what it locked is *)
(* let go of, and in a commit gone (S).                                    *)
Ends(r, S) ==
    /\ Drops(S)
    /\ S \subseteq LockedBy(r)
    /\ locked' = locked \ LockedBy(r)
    /\ begun' = begun /\ uses' = uses
    /\ deleted' \in SUBSET Accounts
    /\ \/ changes' = changes
       \/ S = LockedBy(r) /\ changes' = [changes EXCEPT ![job[r].on] = begun[job[r].on]]

LEMMA EndsStep ==
    ASSUME GInv, NEW r \in Requests, NEW S, Ends(r, S), pc[r] \in Committing,
           Moves(r, "idle", NoJob)
    PROVE  GInv'
<1> USE DEF GInv
<1> DEFINE a == job[r].on
           L == LockedBy(r)
<1>1. a \in Accounts
    BY RequestFits DEF Fits, Changing
<1>2. RowsFit' /\ AccessFollows' /\ Evolves(used, row, used', row')
    BY DropsTables DEF Ends
<1>3. RequestsFit
    BY <1>2, NoJobFits, MovesFit
<1>4. \A q \in Requests :
          /\ pc'[q] \in Committing <=> q # r /\ pc[q] \in Committing
          /\ q # r => pc'[q] = pc[q] /\ job'[q] = job[q]
    BY DEF Moves, TypeOK, Committing
<1>5. \A q \in Requests : q # r /\ pc[q] \in Committing => job[q].on # a /\ job[q].on \in Accounts
    <2>1. \A q \in Requests : pc[q] \in Committing => job[q].on \in Accounts
        BY RequestFits DEF Fits, Changing
    <2> QED
        BY <2>1 DEF Transactions
<1>6. \A i \in Ids : i \in L <=> i \in locked /\ row[i] # None /\ row[i].subject = a
    BY DEF LockedBy, Owned, Exists
<1>7. \A i \in Ids : row'[i] # None => i \notin S /\ row'[i] = row[i] /\ row[i] # None
    BY DEF Ends, Drops
<1>8. \A i \in locked : i \in Ids /\ i # None /\ row[i] # None
    BY NoneAssumption DEF TypeOK, Transactions, Exists
<1>9. /\ changes' \in [Accounts -> Nat]
      /\ \A b \in Accounts : b # a => changes'[b] = changes[b]
      /\ changes'[a] = changes[a] \/ (S = L /\ changes'[a] = begun[a])
    BY <1>1 DEF Ends, TypeOK
<1>10. S \subseteq L /\ locked' = locked \ L /\ begun' = begun
    BY DEF Ends
<1> HIDE DEF a, L
<1>11. Transactions'
    <2>1. (\A p, q \in Requests :
              pc[p] \in Committing /\ pc[q] \in Committing /\ p # q => job[p].on # job[q].on)'
        BY <1>4 DEF Transactions
    <2>2. (\A i \in locked :
              Exists(i) /\ \E q \in Requests : pc[q] \in Committing /\ row[i].subject = job[q].on)'
        <3> SUFFICES ASSUME NEW i \in locked, i \notin L
                     PROVE  row'[i] # None /\ \E q \in Requests :
                                pc'[q] \in Committing /\ row'[i].subject = job'[q].on
            BY <1>10 DEF Exists
        <3>1. i \in Ids /\ row[i] # None /\ row[i].subject # a
            BY <1>6, <1>8
        <3>2. PICK q \in Requests : pc[q] \in Committing /\ row[i].subject = job[q].on
            BY DEF Transactions
        <3>3. q # r
            BY <3>1, <3>2 DEF a
        <3>4. row'[i] = row[i]
            BY <3>1, <1>10 DEF Ends, Drops
        <3> QED
            BY <3>1, <3>2, <3>3, <3>4, <1>4
    <2>3. (\A x \in Accesses : parent[x] \in locked => x \in locked)'
        <3> SUFFICES ASSUME NEW x \in Accesses, parent'[x] \in locked, parent'[x] \notin L
                     PROVE  x \in locked /\ x \notin L
            BY <1>10
        <3>1. parent'[x] # None /\ parent'[x] = parent[x]
            BY <1>8 DEF Ends, Drops
        <3>2. x \in locked /\ x \in Ids
            BY <3>1, IdsAll DEF Transactions
        <3>3. row[x].subject = row[parent[x]].subject
            BY <3>1 DEF AccessFollows
        <3> QED
            BY <3>1, <3>2, <3>3, <1>6, <1>8
    <2>4. (\A b \in Accounts : changes[b] <= begun[b])'
        BY <1>1, <1>9, <1>10 DEF Transactions, TypeOK
    <2>5. (\A q \in Requests : pc[q] \in Committing => begun[job[q].on] > changes[job[q].on])'
        BY <1>4, <1>5, <1>9, <1>10 DEF Transactions
    <2>6. (\A q \in Requests, i \in Ids :
              pc[q] \in Committing /\ Exists(i) /\ row[i].subject = job[q].on /\ i \notin locked =>
                  row[i].since >= begun[job[q].on])'
        <3> SUFFICES ASSUME NEW q \in Requests, NEW i \in Ids, pc'[q] \in Committing,
                            row'[i] # None, row'[i].subject = job'[q].on, i \notin locked'
                     PROVE  row'[i].since >= begun[job'[q].on]
            BY <1>10 DEF Exists
        <3>1. q # r /\ pc[q] \in Committing /\ job'[q] = job[q] /\ row'[i] = row[i] /\ row[i] # None
            BY <1>4, <1>7
        <3>2. i \notin locked
            BY <3>1, <1>5, <1>6, <1>10
        <3> QED
            BY <3>1, <3>2 DEF Transactions, Exists
    <2> QED
        BY <2>1, <2>2, <2>3, <2>4, <2>5, <2>6 DEF Transactions
<1>12. GrantsAfterChange'
    <2> SUFFICES ASSUME NEW i \in Ids, row'[i] # None, row'[i].subject # None
                 PROVE  row'[i].since >= changes'[row'[i].subject]
        BY DEF GrantsAfterChange, Exists
    <2>1. row'[i] = row[i] /\ row[i] # None /\ i \notin S
        BY <1>7
    <2>2. row[i].subject \in Accounts /\ row[i].since >= changes[row[i].subject]
        BY <2>1 DEF GrantsAfterChange, Exists, TypeOK, Row
    <2>3. CASE row[i].subject # a
        BY <2>1, <2>2, <2>3, <1>9
    <2>4. CASE row[i].subject = a /\ changes'[a] = changes[a]
        BY <2>1, <2>2, <2>4
    <2>5. CASE row[i].subject = a /\ S = L /\ changes'[a] = begun[a]
        <3>1. i \notin locked
            BY <2>1, <2>5, <1>6
        <3>2. row[i].since >= begun[a]
            BY <2>1, <2>5, <3>1 DEF Transactions, Exists, a
        <3> QED
            BY <2>1, <2>5, <3>2
    <2> QED
        BY <2>3, <2>4, <2>5, <1>9
<1>13. NoneTaken /\ NoneMinted
    BY MovesApart
<1>14. OneHeir' /\ MintsApart'
    BY <1>13, DropsHeir, MintsKept DEF Ends, Drops
<1>15. /\ deleted' \in SUBSET Accounts /\ locked' \in SUBSET Ids /\ used' \in SUBSET Ids
       /\ known' \in SUBSET Ids /\ parent' \in [Accesses -> Refreshes \cup {None}]
       /\ row' \in [Ids -> Row \cup {None}]
       /\ begun' \in [Accounts -> Nat] /\ uses' \in [AuthIds -> Nat]
    BY DEF Ends, Drops, TypeOK
<1> QED
    BY <1>2, <1>3, <1>9, <1>11, <1>12, <1>14, <1>15, Assembled

LEMMA LockedClosed ==
    ASSUME GInv, NEW r \in Requests, NEW x \in Accesses, parent[x] \in LockedBy(r)
    PROVE  x \in LockedBy(r)
<1>1. parent[x] \in locked /\ parent[x] \in Ids /\ row[parent[x]].subject = job[r].on
    BY DEF LockedBy, Owned
<1>2. parent[x] # None
    BY <1>1, NoneAssumption
<1>3. x \in locked /\ Exists(x) /\ row[x].subject = job[r].on
    BY <1>1, <1>2 DEF GInv, Transactions, AccessFollows, RowsFit
<1> QED
    BY <1>3, IdsAll DEF LockedBy, Owned

LEMMA CommitStep ==
    ASSUME GInv, NEW r \in Requests, NEW from \in Committing, Commit(r, from),
           deleted' \in SUBSET Accounts
    PROVE  GInv'
<1>1. pc[r] \in Committing /\ Moves(r, "idle", NoJob)
    BY FinishMoves DEF Commit
<1>2. Drops(LockedBy(r))
    BY LockedClosed, DropDrops DEF Commit
<1>3. Ends(r, LockedBy(r))
    BY <1>2 DEF Ends, Commit
<1> QED
    BY <1>1, <1>3, EndsStep

LEMMA AbortStep ==
    ASSUME GInv, NEW r \in Requests, Abort(r)
    PROVE  GInv'
<1>1. CASE pc[r] \in Committing
    <2>1. Moves(r, "idle", NoJob)
        BY FinishMoves DEF Abort
    <2>2. UNCHANGED <<deleted, row, parent, used, known, history>>
        BY DEF Abort
    <2>3. \A i \in known : row[i] # None /\ (i \in AuthIds => row[i].subject # None)
        BY KnownRead
    <2>4. Drops({})
        BY <2>2, <2>3 DEF Drops, GInv, TypeOK
    <2>5. Ends(r, {})
        BY <1>1, <2>2, <2>4 DEF Ends, Abort, history, GInv, TypeOK
    <2> QED
        BY <1>1, <2>1, <2>5, EndsStep
<1>2. CASE pc[r] \notin Committing
    <2>1. UNCHANGED <<deleted, tables, history>>
        BY <1>2 DEF Abort, tables
    <2>2. Finish(r, pc[r])
        BY DEF Abort
    <2> QED
        BY <1>2, <2>1, <2>2, ReadEnds
<1> QED
    BY <1>1, <1>2

-----------------------------------------------------------------------------
(* The invariant.                                                          *)

LEMMA InitGInv == Init => GInv
<1> SUFFICES ASSUME Init PROVE GInv
    OBVIOUS
<1> USE DEF Init
<1>1. TypeOK
    BY IdsAll DEF TypeOK, Steps
<1>2. RowsFit
    BY IdsAll DEF RowsFit, Exists, Begun, Tokens
<1>3. JobsFit
    BY DEF JobsFit, Committing
<1>4. Transactions
    BY DEF Transactions, Committing, Exists
<1>5. OneHeir /\ MintedApart
    BY IdsAll DEF OneHeir, MintedApart, Exists, Rotating
<1>6. AccessFollows /\ GrantsAfterChange
    BY DEF AccessFollows, GrantsAfterChange, Exists
<1> QED
    BY <1>1, <1>2, <1>3, <1>4, <1>5, <1>6 DEF GInv

LEMMA StutterGInv == GInv /\ UNCHANGED vars => GInv'
<1> SUFFICES ASSUME GInv, UNCHANGED vars PROVE GInv'
    OBVIOUS
<1>1. Drops({}) /\ {} \cap locked = {} /\ locked' = locked
    BY NothingDrops DEF vars, tables
<1> QED
    BY <1>1, DropAlone DEF vars

LEMMA NextGInv == GInv /\ [Next]_vars => GInv'
<1> SUFFICES ASSUME GInv, [Next]_vars PROVE GInv'
    OBVIOUS
<1>1. ASSUME NEW i \in AuthIds, NEW c \in Clients, NEW offline \in BOOLEAN, Authorize(i, c, offline)
      PROVE  GInv'
    BY <1>1, AuthorizeStep
<1>2. ASSUME NEW r \in Requests, Login(r) PROVE GInv'
    BY <1>2, SubmitGateStep, LoginReadStep, CallbackStep, SubmitSessionStep, LoginAccountStep,
       CompleteStep, SaveCodeStep DEF Login
<1>3. ASSUME NEW r \in Requests, Token(r) PROVE GInv'
    BY <1>3, CodeReadStep, RefreshReadStep, MintRefreshStep, MintAccessStep, RotateStep,
       RotateLostStep, MintRefusedStep, IdTokenStep, RespondStep DEF Token
<1>4. ASSUME NEW r \in Requests, SignOut(r) PROVE GInv'
    BY <1>4, RevokeReadStep, LogoutReadStep, RevokeDeleteStep, LogoutCookieStep,
       LogoutRefreshStep, LogoutAccessStep DEF SignOut
<1>5. ASSUME NEW r \in Requests, Change(r) PROVE GInv'
    <2>1. CASE \E a \in Accounts : PasswordRead(r, a) \/ DeleteRead(r, a)
        BY <2>1, ChangeReadStep
    <2>2. CASE PasswordStatements(r) \/ DeleteStatements(r)
        BY <2>2, StatementsStep DEF PasswordStatements, DeleteStatements, Committing
    <2>3. CASE PasswordCommit(r)
        BY <2>3, CommitStep DEF PasswordCommit, Committing, GInv, TypeOK
    <2>4. CASE DeleteCommit(r)
        <3>1. pc[r] = "deleteCommit"
            BY <2>4 DEF DeleteCommit, Commit, Finish, Move
        <3>2. job[r].on \in Accounts
            BY <3>1, RequestFits DEF Fits, Changing, Committing
        <3>3. deleted' \in SUBSET Accounts
            BY <2>4, <3>2 DEF DeleteCommit, GInv, TypeOK
        <3> QED
            BY <2>4, <3>3, CommitStep DEF DeleteCommit, Committing
    <2> QED
        BY <1>5, <2>1, <2>2, <2>3, <2>4 DEF Change
<1>6. ASSUME NEW r \in Requests, Abort(r) PROVE GInv'
    BY <1>6, AbortStep
<1>7. ASSUME NEW x \in Accesses, RevokeAccess(x) PROVE GInv'
    BY <1>7, RevokeAccessStep
<1>8. ASSUME NEW table \in {AuthIds, Cookies, Refreshes, Accesses}, NEW S \in SUBSET table, Sweep(S)
      PROVE  GInv'
    BY <1>8, SweepStep, IdsAll
<1>9. CASE UNCHANGED vars
    BY <1>9, StutterGInv
<1> QED
    BY <1>1, <1>2, <1>3, <1>4, <1>5, <1>6, <1>7, <1>8, <1>9 DEF Next

(* GInv holds in every state a run of the provider reaches.                *)
THEOREM GrantsInvariant == Spec => []GInv
BY InitGInv, NextGInv, PTL DEF Spec

(* However exchanges of its refresh tokens interleave, a grant never forks *)
(* (CreateAccessAndRefreshTokens).                                         *)
THEOREM HeirAlone == Spec => []OneHeir
<1>1. GInv => OneHeir
    BY DEF GInv
<1> QED
    BY <1>1, GrantsInvariant, PTL

(* No access token outlives the refresh token it was minted with (the      *)
(* cascade of oidc_access_tokens.refresh_token_id).                        *)
THEOREM AccessEndsWithRefresh == Spec => []AccessFollows
<1>1. GInv => AccessFollows
    BY DEF GInv
<1> QED
    BY <1>1, GrantsInvariant, PTL

(* Nothing the provider held for an account outlives a credential change   *)
(* of it (revoker.go, DeleteAll).                                          *)
THEOREM ChangeEndsGrants == Spec => []GrantsAfterChange
<1>1. GInv => GrantsAfterChange
    BY DEF GInv
<1> QED
    BY <1>1, GrantsInvariant, PTL

LEMMA LogoutEndsIssued ==
    ASSUME GInv, NEW r \in Requests, LogoutAccess(r), NEW i \in job[r].issued
    PROVE  row'[i] = None
<1> DEFINE S == GrantsAt(Accesses, job[r].was.subject, job[r].was.client)
<1>1. Fits(used, row, "logoutAccess", job[r])
    BY RequestFits DEF LogoutAccess, Finish, Move
<1>2. i \in Refreshes \cup Accesses /\ i \in Ids
    BY <1>1, IdsAll DEF Fits, Job
<1>3. row' = [k \in Ids |-> IF k \in S THEN None ELSE row[k]]
    BY DEF LogoutAccess, Delete, Drop
<1>4. row[i] # None => i \in S
    BY <1>1, <1>2 DEF Fits, Leaving, GrantsAt, Exists
<1> QED
    BY <1>2, <1>3, <1>4

(* What the first DELETE leaves: an access token that belongs to a refresh *)
(* token has its subject and client, so both are deleted.                  *)
LEMMA LogoutEndsRenewal ==
    ASSUME GInv, NEW r \in Requests, LogoutRefresh(r), NEW i \in job[r].issued, row'[i] # None
    PROVE  i \in Accesses /\ parent'[i] = None
<1> DEFINE S == GrantsAt(Refreshes, job[r].was.subject, job[r].was.client)
<1>1. Fits(used, row, "logoutRefresh", job[r])
    BY RequestFits DEF LogoutRefresh, Move
<1>2. i \in Refreshes \cup Accesses /\ i \in Ids
    BY <1>1, IdsAll DEF Fits, Job
<1>3. /\ row' = [k \in Ids |-> IF k \in Cascade(S) THEN None ELSE row[k]]
      /\ parent' = [x \in Accesses |-> IF x \in Cascade(S) THEN None ELSE parent[x]]
    BY DEF LogoutRefresh, Delete, Drop
<1>4. row[i] # None /\ i \notin Cascade(S)
    BY <1>2, <1>3
<1>5. row[i].subject = job[r].was.subject /\ row[i].client = job[r].was.client
    BY <1>1, <1>4 DEF Fits, Leaving
<1>6. i \in Accesses
    BY <1>2, <1>4, <1>5 DEF Cascade, GrantsAt, Exists
<1>7. parent[i] = None
    <2> SUFFICES ASSUME parent[i] # None PROVE FALSE
        OBVIOUS
    <2>1. parent[i] \in Refreshes
        BY <1>6 DEF GInv, TypeOK
    <2>2. /\ Exists(parent[i])
          /\ row[i].subject = row[parent[i]].subject /\ row[i].client = row[parent[i]].client
        BY <1>6 DEF GInv, AccessFollows
    <2>3. parent[i] \in S
        BY <1>5, <2>1, <2>2 DEF GrantsAt
    <2> QED
        BY <1>4, <1>6, <2>3 DEF Cascade
<1> QED
    BY <1>3, <1>4, <1>6, <1>7

(* Of the tokens the account had, when a logout began, at the client it    *)
(* names, its first DELETE leaves none that is or has a refresh token, and *)
(* its second leaves none (oidc_handlers.go, Logout).                      *)
THEOREM LogoutEnds == Spec => LogoutEndsClient
<1>1. GInv /\ [Next]_vars =>
          [\A r \in Requests :
              /\ LogoutRefresh(r) =>
                     \A i \in job[r].issued : row'[i] # None => i \in Accesses /\ parent'[i] = None
              /\ LogoutAccess(r) => \A i \in job[r].issued : row'[i] = None]_vars
    BY LogoutEndsIssued, LogoutEndsRenewal
<1> QED
    BY <1>1, GrantsInvariant, PTL DEF Spec, LogoutEndsClient

-----------------------------------------------------------------------------
(* Refinement of GrantFamily.  Every step but Rotate and MintRefresh is an *)
(* ebb: no refresh token comes and no exchange takes one, so that some     *)
(* grants end and the others stay where they are.                          *)

Held(g) == \E r \in Requests : Rotating(r) /\ job[r].was.root = g

LEMMA TipValue ==
    ASSUME GInv, NEW g \in Refreshes
    PROVE  /\ \A t \in LiveOf(g) : Tip(g) = t /\ ~ Held(g)
           /\ LiveOf(g) = {} => Tip(g) = IF Held(g) THEN Moving ELSE None
<1>1. \A t, u \in LiveOf(g) : t = u
    BY DEF LiveOf, GInv, OneHeir
<1>2. \A t \in LiveOf(g) : ~ Held(g)
    BY DEF LiveOf, Held, GInv, OneHeir
<1> QED
    BY <1>1, <1>2 DEF Tip, Held

LEMMA TipNext ==
    ASSUME GInv', NEW g \in Refreshes
    PROVE  /\ \A t \in LiveOf(g)' : Tip(g)' = t /\ ~ Held(g)'
           /\ LiveOf(g)' = {} => Tip(g)' = IF Held(g)' THEN Moving ELSE None
<1>1. \A t, u \in LiveOf(g)' : t = u
    BY DEF LiveOf, GInv, OneHeir
<1>2. \A t \in LiveOf(g)' : ~ Held(g)'
    BY DEF LiveOf, Held, GInv, OneHeir
<1> QED
    BY <1>1, <1>2 DEF Tip, Held

Ebb ==
    /\ used' \cap Refreshes = used \cap Refreshes
    /\ \A t \in Refreshes : row'[t] # None => row[t] # None /\ row'[t].root = row[t].root
    /\ NoneTaken

LEMMA EbbEnds ==
    ASSUME GInv, GInv', Ebb
    PROVE  Families!Next
<1> DEFINE G == {g \in Refreshes : Tip(g)' = None}
<1>1. \A g \in Refreshes : Tip(g)' = None \/ Tip(g)' = Tip(g)
    <2> SUFFICES ASSUME NEW g \in Refreshes PROVE Tip(g)' = None \/ Tip(g)' = Tip(g)
        OBVIOUS
    <2>1. \A t \in LiveOf(g)' : t \in LiveOf(g)
        BY DEF LiveOf, Exists, Ebb
    <2>2. Held(g)' => Held(g)
        BY DEF Held, Rotating, Ebb, NoneTaken
    <2>3. CASE LiveOf(g)' # {}
        BY <2>1, <2>3, TipValue, TipNext
    <2>4. CASE LiveOf(g)' = {} /\ Held(g)'
        <3>1. Tip(g)' = Moving
            BY <2>4, TipNext
        <3>2. Held(g) /\ LiveOf(g) = {}
            BY <2>2, <2>4, TipValue
        <3>3. Tip(g) = Moving
            BY <3>2, TipValue
        <3> QED
            BY <3>1, <3>3
    <2>5. CASE LiveOf(g)' = {} /\ ~ Held(g)'
        BY <2>5, TipNext
    <2> QED
        BY <2>3, <2>4, <2>5
<1>2. [g \in Refreshes |-> Tip(g)'] =
          [g \in Refreshes |-> IF g \in G THEN None ELSE [h \in Refreshes |-> Tip(h)][g]]
    BY <1>1
<1>3. Families!End(G)
    BY <1>2 DEF Families!End, Ebb
<1> QED
    BY <1>3 DEF Families!Next

(* What makes an ebb: requests that do not come to mintRefresh, and rows   *)
(* that stay or go.                                                        *)
LEMMA NoneTakes ==
    ASSUME GInv, NEW r \in Requests, NEW p, NEW j, Moves(r, p, j),
           p = "mintRefresh" => j.was.root = None
    PROVE  NoneTaken
BY MovesApart

LEMMA DropEbbs ==
    ASSUME GInv, NEW S, Delete(S) \/ UNCHANGED tables, NoneTaken
    PROVE  Ebb
BY IdsAll DEF Ebb, Delete, Drop, tables

LEMMA InsertEbbs ==
    ASSUME GInv, NEW k \in Ids \ Refreshes, NEW content, Insert(k, content), NoneTaken
    PROVE  Ebb
BY IdsAll DEF Ebb, Insert, GInv, TypeOK

LEMMA StartTakes ==
    ASSUME GInv, NEW r \in Requests, NEW step, NEW j, Start(r, step, j), step # "mintRefresh"
    PROVE  NoneTaken
BY NoneTakes DEF Start, Moves

LEMMA MoveTakes ==
    ASSUME GInv, NEW r \in Requests, NEW from, NEW to, NEW j, Move(r, from, to),
           job' = [job EXCEPT ![r] = j], to # "mintRefresh"
    PROVE  NoneTaken
BY NoneTakes DEF Move, Moves

LEMMA StayTakes ==
    ASSUME GInv, NEW r \in Requests, NEW from, NEW to, Move(r, from, to), UNCHANGED job,
           to # "mintRefresh"
    PROVE  NoneTaken
BY MoveMoves, NoneTakes

LEMMA FinishTakes ==
    ASSUME GInv, NEW r \in Requests, NEW from, Finish(r, from)
    PROVE  NoneTaken
BY FinishMoves, NoneTakes

LEMMA LoginEbbs ==
    ASSUME GInv, NEW r \in Requests, Login(r)
    PROVE  Ebb
<1>1. ASSUME NEW i \in AuthIds, NEW a \in Accounts, SubmitGate(r, i, a) PROVE Ebb
    BY <1>1, StartTakes, DropEbbs DEF SubmitGate
<1>2. ASSUME NEW i \in AuthIds, NEW k \in Cookies, LoginRead(r, i, k) PROVE Ebb
    BY <1>2, StartTakes, DropEbbs DEF LoginRead
<1>3. ASSUME NEW i \in AuthIds, Callback(r, i) PROVE Ebb
    BY <1>3, StartTakes, DropEbbs DEF Callback
<1>4. ASSUME NEW k \in Cookies, SubmitSession(r, k) PROVE Ebb
    <2>1. k \in Ids \ Refreshes
        BY TablesApart, IdsAll
    <2>2. NoneTaken
        BY <1>4, MoveTakes DEF SubmitSession
    <2> QED
        BY <1>4, <2>1, <2>2, InsertEbbs DEF SubmitSession
<1>5. ASSUME LoginAccount(r) PROVE Ebb
    BY <1>5, StayTakes, FinishTakes, DropEbbs DEF LoginAccount
<1>6. ASSUME Complete(r) PROVE Ebb
    <2>1. NoneTaken
        BY <1>6, FinishTakes DEF Complete
    <2>2. job[r].on \in AuthIds
        BY <1>6, RequestFits DEF Complete, Finish, Move, Fits, LoggingIn
    <2>3. \A t \in Refreshes : t # job[r].on /\ t \in Ids
        BY <2>2, TablesApart, IdsAll
    <2>4. \A t \in Refreshes : row'[t] = row[t]
        BY <1>6, <2>3 DEF Complete, GInv, TypeOK
    <2> QED
        BY <1>6, <2>1, <2>4 DEF Ebb, Complete
<1>7. ASSUME SaveCode(r) PROVE Ebb
    BY <1>7, FinishTakes DEF SaveCode, Ebb
<1> QED
    BY <1>1, <1>2, <1>3, <1>4, <1>5, <1>6, <1>7 DEF Login

LEMMA SignOutEbbs ==
    ASSUME GInv, NEW r \in Requests, SignOut(r)
    PROVE  Ebb
<1>1. ASSUME NEW t \in Refreshes, RevokeRead(r, t) PROVE Ebb
    BY <1>1, StartTakes, DropEbbs DEF RevokeRead
<1>2. ASSUME NEW k \in Cookies, NEW c \in Clients \cup {None}, LogoutRead(r, k, c) PROVE Ebb
    BY <1>2, StartTakes, DropEbbs DEF LogoutRead
<1>3. ASSUME RevokeDelete(r) PROVE Ebb
    BY <1>3, FinishTakes, DropEbbs DEF RevokeDelete
<1>4. ASSUME LogoutCookie(r) PROVE Ebb
    BY <1>4, StayTakes, FinishTakes, DropEbbs DEF LogoutCookie
<1>5. ASSUME LogoutRefresh(r) PROVE Ebb
    BY <1>5, StayTakes, DropEbbs DEF LogoutRefresh
<1>6. ASSUME LogoutAccess(r) PROVE Ebb
    BY <1>6, FinishTakes, DropEbbs DEF LogoutAccess
<1> QED
    BY <1>1, <1>2, <1>3, <1>4, <1>5, <1>6 DEF SignOut

LEMMA ChangeEbbs ==
    ASSUME GInv, NEW r \in Requests, Change(r)
    PROVE  Ebb
<1>1. ASSUME NEW a \in Accounts, PasswordRead(r, a) \/ DeleteRead(r, a) PROVE Ebb
    BY <1>1, StartTakes, DropEbbs DEF PasswordRead, DeleteRead
<1>2. ASSUME PasswordStatements(r) \/ DeleteStatements(r) PROVE Ebb
    BY <1>2, StayTakes DEF PasswordStatements, DeleteStatements, Statements, Ebb
<1>3. ASSUME PasswordCommit(r) \/ DeleteCommit(r) PROVE Ebb
    BY <1>3, FinishTakes, IdsAll DEF PasswordCommit, DeleteCommit, Commit, Drop, Ebb
<1> QED
    BY <1>1, <1>2, <1>3 DEF Change

(* CodeRead comes to mintRefresh, but with no grant yet.                   *)
LEMMA CodeReadEbbs ==
    ASSUME GInv, NEW r \in Requests, NEW i \in AuthIds, CodeRead(r, i)
    PROVE  Ebb
<1> DEFINE j == [NoJob EXCEPT !.on = i, !.was = row[i]]
           p == IF row[i].offline THEN "mintRefresh" ELSE "mintAccess"
<1>1. Moves(r, p, j)
    BY DEF CodeRead, Start, Moves
<1>2. j.was.root = None
    BY KnownRead, RowRead DEF CodeRead, NoJob
<1>3. NoneTaken
    BY <1>1, <1>2, NoneTakes
<1> QED
    BY <1>3, DropEbbs DEF CodeRead

LEMMA TokenEbbs ==
    ASSUME GInv, NEW r \in Requests, Token(r), ~ Rotate(r),
           \A t \in Refreshes : ~ MintRefresh(r, t)
    PROVE  Ebb
<1>1. ASSUME NEW t \in Refreshes, RefreshRead(r, t) PROVE Ebb
    BY <1>1, StartTakes, DropEbbs DEF RefreshRead
<1>2. ASSUME NEW x \in Accesses, MintAccess(r, x) PROVE Ebb
    <2>1. x \in Ids \ Refreshes
        BY TablesApart, IdsAll
    <2>2. NoneTaken
        BY <1>2, MoveTakes DEF MintAccess
    <2> QED
        BY <1>2, <2>1, <2>2, InsertEbbs DEF MintAccess
<1>3. ASSUME RotateLost(r) PROVE Ebb
    BY <1>3, FinishTakes, DropEbbs DEF RotateLost
<1>4. ASSUME MintRefused(r) PROVE Ebb
    BY <1>4, FinishTakes, DropEbbs DEF MintRefused
<1>5. ASSUME IdToken(r) PROVE Ebb
    BY <1>5, StayTakes, FinishTakes, DropEbbs DEF IdToken
<1>6. ASSUME Respond(r) PROVE Ebb
    BY <1>6, FinishTakes, IdsAll DEF Respond, Ebb
<1> QED
    BY <1>1, <1>2, <1>3, <1>4, <1>5, <1>6, CodeReadEbbs DEF Token

LEMMA OthersEbb ==
    ASSUME GInv,
           \/ \E i \in AuthIds, c \in Clients, offline \in BOOLEAN : Authorize(i, c, offline)
           \/ \E r \in Requests : Abort(r)
           \/ \E x \in Accesses : RevokeAccess(x)
           \/ \E table \in {AuthIds, Cookies, Refreshes, Accesses} : \E S \in SUBSET table : Sweep(S)
    PROVE  Ebb
<1>1. pc' = pc /\ job' = job => NoneTaken
    BY DEF NoneTaken
<1>2. ASSUME NEW i \in AuthIds, NEW c \in Clients, NEW offline \in BOOLEAN, Authorize(i, c, offline)
      PROVE  Ebb
    <2>1. i \in Ids \ Refreshes
        BY TablesApart, IdsAll
    <2> QED
        BY <1>1, <1>2, <2>1, InsertEbbs DEF Authorize
<1>3. ASSUME NEW r \in Requests, Abort(r) PROVE Ebb
    BY <1>3, FinishTakes DEF Abort, Ebb
<1>4. ASSUME NEW x \in Accesses, RevokeAccess(x) PROVE Ebb
    BY <1>1, <1>4, DropEbbs DEF RevokeAccess
<1>5. ASSUME NEW S, Sweep(S) PROVE Ebb
    BY <1>1, <1>5, DropEbbs DEF Sweep
<1> QED
    BY <1>2, <1>3, <1>4, <1>5

(* A grant whose live token and holder a step leaves alone keeps its tip.  *)
LEMMA TipKept ==
    ASSUME GInv, GInv', NEW g \in Refreshes, LiveOf(g)' = LiveOf(g), Held(g)' <=> Held(g)
    PROVE  Tip(g)' = Tip(g)
<1>1. CASE LiveOf(g) = {}
    BY <1>1, TipValue, TipNext
<1>2. CASE LiveOf(g) # {}
    BY <1>2, TipValue, TipNext
<1> QED
    BY <1>1, <1>2

(* Rotate takes the token of its grant.                                    *)
LEMMA RotateTakes ==
    ASSUME GInv, GInv', NEW r \in Requests, Rotate(r)
    PROVE  \E g \in Refreshes : Families!Take(g)
<1>1. pc[r] = "rotate" /\ Moves(r, "mintRefresh", job[r]) /\ Fits(used, row, "rotate", job[r])
    BY MoveMoves, RequestFits DEF Rotate
<1>2. PICK t \in Refreshes, g \in Refreshes :
          /\ t = job[r].on /\ g = job[r].was.root
          /\ t \in Ids /\ row[t] # None /\ row[t].root = g /\ g # None
    BY <1>1, IdsAll DEF Fits, Rotate, Exists, Job, Row
<1>3. \A u \in Refreshes : row'[u] = IF u = t THEN None ELSE row[u]
    BY <1>2, TablesApart, IdsAll DEF Rotate, Delete, Drop, Cascade
<1>4. /\ \A q \in Requests : q # r => pc'[q] = pc[q] /\ job'[q] = job[q]
      /\ pc'[r] = "mintRefresh" /\ job'[r] = job[r]
    BY <1>1 DEF Moves, GInv, TypeOK
<1>5. Tip(g) = t
    BY <1>2, TipValue DEF LiveOf, Exists
<1>6. Tip(g)' = Moving
    <2>1. Held(g)'
        BY <1>2, <1>4 DEF Held, Rotating
    <2>2. LiveOf(g)' = {}
        BY <1>2, <2>1, TipNext
    <2> QED
        BY <1>2, <2>1, <2>2, TipNext
<1>7. \A h \in Refreshes : h # g => Tip(h)' = Tip(h)
    <2> SUFFICES ASSUME NEW h \in Refreshes, h # g PROVE Tip(h)' = Tip(h)
        OBVIOUS
    <2>1. LiveOf(h)' = LiveOf(h)
        BY <1>2, <1>3 DEF LiveOf, Exists
    <2>2. \A q \in Requests :
              Rotating(q)' /\ job'[q].was.root = h <=> Rotating(q) /\ job[q].was.root = h
        BY <1>1, <1>2, <1>4 DEF Rotating
    <2>3. Held(h)' <=> Held(h)
        BY <2>2 DEF Held
    <2> QED
        BY <2>1, <2>3, TipKept
<1>8. [h \in Refreshes |-> Tip(h)'] = [[h \in Refreshes |-> Tip(h)] EXCEPT ![g] = Moving]
    BY <1>2, <1>6, <1>7
<1>9. used' = used
    BY DEF Rotate, Delete
<1> QED
    BY <1>2, <1>5, <1>8, <1>9 DEF Families!Take

(* MintRefresh passes the grant the exchange holds to its new token, or    *)
(* opens one with it.                                                      *)
LEMMA MintRefreshPasses ==
    ASSUME GInv, GInv', NEW r \in Requests, NEW t \in Refreshes, MintRefresh(r, t)
    PROVE  Families!Next
<1>1. /\ pc[r] = "mintRefresh" /\ pc' = [pc EXCEPT ![r] = "mintAccess"]
      /\ job' = [job EXCEPT ![r].minted = t, ![r].was.root = Root(r, t)]
    BY DEF MintRefresh, Move
<1>2. job[r].was \in Row
    BY <1>1, RequestFits DEF Fits, Job
<1>3. PICK g \in Refreshes : g = Root(r, t)
    BY <1>2 DEF Root, Row
<1> DEFINE content == [job[r].was EXCEPT !.root = g, !.since = begun[job[r].was.subject]]
<1>4. content.root = g /\ content # None
    <2>1. job[r].was.subject \in Accounts
        BY <1>1, <1>2, RequestFits DEF Fits, Minting, Row
    <2>2. content \in Row /\ content.root = g
        BY <1>2, <2>1 DEF Row, GInv, TypeOK
    <2> QED
        BY <2>2, RowAssumption
<1>5. t \notin used /\ used' = used \cup {t} /\ row' = [row EXCEPT ![t] = content]
    BY <1>3 DEF MintRefresh, Insert
<1> HIDE DEF content
<1>6. \A u \in Refreshes : row'[u] = IF u = t THEN content ELSE row[u]
    BY <1>5, IdsAll DEF GInv, TypeOK
<1>7. /\ \A q \in Requests : q # r => pc'[q] = pc[q] /\ job'[q] = job[q]
      /\ pc'[r] = "mintAccess"
    BY <1>1 DEF GInv, TypeOK
<1>8. row[t] = None
    BY <1>5, IdsAll DEF GInv, RowsFit, Exists
<1>9. t # None
    BY IdsAll, NoneAssumption
<1>10. job[r].was.root # None => g = job[r].was.root /\ Held(g)
    BY <1>1, <1>3 DEF Root, Held, Rotating
<1>11. job[r].was.root = None => g = t /\ ~ Rotating(r)
    BY <1>3 DEF Root, Rotating
<1>12. Tip(g)' = t
    BY <1>4, <1>6, TipNext DEF LiveOf, Exists
<1>13. \A h \in Refreshes : h # g => Tip(h)' = Tip(h)
    <2> SUFFICES ASSUME NEW h \in Refreshes, h # g PROVE Tip(h)' = Tip(h)
        OBVIOUS
    <2>1. LiveOf(h)' = LiveOf(h)
        BY <1>4, <1>6, <1>8 DEF LiveOf, Exists
    <2>2. ~ (Rotating(r) /\ job[r].was.root = h)
        BY <1>10, <1>11
    <2>3. Held(h)' <=> Held(h)
        BY <1>7, <2>2 DEF Held, Rotating
    <2> QED
        BY <2>1, <2>3, TipKept
<1>14. [h \in Refreshes |-> Tip(h)'] = [[h \in Refreshes |-> Tip(h)] EXCEPT ![g] = t]
    BY <1>4, <1>12, <1>13
<1>15. (used \cap Refreshes)' = (used \cap Refreshes) \cup {t} /\ t \notin used \cap Refreshes
    BY <1>5
<1>16. CASE job[r].was.root # None
    <2>1. Tip(g) = Moving
        BY <1>4, <1>10, <1>16, TipValue
    <2>2. Families!Pass(g, t)
        BY <2>1, <1>4, <1>14, <1>15 DEF Families!Pass
    <2> QED
        BY <2>2, <1>4 DEF Families!Next
<1>17. CASE job[r].was.root = None
    <2>1. Families!Open(t)
        BY <1>11, <1>14, <1>15, <1>17 DEF Families!Open
    <2> QED
        BY <2>1 DEF Families!Next
<1> QED
    BY <1>16, <1>17

LEMMA FamilyStep == GInv /\ GInv' /\ [Next]_vars => [Families!Next]_(Families!gvars)
<1> SUFFICES ASSUME GInv, GInv', [Next]_vars PROVE [Families!Next]_(Families!gvars)
    OBVIOUS
<1>1. ASSUME NEW r \in Requests, Token(r) PROVE Families!Next
    <2>1. CASE Rotate(r)
        BY <2>1, RotateTakes DEF Families!Next
    <2>2. CASE \E t \in Refreshes : MintRefresh(r, t)
        BY <2>2, MintRefreshPasses
    <2>3. CASE ~ Rotate(r) /\ \A t \in Refreshes : ~ MintRefresh(r, t)
        BY <1>1, <2>3, TokenEbbs, EbbEnds
    <2> QED
        BY <2>1, <2>2, <2>3
<1>2. ASSUME NEW r \in Requests, Login(r) \/ SignOut(r) \/ Change(r) PROVE Families!Next
    BY <1>2, LoginEbbs, SignOutEbbs, ChangeEbbs, EbbEnds
<1>3. CASE \/ \E i \in AuthIds, c \in Clients, offline \in BOOLEAN : Authorize(i, c, offline)
           \/ \E r \in Requests : Abort(r)
           \/ \E x \in Accesses : RevokeAccess(x)
           \/ \E table \in {AuthIds, Cookies, Refreshes, Accesses} : \E S \in SUBSET table : Sweep(S)
    BY <1>3, OthersEbb, EbbEnds
<1>4. CASE UNCHANGED vars
    <2>1. Ebb
        BY <1>4 DEF Ebb, NoneTaken, vars, tables
    <2> QED
        BY <2>1, EbbEnds
<1> QED
    BY <1>1, <1>2, <1>3, <1>4 DEF Next

LEMMA InitFamilies == Init => Families!Init
<1> SUFFICES ASSUME Init PROVE Families!Init
    OBVIOUS
<1>1. GInv
    BY InitGInv
<1>2. \A g \in Refreshes : LiveOf(g) = {} /\ ~ Held(g)
    BY IdsAll DEF Init, LiveOf, Exists, Held, Rotating
<1>3. \A g \in Refreshes : Tip(g) = None
    BY <1>1, <1>2, TipValue
<1> QED
    BY <1>3 DEF Init, Families!Init

(* Every grant of refresh tokens keeps the promise of GrantFamily.         *)
THEOREM Implements == Spec => ImplementsFamilies
<1>1. GInv /\ GInv' /\ [Next]_vars => [Families!Next]_(Families!gvars)
    BY FamilyStep
<1> QED
    BY InitFamilies, <1>1, GrantsInvariant, PTL DEF Spec, ImplementsFamilies, Families!Spec

-----------------------------------------------------------------------------
(* How often a code is exchanged.  Every step but CodeRead and Respond     *)
(* completes no exchange, brings no request of a code taken back, and has  *)
(* no request come to exchange a code.                                     *)

NoneExchanges ==
    \A q \in Requests :
        pc'[q] \in Minting /\ job'[q].on \in AuthIds =>
            pc[q] \in Minting /\ job[q].on = job'[q].on

CodesStayGone ==
    /\ used \subseteq used'
    /\ \A i \in AuthIds : i \in used /\ row[i] = None => row'[i] = None

CodeEbb == uses' = uses /\ CodesStayGone /\ NoneExchanges

LEMMA MovesExchange ==
    ASSUME GInv, NEW r \in Requests, NEW p, NEW j, Moves(r, p, j),
           \/ p \notin Minting
           \/ j.on \notin AuthIds
           \/ pc[r] \in Minting /\ j.on = job[r].on
    PROVE  NoneExchanges
BY DEF NoneExchanges, Moves, GInv, TypeOK

LEMMA StartExchanges ==
    ASSUME GInv, NEW r \in Requests, NEW step, NEW j, Start(r, step, j), step \notin Minting
    PROVE  NoneExchanges
BY MovesExchange DEF Start, Moves

LEMMA FinishExchanges ==
    ASSUME GInv, NEW r \in Requests, NEW from, Finish(r, from)
    PROVE  NoneExchanges
BY FinishMoves, MovesExchange DEF Minting

LEMMA StayExchanges ==
    ASSUME GInv, NEW r \in Requests, NEW from, NEW to, Move(r, from, to), UNCHANGED job,
           to \notin Minting \/ from \in Minting
    PROVE  NoneExchanges
BY MoveMoves, MovesExchange

LEMMA DropStays ==
    ASSUME NEW S, Delete(S) \/ UNCHANGED tables
    PROVE  CodesStayGone
BY IdsAll DEF CodesStayGone, Delete, Drop, tables

LEMMA InsertStays ==
    ASSUME GInv, NEW k \in Ids, NEW content, Insert(k, content)
    PROVE  CodesStayGone
BY IdsAll DEF CodesStayGone, Insert, GInv, TypeOK

LEMMA LoginCodes ==
    ASSUME GInv, NEW r \in Requests, Login(r)
    PROVE  CodeEbb
<1>1. uses' = uses
    BY DEF Login, SubmitGate, LoginRead, Callback, SubmitSession, LoginAccount, Complete,
           SaveCode, history
<1>2. CodesStayGone
    <2>1. ASSUME NEW i \in AuthIds, NEW a \in Accounts, SubmitGate(r, i, a) PROVE CodesStayGone
        BY <2>1, DropStays DEF SubmitGate
    <2>2. ASSUME NEW i \in AuthIds, NEW k \in Cookies, LoginRead(r, i, k) PROVE CodesStayGone
        BY <2>2, DropStays DEF LoginRead
    <2>3. ASSUME NEW i \in AuthIds, Callback(r, i) PROVE CodesStayGone
        BY <2>3, DropStays DEF Callback
    <2>4. ASSUME NEW k \in Cookies, SubmitSession(r, k) PROVE CodesStayGone
        BY <2>4, InsertStays, IdsAll DEF SubmitSession
    <2>5. ASSUME LoginAccount(r) PROVE CodesStayGone
        BY <2>5, DropStays DEF LoginAccount
    <2>6. ASSUME Complete(r) PROVE CodesStayGone
        BY <2>6, IdsAll DEF Complete, CodesStayGone, Exists, GInv, TypeOK
    <2>7. ASSUME SaveCode(r) PROVE CodesStayGone
        BY <2>7 DEF SaveCode, CodesStayGone
    <2> QED
        BY <2>1, <2>2, <2>3, <2>4, <2>5, <2>6, <2>7 DEF Login
<1>3. NoneExchanges
    <2>1. ASSUME NEW i \in AuthIds, NEW a \in Accounts, SubmitGate(r, i, a) PROVE NoneExchanges
        BY <2>1, StartExchanges DEF SubmitGate, Minting
    <2>2. ASSUME NEW i \in AuthIds, NEW k \in Cookies, LoginRead(r, i, k) PROVE NoneExchanges
        BY <2>2, StartExchanges DEF LoginRead, Minting
    <2>3. ASSUME NEW i \in AuthIds, Callback(r, i) PROVE NoneExchanges
        BY <2>3, StartExchanges DEF Callback, Minting
    <2>4. ASSUME NEW k \in Cookies, SubmitSession(r, k) PROVE NoneExchanges
        <3>1. Moves(r, "complete", [job[r] EXCEPT !.minted = k])
            BY <2>4 DEF SubmitSession, Move, Moves, GInv, TypeOK
        <3> QED
            BY <3>1, MovesExchange DEF Minting
    <2>5. ASSUME LoginAccount(r) PROVE NoneExchanges
        BY <2>5, StayExchanges, FinishExchanges DEF LoginAccount, Minting
    <2>6. ASSUME Complete(r) \/ SaveCode(r) PROVE NoneExchanges
        BY <2>6, FinishExchanges DEF Complete, SaveCode
    <2> QED
        BY <2>1, <2>2, <2>3, <2>4, <2>5, <2>6 DEF Login
<1> QED
    BY <1>1, <1>2, <1>3 DEF CodeEbb

LEMMA TokenCodes ==
    ASSUME GInv, NEW r \in Requests, Token(r), ~ Respond(r),
           \A i \in AuthIds : ~ CodeRead(r, i)
    PROVE  CodeEbb
<1>1. ASSUME NEW t \in Refreshes, RefreshRead(r, t) PROVE CodeEbb
    BY <1>1, StartExchanges, DropStays DEF RefreshRead, Minting, CodeEbb, history
<1>2. ASSUME NEW t \in Refreshes, MintRefresh(r, t) PROVE CodeEbb
    <2> DEFINE j == [job[r] EXCEPT !.minted = t, !.was.root = Root(r, t)]
    <2>1. pc[r] = "mintRefresh" /\ Moves(r, "mintAccess", j)
        BY <1>2 DEF MintRefresh, Move, Moves, GInv, TypeOK
    <2>2. job[r] \in Job
        BY DEF GInv, TypeOK
    <2>3. j.on = job[r].on
        BY <2>2 DEF Job
    <2> HIDE DEF j
    <2>4. NoneExchanges
        BY <2>1, <2>3, MovesExchange DEF Minting
    <2> QED
        BY <1>2, <2>4, InsertStays, IdsAll DEF MintRefresh, CodeEbb, history
<1>3. ASSUME NEW x \in Accesses, MintAccess(r, x) PROVE CodeEbb
    <2> DEFINE j == [job[r] EXCEPT !.access = x]
    <2>1. pc[r] = "mintAccess" /\ Moves(r, "idToken", j)
        BY <1>3 DEF MintAccess, Move, Moves, GInv, TypeOK
    <2>2. job[r] \in Job
        BY DEF GInv, TypeOK
    <2>3. j.on = job[r].on
        BY <2>2 DEF Job
    <2> HIDE DEF j
    <2>4. NoneExchanges
        BY <2>1, <2>3, MovesExchange DEF Minting
    <2> QED
        BY <1>3, <2>4, InsertStays, IdsAll DEF MintAccess, CodeEbb, history
<1>4. ASSUME Rotate(r) PROVE CodeEbb
    <2>1. pc[r] = "rotate" /\ Moves(r, "mintRefresh", job[r])
        BY <1>4, MoveMoves DEF Rotate
    <2>2. job[r].on \notin AuthIds
        BY <2>1, RequestFits, TablesApart DEF Fits
    <2>3. NoneExchanges
        BY <2>1, <2>2, MovesExchange
    <2> QED
        BY <1>4, <2>3, DropStays DEF Rotate, CodeEbb, history
<1>5. ASSUME RotateLost(r) \/ MintRefused(r) PROVE CodeEbb
    BY <1>5, FinishExchanges, DropStays DEF RotateLost, MintRefused, CodeEbb, history
<1>6. ASSUME IdToken(r) PROVE CodeEbb
    BY <1>6, StayExchanges, FinishExchanges, DropStays DEF IdToken, Minting, CodeEbb, history
<1> QED
    BY <1>1, <1>2, <1>3, <1>4, <1>5, <1>6 DEF Token

LEMMA SignOutCodes ==
    ASSUME GInv, NEW r \in Requests, SignOut(r)
    PROVE  CodeEbb
<1>1. ASSUME NEW t \in Refreshes, RevokeRead(r, t) PROVE CodeEbb
    BY <1>1, StartExchanges, DropStays DEF RevokeRead, Minting, CodeEbb, history
<1>2. ASSUME NEW k \in Cookies, NEW c \in Clients \cup {None}, LogoutRead(r, k, c) PROVE CodeEbb
    BY <1>2, StartExchanges, DropStays DEF LogoutRead, Minting, CodeEbb, history
<1>3. ASSUME RevokeDelete(r) PROVE CodeEbb
    BY <1>3, FinishExchanges, DropStays DEF RevokeDelete, CodeEbb, history
<1>4. ASSUME LogoutCookie(r) PROVE CodeEbb
    BY <1>4, StayExchanges, FinishExchanges, DropStays
       DEF LogoutCookie, Minting, CodeEbb, history
<1>5. ASSUME LogoutRefresh(r) PROVE CodeEbb
    BY <1>5, StayExchanges, DropStays DEF LogoutRefresh, Minting, CodeEbb, history
<1>6. ASSUME LogoutAccess(r) PROVE CodeEbb
    BY <1>6, FinishExchanges, DropStays DEF LogoutAccess, CodeEbb, history
<1> QED
    BY <1>1, <1>2, <1>3, <1>4, <1>5, <1>6 DEF SignOut

LEMMA ChangeCodes ==
    ASSUME GInv, NEW r \in Requests, Change(r)
    PROVE  CodeEbb
<1>1. ASSUME NEW a \in Accounts, PasswordRead(r, a) \/ DeleteRead(r, a) PROVE CodeEbb
    BY <1>1, StartExchanges, DropStays DEF PasswordRead, DeleteRead, Minting, CodeEbb, history
<1>2. ASSUME PasswordStatements(r) \/ DeleteStatements(r) PROVE CodeEbb
    BY <1>2, StayExchanges
       DEF PasswordStatements, DeleteStatements, Statements, Minting, CodeEbb, CodesStayGone
<1>3. ASSUME PasswordCommit(r) \/ DeleteCommit(r) PROVE CodeEbb
    BY <1>3, FinishExchanges, IdsAll
       DEF PasswordCommit, DeleteCommit, Commit, Drop, CodeEbb, CodesStayGone
<1> QED
    BY <1>1, <1>2, <1>3 DEF Change

LEMMA OtherCodes ==
    ASSUME GInv,
           \/ \E i \in AuthIds, c \in Clients, offline \in BOOLEAN : Authorize(i, c, offline)
           \/ \E r \in Requests : Abort(r)
           \/ \E x \in Accesses : RevokeAccess(x)
           \/ \E table \in {AuthIds, Cookies, Refreshes, Accesses} : \E S \in SUBSET table : Sweep(S)
           \/ UNCHANGED vars
    PROVE  CodeEbb
<1>1. pc' = pc /\ job' = job => NoneExchanges
    BY DEF NoneExchanges
<1>2. ASSUME NEW i \in AuthIds, NEW c \in Clients, NEW offline \in BOOLEAN, Authorize(i, c, offline)
      PROVE  CodeEbb
    BY <1>1, <1>2, InsertStays, IdsAll DEF Authorize, CodeEbb, history
<1>3. ASSUME NEW r \in Requests, Abort(r) PROVE CodeEbb
    BY <1>3, FinishExchanges DEF Abort, CodeEbb, CodesStayGone, history
<1>4. ASSUME NEW x \in Accesses, RevokeAccess(x) PROVE CodeEbb
    BY <1>1, <1>4, DropStays DEF RevokeAccess, CodeEbb, history
<1>5. ASSUME NEW S, Sweep(S) PROVE CodeEbb
    BY <1>1, <1>5, DropStays DEF Sweep, CodeEbb, history
<1>6. ASSUME UNCHANGED vars PROVE CodeEbb
    BY <1>1, <1>6, DropStays DEF vars, CodeEbb, history
<1> QED
    BY <1>2, <1>3, <1>4, <1>5, <1>6

LEMMA ExchangingFinite ==
    ASSUME NEW i
    PROVE  /\ IsFiniteSet(Exchanging(i)) /\ Cardinality(Exchanging(i)) \in Nat
           /\ Cardinality(Exchanging(i)) <= Cardinality(Requests) /\ Cardinality(Requests) \in Nat
<1>1. Exchanging(i) \subseteq Requests
    BY DEF Exchanging
<1>2. IsFiniteSet(Exchanging(i)) /\ Cardinality(Exchanging(i)) <= Cardinality(Requests)
    BY <1>1, FiniteAssumption, FS_Subset
<1> QED
    BY <1>2, FiniteAssumption, FS_CardinalityType

LEMMA ExchangingFiniteNext ==
    ASSUME NEW i
    PROVE  /\ IsFiniteSet(Exchanging(i)') /\ Cardinality(Exchanging(i)') \in Nat
           /\ Cardinality(Exchanging(i)') <= Cardinality(Requests)
<1>1. Exchanging(i)' \subseteq Requests
    BY DEF Exchanging
<1>2. IsFiniteSet(Exchanging(i)') /\ Cardinality(Exchanging(i)') <= Cardinality(Requests)
    BY <1>1, FiniteAssumption, FS_Subset
<1> QED
    BY <1>2, FS_CardinalityType

LEMMA EbbCounted ==
    ASSUME GInv, CodeUsesCounted, CodeEbb
    PROVE  CodeUsesCounted'
<1> SUFFICES ASSUME NEW i \in AuthIds
             PROVE  /\ uses'[i] > 0 => i \in used' /\ row'[i] = None
                    /\ uses'[i] + Cardinality(Exchanging(i)') <= Cardinality(Requests)
    BY DEF CodeUsesCounted, Exists
<1>1. uses'[i] = uses[i] /\ uses[i] \in Nat
    BY DEF CodeEbb, GInv, TypeOK
<1>2. uses'[i] > 0 => i \in used' /\ row'[i] = None
    BY <1>1 DEF CodeUsesCounted, Exists, CodeEbb, CodesStayGone
<1>3. Exchanging(i)' \subseteq Exchanging(i)
    BY DEF Exchanging, CodeEbb, NoneExchanges, Minting
<1>4. Cardinality(Exchanging(i)') <= Cardinality(Exchanging(i))
    BY <1>3, ExchangingFinite, FS_Subset
<1> QED
    BY <1>1, <1>2, <1>4, ExchangingFinite, ExchangingFiniteNext DEF CodeUsesCounted

(* A code that is read has its request, so nobody has completed it yet.    *)
LEMMA CodeReadCounted ==
    ASSUME GInv, CodeUsesCounted, NEW r \in Requests, NEW k \in AuthIds, CodeRead(r, k)
    PROVE  CodeUsesCounted'
<1> SUFFICES ASSUME NEW i \in AuthIds
             PROVE  /\ uses'[i] > 0 => i \in used' /\ row'[i] = None
                    /\ uses'[i] + Cardinality(Exchanging(i)') <= Cardinality(Requests)
    BY DEF CodeUsesCounted, Exists
<1>1. uses'[i] = uses[i] /\ uses[i] \in Nat /\ used' = used /\ row' = row
    BY DEF CodeRead, tables, history, GInv, TypeOK
<1>2. uses'[i] > 0 => i \in used' /\ row'[i] = None
    BY <1>1 DEF CodeUsesCounted, Exists
<1>3. CASE i = k
    <2>1. row[i] # None
        BY <1>3, KnownRead DEF CodeRead
    <2>2. uses[i] = 0
        BY <1>1, <2>1 DEF CodeUsesCounted, Exists
    <2> QED
        BY <1>1, <1>2, <2>2, ExchangingFinite, ExchangingFiniteNext
<1>4. CASE i # k
    <2>1. job'[r].on = k
        BY IdsAll DEF CodeRead, Start, GInv, TypeOK, NoJob
    <2>2. \A q \in Requests : q # r => pc'[q] = pc[q] /\ job'[q] = job[q]
        BY DEF CodeRead, Start, GInv, TypeOK
    <2>3. Exchanging(i)' \subseteq Exchanging(i)
        BY <1>4, <2>1, <2>2 DEF Exchanging
    <2>4. Cardinality(Exchanging(i)') <= Cardinality(Exchanging(i))
        BY <2>3, ExchangingFinite, FS_Subset
    <2> QED
        BY <1>1, <1>2, <2>4, ExchangingFinite, ExchangingFiniteNext DEF CodeUsesCounted
<1> QED
    BY <1>3, <1>4

(* One completion more is one exchange less.                               *)
LEMMA RespondCounted ==
    ASSUME GInv, CodeUsesCounted, NEW r \in Requests, Respond(r)
    PROVE  CodeUsesCounted'
<1> SUFFICES ASSUME NEW i \in AuthIds
             PROVE  /\ uses'[i] > 0 => i \in used' /\ row'[i] = None
                    /\ uses'[i] + Cardinality(Exchanging(i)') <= Cardinality(Requests)
    BY DEF CodeUsesCounted, Exists
<1>1. pc[r] = "respond" /\ Moves(r, "idle", NoJob)
    BY FinishMoves DEF Respond
<1>2. job[r].on \in used
    BY <1>1, RequestFits DEF Fits, Minting
<1>3. /\ uses[i] \in Nat /\ used' = used
      /\ i = job[r].on => uses'[i] = uses[i] + 1 /\ row'[i] = None
      /\ i # job[r].on => uses'[i] = uses[i] /\ row'[i] = row[i]
    BY IdsAll DEF Respond, GInv, TypeOK
<1>4. pc'[r] = "idle" /\ \A q \in Requests : q # r => pc'[q] = pc[q] /\ job'[q] = job[q]
    BY <1>1 DEF Moves, GInv, TypeOK
<1>5. Exchanging(i)' = Exchanging(i) \ {r}
    BY <1>4 DEF Exchanging
<1>6. CASE i = job[r].on
    <2>1. r \in Exchanging(i)
        BY <1>1, <1>6 DEF Exchanging
    <2>2. Cardinality(Exchanging(i)') = Cardinality(Exchanging(i)) - 1
        BY <1>5, <2>1, ExchangingFinite, FS_RemoveElement
    <2> QED
        BY <1>2, <1>3, <1>6, <2>2, ExchangingFinite DEF CodeUsesCounted
<1>7. CASE i # job[r].on
    <2>1. Cardinality(Exchanging(i)') <= Cardinality(Exchanging(i))
        BY <1>5, ExchangingFinite, FS_Subset
    <2> QED
        BY <1>3, <1>7, <2>1, ExchangingFinite, ExchangingFiniteNext DEF CodeUsesCounted, Exists
<1> QED
    BY <1>6, <1>7

LEMMA NextCounted == GInv /\ CodeUsesCounted /\ [Next]_vars => CodeUsesCounted'
<1> SUFFICES ASSUME GInv, CodeUsesCounted, [Next]_vars PROVE CodeUsesCounted'
    OBVIOUS
<1>1. ASSUME NEW r \in Requests, Token(r) PROVE CodeUsesCounted'
    <2>1. CASE Respond(r)
        BY <2>1, RespondCounted
    <2>2. CASE \E i \in AuthIds : CodeRead(r, i)
        BY <2>2, CodeReadCounted
    <2>3. CASE ~ Respond(r) /\ \A i \in AuthIds : ~ CodeRead(r, i)
        BY <1>1, <2>3, TokenCodes, EbbCounted
    <2> QED
        BY <2>1, <2>2, <2>3
<1>2. ASSUME NEW r \in Requests, Login(r) \/ SignOut(r) \/ Change(r) PROVE CodeUsesCounted'
    BY <1>2, LoginCodes, SignOutCodes, ChangeCodes, EbbCounted
<1>3. CASE \/ \E i \in AuthIds, c \in Clients, offline \in BOOLEAN : Authorize(i, c, offline)
           \/ \E r \in Requests : Abort(r)
           \/ \E x \in Accesses : RevokeAccess(x)
           \/ \E table \in {AuthIds, Cookies, Refreshes, Accesses} : \E S \in SUBSET table : Sweep(S)
           \/ UNCHANGED vars
    BY <1>3, OtherCodes, EbbCounted
<1> QED
    BY <1>1, <1>2, <1>3 DEF Next

LEMMA InitCounted == Init => CodeUsesCounted
<1> SUFFICES ASSUME Init, NEW i \in AuthIds
             PROVE  /\ uses[i] > 0 => i \in used /\ ~ Exists(i)
                    /\ uses[i] + Cardinality(Exchanging(i)) <= Cardinality(Requests)
    BY DEF CodeUsesCounted
<1>1. uses[i] = 0
    BY DEF Init
<1> QED
    BY <1>1, ExchangingFinite

(* After the first exchange of a code only those that had read it by then  *)
(* complete, and each of them once (DeleteAuthRequest).                    *)
THEOREM CodesCounted == Spec => []CodeUsesCounted
BY GrantsInvariant, InitCounted, NextCounted, PTL DEF Spec
=============================================================================
