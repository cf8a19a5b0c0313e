----------------------------- MODULE Onboarding -----------------------------
(***************************************************************************)
(* How accounts come to be: registration and social logon against the      *)
(* tables accounts and social_logins, with the verifications, renames and  *)
(* deletions that run at the same time.                                    *)
(*                                                                         *)
(* An action is one statement with the work up to the next one. A social   *)
(* logon is one transaction at READ COMMITTED: what it has written is      *)
(* `wrote`, which others see only by having to wait for it. The primary    *)
(* key of accounts is left out, since (tenant_id, email) is unique and no  *)
(* row is ever removed; google is the only provider there is.              *)
(***************************************************************************)
EXTENDS Naturals

CONSTANTS
    Tenants, Emails, Subjects,
    Identities,  \* what the provider asserts: subject, email, is it verified
    Requests,    \* requests in flight at the same time
    None

Accounts == [tenant : Tenants, email : Emails]

Identity == [subject : Subjects, email : Emails, verified : BOOLEAN]

ASSUME IdentitiesAssumption == Identities \subseteq Identity

ASSUME NoneAssumption == None \notin Subjects \cup Accounts

VARIABLES
    account,     \* accounts: no row, live or deleted
    verified,    \* accounts.verified: "no", or what verified the account
    link,        \* social_logins: the subject linked to an account
    wrote,       \* what the open transaction of a request has written
    pc, job      \* where each request stands, and its local variables

rows == <<account, verified, link>>

vars == <<rows, wrote, pc, job>>

(* `late`: the account was already deleted when the request began.         *)
Job == [a : Accounts \cup {None}, s : Subjects \cup {None}, late : BOOLEAN]

NoJob == [a |-> None, s |-> None, late |-> FALSE]

Steps == {"idle", "register", "find", "create", "verify", "link", "commit", "issue", "failed", "lost",
          "setVerified", "rename", "delete", "deleteCommit"}

TypeOK ==
    /\ account \in [Accounts -> {"absent", "live", "deleted"}]
    /\ verified \in [Accounts -> {"no", "token", "social"}]
    /\ link \in [Accounts -> Subjects \cup {None}]
    /\ wrote \in [Requests -> SUBSET {"insert", "verify", "link", "delete"}]
    /\ pc \in [Requests -> Steps] /\ job \in [Requests -> Job]

Init ==
    /\ account = [a \in Accounts |-> "absent"]
    /\ verified = [a \in Accounts |-> "no"]
    /\ link = [a \in Accounts |-> None]
    /\ wrote = [r \in Requests |-> {}]
    /\ pc = [r \in Requests |-> "idle"] /\ job = [r \in Requests |-> NoJob]

-----------------------------------------------------------------------------
(* The status a handler answers a service's error with.                    *)

AccountProblem(err) ==
    CASE err = "AccountNotFound" -> 404
      [] err = "AccountDuplicate" -> 409
      [] err = "InvalidAccount" -> 400
      [] err \in {"Verification", "ResetTokenInvalid", "ResetTokenExpired"} -> 401
      [] OTHER -> 500

AuthenticateProblem(err) ==
    CASE err = "AccountLocked" -> 423
      [] err \in {"Authentication", "TokenInvalid", "TokenNotAcknowledged",
                  "TokenTenantMismatch", "AccountNotFound"} -> 401
      [] err \in {"AccountNotVerified", "AccountDisabled"} -> 403
      [] err = "SessionNotFound" -> 404
      [] OTHER -> 500

SocialProblemLinkedLast(err) ==
    CASE err = "ProviderNotConfigured" -> 400
      [] err = "SocialTokenInvalid" -> 401
      [] err = "EmailNotVerified" -> 403
      [] OTHER -> AuthenticateProblem(err)

SocialProblem(err) ==
    CASE err = "ProviderNotConfigured" -> 400
      [] err = "SocialTokenInvalid" -> 401
      [] err = "EmailNotVerified" -> 403
      [] err = "SocialAlreadyLinked" -> 409
      [] OTHER -> AuthenticateProblem(err)

-----------------------------------------------------------------------------
Start(r, step, a, s) ==
    /\ pc[r] = "idle"
    /\ pc' = [pc EXCEPT ![r] = step]
    /\ job' = [job EXCEPT ![r] = [a |-> a, s |-> s, late |-> account[a] = "deleted"]]
    /\ UNCHANGED <<rows, wrote>>

Move(r, from, to) ==
    /\ pc[r] = from
    /\ pc' = [pc EXCEPT ![r] = to]
    /\ UNCHANGED job

Finish(r, from) ==
    /\ pc[r] = from
    /\ pc' = [pc EXCEPT ![r] = "idle"]
    /\ job' = [job EXCEPT ![r] = NoJob]
    /\ wrote' = [wrote EXCEPT ![r] = {}]

(* A request ends with an error and its transaction is rolled back; a      *)
(* client takes an error of the server for a reason to try again.          *)
Answer(r, status) ==
    /\ wrote' = [wrote EXCEPT ![r] = {}]
    /\ \/ /\ status >= 500
          /\ pc' = [pc EXCEPT ![r] = "failed"] /\ UNCHANGED job
       \/ /\ status < 500
          /\ pc' = [pc EXCEPT ![r] = "idle"] /\ job' = [job EXCEPT ![r] = NoJob]
    /\ UNCHANGED rows

(* A statement waits for the transaction of another request that has       *)
(* inserted the same account, updated the same account, or written a link  *)
(* that has the account or the subject, now or before.                     *)
InsertFree(r, a) == \A q \in Requests \ {r} : job[q].a = a => "insert" \notin wrote[q]
RowFree(r, a) == \A q \in Requests \ {r} : job[q].a = a => wrote[q] \cap {"verify", "delete"} = {}
LinkFreeRow(r, a, s) ==
    \A q \in Requests \ {r} : "link" \in wrote[q] => job[q].a # a
LinkFree(r, a, s) ==
    \A q \in Requests \ {r} :
        "link" \in wrote[q] => job[q].a # a /\ job[q].s # s /\ link[job[q].a] # s

(* UNIQUE (provider, subject): another account has the identity.           *)
LinkedElsewhere(a, s) == \E b \in Accounts \ {a} : link[b] = s

-----------------------------------------------------------------------------
(* Registration.                                                           *)

RegisterBegin(r, a) == Start(r, "register", a, None)

Register(r) ==
    /\ Finish(r, "register")
    /\ account[job[r].a] = "absent" /\ InsertFree(r, job[r].a)
    /\ account' = [account EXCEPT ![job[r].a] = "live"]
    /\ UNCHANGED <<verified, link>>

RegisterDuplicate(r) ==
    /\ pc[r] = "register"
    /\ account[job[r].a] # "absent" /\ InsertFree(r, job[r].a)
    /\ Answer(r, AccountProblem("AccountDuplicate"))

-----------------------------------------------------------------------------
(* Social logon: Authenticate of the social service.                       *)

SocialBegin(r, i, t) ==
    /\ i.verified
    /\ Start(r, "find", [tenant |-> t, email |-> i.email], i.subject)

SocialFindDeleted(r) ==
    /\ Move(r, "find", IF account[job[r].a] = "absent" THEN "create"
                       ELSE IF verified[job[r].a] = "no" THEN "verify" ELSE "link")
    /\ UNCHANGED <<rows, wrote>>

(* findOrCreate's read; a live account goes on to SetVerified or to Link.  *)
SocialFind(r) ==
    /\ Move(r, "find", IF account[job[r].a] = "absent" THEN "create"
                       ELSE IF verified[job[r].a] = "no" THEN "verify" ELSE "link")
    /\ account[job[r].a] # "deleted"
    /\ UNCHANGED <<rows, wrote>>

SocialDeleted(r) ==
    /\ pc[r] = "find"
    /\ account[job[r].a] = "deleted"
    /\ Answer(r, SocialProblem("Authentication"))

SocialCreateUnguarded(r) ==
    /\ Move(r, "create", "link")
    /\ account[job[r].a] = "absent"
    /\ wrote' = [wrote EXCEPT ![r] = @ \cup {"insert"}]
    /\ UNCHANGED rows

SocialCreate(r) ==
    /\ Move(r, "create", "link")
    /\ account[job[r].a] = "absent" /\ InsertFree(r, job[r].a)
    /\ wrote' = [wrote EXCEPT ![r] = @ \cup {"insert"}]
    /\ UNCHANGED rows

SocialDuplicate(r) ==
    /\ pc[r] = "create"
    /\ account[job[r].a] # "absent" /\ InsertFree(r, job[r].a)
    /\ Answer(r, SocialProblem("AccountDuplicate"))

SocialVerifyOutside(r) ==
    /\ Move(r, "verify", "link")
    /\ RowFree(r, job[r].a)
    /\ verified' = [verified EXCEPT ![job[r].a] = "social"]
    /\ UNCHANGED <<account, link, wrote>>

SocialVerify(r) ==
    /\ Move(r, "verify", "link")
    /\ RowFree(r, job[r].a)
    /\ wrote' = [wrote EXCEPT ![r] = @ \cup {"verify"}]
    /\ UNCHANGED rows

Link(r) ==
    /\ Move(r, "link", "commit")
    /\ LinkFree(r, job[r].a, job[r].s) /\ ~ LinkedElsewhere(job[r].a, job[r].s)
    /\ wrote' = [wrote EXCEPT ![r] = @ \cup {"link"}]
    /\ UNCHANGED rows

LinkConflict(r) ==
    /\ pc[r] = "link"
    /\ LinkFree(r, job[r].a, job[r].s) /\ LinkedElsewhere(job[r].a, job[r].s)
    /\ Answer(r, SocialProblem("SocialAlreadyLinked"))

SocialCommit(r) ==
    /\ Move(r, "commit", "issue")
    /\ wrote' = [wrote EXCEPT ![r] = {}]
    /\ account' = IF "insert" \in wrote[r] THEN [account EXCEPT ![job[r].a] = "live"] ELSE account
    /\ verified' = IF wrote[r] \cap {"insert", "verify"} # {}
                   THEN [verified EXCEPT ![job[r].a] = "social"] ELSE verified
    /\ link' = [link EXCEPT ![job[r].a] = job[r].s]

SocialIssue(r) ==
    /\ Finish(r, "issue")
    /\ UNCHANGED rows

-----------------------------------------------------------------------------
(* Verification, rename, deletion: each reads a live account first.        *)

VerifyRead(r, a) ==
    /\ account[a] = "live" /\ verified[a] = "no"
    /\ Start(r, "setVerified", a, None)

SetVerified(r) ==
    /\ Finish(r, "setVerified")
    /\ RowFree(r, job[r].a)
    /\ verified' = [verified EXCEPT ![job[r].a] = "token"]
    /\ UNCHANGED <<account, link>>

RenameRead(r, a) ==
    /\ account[a] = "live"
    /\ Start(r, "rename", a, None)

(* The new name is data that nothing here depends on.                      *)
UpdateName(r) ==
    /\ Finish(r, "rename")
    /\ RowFree(r, job[r].a)
    /\ UNCHANGED rows

DeleteRead(r, a) ==
    /\ account[a] = "live"
    /\ Start(r, "delete", a, None)

SoftDelete(r) ==
    /\ Move(r, "delete", "deleteCommit")
    /\ RowFree(r, job[r].a)
    /\ wrote' = [wrote EXCEPT ![r] = @ \cup {"delete"}]
    /\ UNCHANGED rows

DeleteCommit(r) ==
    /\ Finish(r, "deleteCommit")
    /\ account' = [account EXCEPT ![job[r].a] = "deleted"]
    /\ UNCHANGED <<verified, link>>

-----------------------------------------------------------------------------
(* A crash, a cancelled request, a failed statement or a lost connection:  *)
(* the open transaction rolls back. The client of a registration or a      *)
(* social logon tries again, as it does after an error of the server.      *)
Lose(r) ==
    /\ pc[r] \in {"register", "find", "create", "verify", "link", "commit", "issue"}
    /\ pc' = [pc EXCEPT ![r] = "lost"]
    /\ wrote' = [wrote EXCEPT ![r] = {}]
    /\ UNCHANGED <<rows, job>>

Abort(r) ==
    /\ pc[r] \in {"setVerified", "rename", "delete", "deleteCommit"}
    /\ Finish(r, pc[r])
    /\ UNCHANGED rows

Retry(r) ==
    /\ pc[r] \in {"failed", "lost"}
    /\ pc' = [pc EXCEPT ![r] = IF job[r].s = None THEN "register" ELSE "find"]
    /\ job' = [job EXCEPT ![r].late = account[job[r].a] = "deleted"]
    /\ UNCHANGED <<rows, wrote>>

Begin(r) ==
    \/ \E a \in Accounts : RegisterBegin(r, a) \/ VerifyRead(r, a)
    \/ \E a \in Accounts : RenameRead(r, a) \/ DeleteRead(r, a)
    \/ \E i \in Identities, t \in Tenants : SocialBegin(r, i, t)

Continue(r) ==
    \/ Register(r) \/ UpdateName(r)
    \/ RegisterDuplicate(r) \/ SetVerified(r) \/ SoftDelete(r) \/ DeleteCommit(r) \/ Retry(r)
    \/ SocialFind(r) \/ SocialDeleted(r) \/ SocialCreate(r) \/ SocialDuplicate(r)
    \/ SocialVerify(r) \/ Link(r) \/ LinkConflict(r) \/ SocialCommit(r) \/ SocialIssue(r)

Next == \E r \in Requests : Begin(r) \/ Continue(r) \/ Lose(r) \/ Abort(r)

Spec == Init /\ [][Next]_vars

(* Requests under way go on. A statement that waits for a row is queued    *)
(* behind the transaction that holds it and gets its turn, however often   *)
(* others take the row after it: strong fairness. A client retries, and    *)
(* crashes and lost connections come to an end.                            *)
Fairness ==
    /\ \A r \in Requests : SF_vars(Continue(r))
    /\ <>[][\A r \in Requests : ~ Lose(r)]_vars

FairSpec == Spec /\ Fairness

-----------------------------------------------------------------------------
Asserts(a, s) == [subject |-> s, email |-> a.email, verified |-> TRUE] \in Identities

(* What a request has in hand fits where it stands.                        *)
JobsFit ==
    \A r \in Requests :
        /\ pc[r] # "idle" => job[r].a \in Accounts
        /\ pc[r] \in {"find", "create", "verify", "link", "commit", "issue"} =>
               job[r].s \in Subjects /\ Asserts(job[r].a, job[r].s)
        /\ pc[r] = "register" => job[r].s = None
        /\ pc[r] \in {"failed", "lost"} /\ job[r].s # None => Asserts(job[r].a, job[r].s)
        /\ pc[r] \in {"verify", "setVerified", "rename", "delete", "deleteCommit"} =>
               account[job[r].a] # "absent"
        /\ job[r].late => account[job[r].a] = "deleted" /\ pc[r] \in {"register", "find", "failed", "lost"}

(* What its transaction has written, too, and nobody else could.           *)
WritesFit ==
    \A r \in Requests :
        /\ wrote[r] # {} => pc[r] \in {"link", "commit", "deleteCommit"}
        /\ pc[r] = "link" => wrote[r] \in {{}, {"insert"}, {"verify"}}
        /\ pc[r] = "commit" => "link" \in wrote[r] /\ "delete" \notin wrote[r]
        /\ pc[r] = "deleteCommit" => wrote[r] = {"delete"}
        /\ "insert" \in wrote[r] => account[job[r].a] = "absent"
        /\ pc[r] \in {"link", "commit"} /\ "insert" \notin wrote[r] => account[job[r].a] # "absent"
        /\ "link" \in wrote[r] => ~ LinkedElsewhere(job[r].a, job[r].s)
        /\ "insert" \in wrote[r] => InsertFree(r, job[r].a)
        /\ wrote[r] \cap {"verify", "delete"} # {} => RowFree(r, job[r].a)
        /\ "link" \in wrote[r] => LinkFree(r, job[r].a, job[r].s)

(* An identity is linked to one account at most, whatever logons race for  *)
(* it (UNIQUE (provider, subject), and Link's wait for uncommitted links). *)
OneAccountPerIdentity ==
    \A a, b \in Accounts : link[a] # None /\ link[a] = link[b] => a = b

(* "a failed Link must not leave behind a freshly created (or freshly      *)
(* verified) account without its social identity" (social.go:78): an       *)
(* account that a social logon has created or verified is linked, and an   *)
(* identity is linked only to an account whose email the provider has      *)
(* verified for it.                                                        *)
NoHalfLogon ==
    /\ \A a \in Accounts : verified[a] = "social" => link[a] # None
    /\ \A a \in Accounts : link[a] # None => account[a] # "absent" /\ Asserts(a, link[a])

(* The inductive invariant: types, requests and transactions under way,    *)
(* and the tables they leave behind.                                       *)
OInv == TypeOK /\ JobsFit /\ WritesFit /\ OneAccountPerIdentity /\ NoHalfLogon

(* A deletion is final for every request that begins after it: none of     *)
(* them changes a row or gets tokens (readLive, and the Deleted check of   *)
(* the social service).                                                    *)
DeletedIsFinal ==
    [][\A r \in Requests : job[r].late =>
           /\ pc'[r] # pc[r] => UNCHANGED rows
           /\ pc'[r] # "issue"]_vars

(* A registration or social logon that is retried after a server error is  *)
(* settled: waits for other transactions end, and the duplicate that the   *)
(* loser of a race to create the account runs into does not come again     *)
(* (findOrCreate, socialProblem).                                          *)
LogonsSettle == \A r \in Requests : (pc[r] \in {"find", "register"}) ~> (pc[r] = "idle")

(* "Multi-tenant everywhere" (README.md:11): whether an identity can be    *)
(* linked in a tenant depends on that tenant only. social_logins has no    *)
(* tenant, so this is not what the code does.                              *)
TenantsIndependent ==
    [][\A r \in Requests : LinkConflict(r) =>
           \E b \in Accounts : b.tenant = job[r].a.tenant /\ link[b] = job[r].s]_vars
=============================================================================
