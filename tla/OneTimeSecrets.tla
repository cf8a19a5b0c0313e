--------------------------- MODULE OneTimeSecrets ---------------------------
(***************************************************************************)
(* The one-time secrets of one account of an: its verification token       *)
(* (accounts.verification_hash), its reset token (password_resets) and its *)
(* logon code (logon_codes), through registration, verification, resend,   *)
(* forgot, reset, code request, code logon and deletion.                   *)
(*                                                                         *)
(* An action is one statement with the work up to the next one; the        *)
(* transactions of Reset and Delete are their statements, then the commit. *)
(* A comparison that fails, a row past its time and a refusal before the   *)
(* first write change nothing (wrong codes are counted in Lockout), so     *)
(* they are not actions.                                                   *)
(***************************************************************************)
EXTENDS Naturals, FiniteSets

CONSTANTS
    Secrets,     \* tokens and codes, each random and drawn once
    Requests,    \* requests in flight at the same time
    None

ASSUME NoneAssumption == None \notin Secrets \cup Requests

ASSUME FiniteAssumption == IsFiniteSet(Requests)

Kinds == {"verify", "reset", "code"}

VARIABLES
    account,     \* accounts: "absent", "live" or "deleted"
    verified,    \* accounts.verified
    place,       \* the secret whose hash is stored, by kind, None without one
    drawn,       \* secrets stored so far; each was returned by the same request
    holder,      \* the request whose transaction has locked the account's row
    pc, job,     \* where each request stands, and its local variables
    spent,       \* history: secrets a completed use has consumed
    uses         \* history: how often a reset token or a logon code was accepted

vars == <<account, verified, place, drawn, holder, pc, job, spent, uses>>

(* `burnt` is the reset row the transaction deletes, `unproved` what a     *)
(* logon read of the account: not verified yet.                            *)
Job == [secret : Secrets \cup {None}, burnt : Secrets \cup {None}, unproved : BOOLEAN]

NoJob == [secret |-> None, burnt |-> None, unproved |-> FALSE]

Steps == {"idle", "setVerified", "resend", "forgot", "resetRead", "resetTx", "resetCommit",
          "deleteTx", "deleteCommit", "codeIssue", "codeRead", "burn", "codeVerify", "issue"}

(* The steps between the comparison of a secret and the end of its use.    *)
Using == {"setVerified", "resetTx", "resetCommit", "burn", "codeVerify", "issue"}

TypeOK ==
    /\ account \in {"absent", "live", "deleted"}
    /\ verified \in BOOLEAN
    /\ place \in [Kinds -> Secrets \cup {None}]
    /\ drawn \in SUBSET Secrets /\ spent \in SUBSET Secrets
    /\ holder \in Requests \cup {None}
    /\ pc \in [Requests -> Steps] /\ job \in [Requests -> Job]
    /\ uses \in [Secrets -> Nat]

Init ==
    /\ account = "absent" /\ verified = FALSE
    /\ place = [k \in Kinds |-> None]
    /\ drawn = {} /\ spent = {} /\ holder = None
    /\ pc = [r \in Requests |-> "idle"] /\ job = [r \in Requests |-> NoJob]
    /\ uses = [s \in Secrets |-> 0]

-----------------------------------------------------------------------------
Start(r, step, j) ==
    /\ pc[r] = "idle"
    /\ pc' = [pc EXCEPT ![r] = step]
    /\ job' = [job EXCEPT ![r] = j]

Move(r, from, to) ==
    /\ pc[r] = from
    /\ pc' = [pc EXCEPT ![r] = to]

Finish(r, from) ==
    /\ Move(r, from, "idle")
    /\ job' = [job EXCEPT ![r] = NoJob]

(* readLive, and the reads of the logon-code service.                      *)
ReadLive(r, step, j) ==
    /\ account = "live"
    /\ Start(r, step, j)
    /\ UNCHANGED <<account, verified, place, drawn, holder, spent, uses>>

(* A fresh secret takes the place of the one there, if any.                *)
Upsert(kind, s) ==
    /\ s \notin drawn
    /\ drawn' = drawn \cup {s}
    /\ place' = [place EXCEPT ![kind] = s]

Accept(s) == uses' = [uses EXCEPT ![s] = @ + 1]
Consume(s) == spent' = spent \cup {s}

(* A statement on the account's row waits for the transaction that has     *)
(* written it; so does one on the reset row a transaction has deleted.     *)
RowFree == holder = None
ResetRowFree == \A r \in Requests : pc[r] = "resetCommit" => job[r].burnt = None

-----------------------------------------------------------------------------
(* Registration and verification.                                          *)

Register(s) ==
    /\ account = "absent"
    /\ account' = "live"
    /\ Upsert("verify", s)
    /\ UNCHANGED <<verified, holder, pc, job, spent, uses>>

VerifyRead(r, s) ==
    /\ ~ verified
    /\ s = place["verify"]
    /\ ReadLive(r, "setVerified", [NoJob EXCEPT !.secret = s])

SetVerifiedKeepsHash(r, from, to) ==
    /\ Move(r, from, to)
    /\ RowFree
    /\ verified' = TRUE
    /\ UNCHANGED <<account, place, drawn, holder>>

SetVerified(r, from, to) ==
    /\ Move(r, from, to)
    /\ RowFree
    /\ verified' = TRUE
    /\ place' = [place EXCEPT !["verify"] = None]
    /\ UNCHANGED <<account, drawn, holder>>

Verify(r) ==
    /\ SetVerified(r, "setVerified", "idle")
    /\ job' = [job EXCEPT ![r] = NoJob]
    /\ Consume(job[r].secret)
    /\ UNCHANGED uses

ResendRead(r) ==
    /\ ~ verified
    /\ ReadLive(r, "resend", NoJob)

ResendWrite(r, s) ==
    /\ Finish(r, "resend")
    /\ RowFree
    /\ Upsert("verify", s)
    /\ UNCHANGED <<account, verified, holder, spent, uses>>

-----------------------------------------------------------------------------
(* Forgotten passwords.                                                    *)

ForgotRead(r) == ReadLive(r, "forgot", NoJob)

ForgotUpsert(r, s) ==
    /\ Finish(r, "forgot")
    /\ ResetRowFree
    /\ Upsert("reset", s)
    /\ UNCHANGED <<account, verified, holder, spent, uses>>

ResetAccount(r) == ReadLive(r, "resetRead", NoJob)

ResetReadAny(r, s) ==
    /\ s \in drawn
    /\ Move(r, "resetRead", "resetTx")
    /\ job' = [job EXCEPT ![r].secret = s]
    /\ UNCHANGED <<account, verified, place, drawn, holder, spent, uses>>

ResetRead(r, s) ==
    /\ s = place["reset"]
    /\ Move(r, "resetRead", "resetTx")
    /\ job' = [job EXCEPT ![r].secret = s]
    /\ UNCHANGED <<account, verified, place, drawn, holder, spent, uses>>

ResetStatements(r) ==
    /\ Move(r, "resetTx", "resetCommit")
    /\ RowFree
    /\ holder' = r
    /\ job' = [job EXCEPT ![r].burnt = place["reset"]]
    /\ UNCHANGED <<account, verified, place, drawn, spent, uses>>

ResetCommitKeepsToken(r) ==
    /\ Finish(r, "resetCommit")
    /\ holder' = None
    /\ Accept(job[r].secret) /\ Consume(job[r].secret)
    /\ UNCHANGED <<account, verified, place, drawn>>

ResetCommit(r) ==
    /\ Finish(r, "resetCommit")
    /\ holder' = None
    /\ place' = IF job[r].burnt = None THEN place ELSE [place EXCEPT !["reset"] = None]
    /\ Accept(job[r].secret) /\ Consume(job[r].secret)
    /\ UNCHANGED <<account, verified, drawn>>

-----------------------------------------------------------------------------
(* Logon codes.                                                            *)

CodeRequest(r) == ReadLive(r, "codeIssue", NoJob)

CodeIssue(r, s) ==
    /\ Finish(r, "codeIssue")
    /\ Upsert("code", s)
    /\ UNCHANGED <<account, verified, holder, spent, uses>>

CodeAccount(r) == ReadLive(r, "codeRead", [NoJob EXCEPT !.unproved = ~ verified])

CodeRead(r, s) ==
    /\ s = place["code"]
    /\ Move(r, "codeRead", "burn")
    /\ job' = [job EXCEPT ![r].secret = s]
    /\ UNCHANGED <<account, verified, place, drawn, holder, spent, uses>>

(* codes.Delete takes the row that is there, and attempts.Clear follows.   *)
Burn(r) ==
    /\ Move(r, "burn", IF job[r].unproved THEN "codeVerify" ELSE "issue")
    /\ place' = [place EXCEPT !["code"] = None]
    /\ Consume(job[r].secret)
    /\ UNCHANGED <<account, verified, drawn, holder, job, uses>>

CodeVerify(r) ==
    /\ SetVerified(r, "codeVerify", "issue")
    /\ UNCHANGED <<job, spent, uses>>

Issue(r) ==
    /\ Finish(r, "issue")
    /\ Accept(job[r].secret)
    /\ UNCHANGED <<account, verified, place, drawn, holder, spent>>

-----------------------------------------------------------------------------
(* Deletion, which leaves the secrets where they are; the janitor; crashes *)
(* and cancelled requests.                                                 *)

DeleteRead(r) == ReadLive(r, "deleteTx", NoJob)

DeleteStatements(r) ==
    /\ Move(r, "deleteTx", "deleteCommit")
    /\ RowFree
    /\ holder' = r
    /\ UNCHANGED <<account, verified, place, drawn, job, spent, uses>>

DeleteCommit(r) ==
    /\ Finish(r, "deleteCommit")
    /\ account' = "deleted"
    /\ holder' = None
    /\ UNCHANGED <<verified, place, drawn, spent, uses>>

Sweep(kind) ==
    /\ place[kind] # None
    /\ kind = "reset" => ResetRowFree
    /\ place' = [place EXCEPT ![kind] = None]
    /\ UNCHANGED <<account, verified, drawn, holder, pc, job, spent, uses>>

Abort(r) ==
    /\ pc[r] # "idle"
    /\ Finish(r, pc[r])
    /\ holder' = IF holder = r THEN None ELSE holder
    /\ UNCHANGED <<account, verified, place, drawn, spent, uses>>

Begin(r) ==
    \/ ResendRead(r) \/ ForgotRead(r) \/ ResetAccount(r)
    \/ CodeRequest(r) \/ CodeAccount(r) \/ DeleteRead(r)

Continue(r) ==
    \/ Verify(r) \/ ResetStatements(r) \/ ResetCommit(r)
    \/ Burn(r) \/ CodeVerify(r) \/ Issue(r)
    \/ DeleteStatements(r) \/ DeleteCommit(r) \/ Abort(r)

WithSecret(r, s) ==
    \/ VerifyRead(r, s) \/ ResetRead(r, s) \/ CodeRead(r, s)
    \/ ResendWrite(r, s) \/ ForgotUpsert(r, s) \/ CodeIssue(r, s)

Next ==
    \/ \E s \in Secrets : Register(s)
    \/ \E r \in Requests : Begin(r) \/ Continue(r)
    \/ \E r \in Requests, s \in Secrets : WithSecret(r, s)
    \/ \E kind \in {"reset", "code"} : Sweep(kind)

Spec == Init /\ [][Next]_vars

-----------------------------------------------------------------------------
Users(s) == {r \in Requests : pc[r] \in Using /\ job[r].secret = s}

(* Secrets replaced, consumed or swept.                                    *)
Dead == {s \in drawn : \A k \in Kinds : place[k] # s}

(* The local variables of a request fit where it stands, and a secret is   *)
(* stored as what it was drawn for only.                                   *)
JobsFit ==
    /\ \A r \in Requests : pc[r] \in Using => job[r].secret \in drawn
    /\ \A r \in Requests : pc[r] \in {"codeVerify", "issue"} => job[r].secret \in spent
    /\ \A r \in Requests : pc[r] \in {"resetTx", "resetCommit"} =>
           \A k \in Kinds \ {"reset"} : place[k] # job[r].secret
    /\ \A r \in Requests : pc[r] = "setVerified" =>
           \A k \in Kinds \ {"verify"} : place[k] # job[r].secret
    /\ \A r \in Requests : pc[r] = "burn" =>
           \A k \in Kinds \ {"code"} : place[k] # job[r].secret
    /\ \A k, l \in Kinds : place[k] # None => place[k] \in drawn /\ (place[k] = place[l] => k = l)

(* A transaction has the account's row to itself, and the reset row it has *)
(* deleted is still the stored one.                                        *)
Locks ==
    /\ \A r \in Requests : pc[r] \in {"resetCommit", "deleteCommit"} => holder = r
    /\ \A r \in Requests : pc[r] = "resetCommit" =>
           \/ job[r].burnt = place["reset"] /\ job[r].burnt # None
           \/ job[r].burnt = None /\ place["reset"] # job[r].secret

(* A use that completed leaves its secret dead (SetVerified, resets.Delete *)
(* and codes.Delete), whatever was stored or deleted since it was read.    *)
SpentAreDead == spent \subseteq Dead

(* Acceptances of a secret and uses under way never outnumber requests.    *)
UsesCounted ==
    \A s \in Secrets :
        /\ s \notin spent => uses[s] = 0
        /\ uses[s] + Cardinality(Users(s)) <= Cardinality(Requests)

SInv == TypeOK /\ JobsFit /\ Locks /\ SpentAreDead /\ UsesCounted

(* A reset token or logon code is accepted at most once per request in     *)
(* flight: only requests that had compared it before its first use was     *)
(* over can use it again (Reset, Authenticate of the logon-code service).  *)
BoundedReuse == \A s \in Secrets : uses[s] <= Cardinality(Requests)

(* A secret that was replaced, consumed or swept is never stored again and *)
(* no request begins to use it: after a resend, a second forgot or a       *)
(* second code request the earlier one is dead.                            *)
NoLateUse == [][/\ Dead \subseteq Dead'
                /\ \A s \in Dead : Users(s)' \subseteq Users(s)]_vars
=============================================================================
