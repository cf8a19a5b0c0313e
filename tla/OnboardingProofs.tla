-------------------------- MODULE OnboardingProofs --------------------------
(***************************************************************************)
(* The invariants of Onboarding, for any tenants, emails, identities and   *)
(* number of requests. OInv is inductive: a constraint of the tables holds *)
(* of committed rows only, so a commit keeps it because of what the open   *)
(* transactions have waited for when they wrote (WritesFit).               *)
(***************************************************************************)
EXTENDS Onboarding, TLAPS

Writing == {"link", "commit", "deleteCommit"}

(* What JobsFit and TypeOK say of a request at step p with j in hand.      *)
Fits(p, j) ==
    /\ p \in Steps /\ j \in Job
    /\ p # "idle" => j.a \in Accounts
    /\ p \in {"find", "create", "verify", "link", "commit", "issue"} =>
           j.s \in Subjects /\ Asserts(j.a, j.s)
    /\ p = "register" => j.s = None
    /\ p \in {"failed", "lost"} /\ j.s # None => Asserts(j.a, j.s)
    /\ p \in {"verify", "setVerified", "rename", "delete", "deleteCommit"} =>
           account[j.a] # "absent"
    /\ j.late => account[j.a] = "deleted" /\ p \in {"register", "find", "failed", "lost"}

LEMMA RequestFits ==
    ASSUME OInv, NEW r \in Requests
    PROVE  Fits(pc[r], job[r])
BY DEF OInv, TypeOK, JobsFit, Fits

LEMMA NoJobFits == Fits("idle", NoJob)
BY DEF Fits, Steps, Job, NoJob

LEMMA InitOInv == Init => OInv
<1> SUFFICES ASSUME Init PROVE OInv
    OBVIOUS
<1>1. TypeOK
    BY DEF Init, TypeOK, Steps, Job, NoJob
<1>2. JobsFit /\ WritesFit
    BY DEF Init, JobsFit, WritesFit, NoJob
<1>3. OneAccountPerIdentity /\ NoHalfLogon
    BY DEF Init, OneAccountPerIdentity, NoHalfLogon
<1> QED
    BY <1>1, <1>2, <1>3 DEF OInv

(* Accounts are created and deleted, never the other way round.            *)
Ages ==
    \A a \in Accounts : /\ account[a] # "absent" => account'[a] # "absent"
                        /\ account[a] = "deleted" => account'[a] = "deleted"

(* What the others have written still fits the committed rows.             *)
OthersFit(r) ==
    \A q \in Requests \ {r} :
        /\ "insert" \in wrote[q] => account'[job[q].a] = "absent"
        /\ "link" \in wrote[q] =>
               /\ \A b \in Accounts \ {job[q].a} : link'[b] # job[q].s
               /\ \A o \in Requests \ {q, r} :
                      "link" \in wrote[o] => link'[job[o].a] # job[q].s

(* A request lets go of what it wrote, committed or not.                   *)
LEMMA ReleaseStep ==
    ASSUME OInv, NEW r \in Requests, NEW p, NEW j, Fits(p, j),
           p \notin {"commit", "deleteCommit"}, p = "link" => account[j.a] # "absent",
           pc' = [pc EXCEPT ![r] = p], job' = [job EXCEPT ![r] = j],
           wrote' = [wrote EXCEPT ![r] = {}],
           account' \in [Accounts -> {"absent", "live", "deleted"}],
           verified' \in [Accounts -> {"no", "token", "social"}],
           link' \in [Accounts -> Subjects \cup {None}],
           Ages, OthersFit(r), OneAccountPerIdentity', NoHalfLogon'
    PROVE  OInv'
<1> USE DEF OInv
<1>1. TypeOK'
    BY DEF TypeOK, Fits
<1>2. JobsFit'
    <2>1. \A q \in Requests : Fits(pc'[q], job'[q])
        BY RequestFits DEF TypeOK
    <2> QED
        BY <2>1 DEF JobsFit, Fits, Ages, Asserts
<1>3. WritesFit'
    <2> SUFFICES ASSUME NEW q \in Requests
                 PROVE  /\ wrote'[q] # {} => pc'[q] \in Writing
                        /\ pc'[q] = "link" => wrote'[q] \in {{}, {"insert"}, {"verify"}}
                        /\ pc'[q] = "commit" => "link" \in wrote'[q] /\ "delete" \notin wrote'[q]
                        /\ pc'[q] = "deleteCommit" => wrote'[q] = {"delete"}
                        /\ "insert" \in wrote'[q] => account'[job'[q].a] = "absent"
                        /\ pc'[q] \in {"link", "commit"} /\ "insert" \notin wrote'[q] =>
                               account'[job'[q].a] # "absent"
                        /\ "link" \in wrote'[q] => ~ LinkedElsewhere(job[q].a, job[q].s)'
                        /\ "insert" \in wrote'[q] => InsertFree(q, job[q].a)'
                        /\ wrote'[q] \cap {"verify", "delete"} # {} => RowFree(q, job[q].a)'
                        /\ "link" \in wrote'[q] => LinkFree(q, job[q].a, job[q].s)'
        BY DEF WritesFit, Writing
    <2>1. CASE q = r
        <3>1. pc'[q] = p /\ job'[q] = j /\ wrote'[q] = {}
            BY <2>1 DEF TypeOK
        <3> QED
            BY <3>1 DEF Fits, Ages
    <2>2. CASE q # r
        <3>1. pc'[q] = pc[q] /\ job'[q] = job[q] /\ wrote'[q] = wrote[q]
            BY <2>2 DEF TypeOK
        <3>2. \A o \in Requests : wrote'[o] = {} \/ (o # r /\ wrote'[o] = wrote[o] /\ job'[o] = job[o])
            BY DEF TypeOK
        <3>3. pc[q] \in {"link", "commit"} => job[q].a \in Accounts
            BY RequestFits DEF Fits
        <3>4. "link" \in wrote[q] => /\ ~ LinkedElsewhere(job[q].a, job[q].s)'
                                     /\ LinkFree(q, job[q].a, job[q].s)'
            BY <2>2, <3>1, <3>2 DEF OthersFit, WritesFit, LinkedElsewhere, LinkFree
        <3>5. "insert" \in wrote[q] => InsertFree(q, job[q].a)'
            BY <3>1, <3>2 DEF WritesFit, InsertFree
        <3>6. wrote[q] \cap {"verify", "delete"} # {} => RowFree(q, job[q].a)'
            BY <3>1, <3>2 DEF WritesFit, RowFree
        <3> QED
            BY <2>2, <3>1, <3>3, <3>4, <3>5, <3>6 DEF WritesFit, Writing, Ages, OthersFit
    <2> QED
        BY <2>1, <2>2
<1> QED
    BY <1>1, <1>2, <1>3

(* It leaves the accounts and the links alone.                             *)
LEMMA QuietStep ==
    ASSUME OInv, NEW r \in Requests, NEW p, NEW j, Fits(p, j),
           p \notin {"commit", "deleteCommit"}, p = "link" => account[j.a] # "absent",
           pc' = [pc EXCEPT ![r] = p], job' = [job EXCEPT ![r] = j],
           wrote' = [wrote EXCEPT ![r] = {}], UNCHANGED <<account, link>>,
           verified' \in [Accounts -> {"no", "token", "social"}],
           \A a \in Accounts : verified'[a] = "social" => verified[a] = "social"
    PROVE  OInv'
<1>1. Ages
    BY DEF Ages
<1>2. OthersFit(r)
    BY DEF OthersFit, OInv, WritesFit, LinkedElsewhere, LinkFree
<1>3. OneAccountPerIdentity' /\ NoHalfLogon'
    BY DEF OInv, OneAccountPerIdentity, NoHalfLogon, Asserts
<1>4. /\ account' \in [Accounts -> {"absent", "live", "deleted"}]
      /\ link' \in [Accounts -> Subjects \cup {None}]
    BY DEF OInv, TypeOK
<1> QED
    BY <1>1, <1>2, <1>3, <1>4, ReleaseStep

LEMMA Unwritten ==
    ASSUME OInv, NEW r \in Requests, pc[r] \notin Writing
    PROVE  wrote[r] = {} /\ wrote = [wrote EXCEPT ![r] = {}]
BY DEF OInv, TypeOK, WritesFit, Writing

(* A request writes w, having waited for its turn.                         *)
LEMMA WriteStep ==
    ASSUME OInv, NEW r \in Requests, NEW p \in Writing, NEW w,
           Fits(p, job[r]),
           pc' = [pc EXCEPT ![r] = p], wrote' = [wrote EXCEPT ![r] = @ \cup {w}],
           UNCHANGED <<rows, job>>,
           \/ /\ w = "insert" /\ p = "link" /\ wrote[r] = {}
              /\ account[job[r].a] = "absent" /\ InsertFree(r, job[r].a)
           \/ /\ w = "verify" /\ p = "link" /\ wrote[r] = {}
              /\ account[job[r].a] # "absent" /\ RowFree(r, job[r].a)
           \/ /\ w = "delete" /\ p = "deleteCommit" /\ wrote[r] = {} /\ RowFree(r, job[r].a)
           \/ /\ w = "link" /\ p = "commit" /\ pc[r] = "link"
              /\ LinkFree(r, job[r].a, job[r].s) /\ ~ LinkedElsewhere(job[r].a, job[r].s)
    PROVE  OInv'
<1> USE DEF OInv, rows
<1>0. /\ pc'[r] = p /\ wrote'[r] = wrote[r] \cup {w} /\ job[r].a \in Accounts
      /\ w \in {"insert", "verify", "delete", "link"}
    BY DEF TypeOK, Fits, Writing
<1>1. TypeOK'
    BY <1>0 DEF TypeOK, Fits
<1>2. JobsFit'
    <2>1. \A q \in Requests : Fits(pc'[q], job'[q])
        BY RequestFits DEF TypeOK
    <2> QED
        BY <2>1 DEF JobsFit, Fits, Asserts
<1>3. WritesFit'
    <2>a. \A q \in Requests \ {r} : pc'[q] = pc[q] /\ wrote'[q] = wrote[q]
        BY DEF TypeOK
    <2>b. \A q \in Requests : "link" \in wrote[q] => ~ LinkedElsewhere(job[q].a, job[q].s)
        BY DEF WritesFit
    <2>1. ASSUME NEW q \in Requests
          PROVE  /\ "insert" \in wrote'[q] => InsertFree(q, job[q].a)'
                 /\ wrote'[q] \cap {"verify", "delete"} # {} => RowFree(q, job[q].a)'
        <3>1. CASE q = r
            BY <1>0, <2>a, <3>1 DEF WritesFit, InsertFree, RowFree
        <3>2. CASE q # r
            BY <1>0, <2>a, <3>2 DEF WritesFit, InsertFree, RowFree
        <3> QED
            BY <3>1, <3>2
    <2>2. ASSUME NEW q \in Requests, "link" \in wrote'[q]
          PROVE  /\ LinkFree(q, job[q].a, job[q].s)'
                 /\ ~ LinkedElsewhere(job[q].a, job[q].s)'
        <3>1. CASE q = r
            <4>1. w = "link"
                BY <1>0, <2>2, <3>1 DEF WritesFit
            <4> QED
                BY <2>a, <3>1, <4>1 DEF LinkFree, LinkedElsewhere
        <3>2. CASE q # r
            BY <1>0, <2>a, <2>b, <2>2, <3>2 DEF WritesFit, LinkFree, LinkedElsewhere
        <3> QED
            BY <3>1, <3>2
    <2>3. ASSUME NEW q \in Requests
          PROVE  /\ wrote'[q] # {} => pc'[q] \in Writing
                 /\ pc'[q] = "link" => wrote'[q] \in {{}, {"insert"}, {"verify"}}
                 /\ pc'[q] = "commit" => "link" \in wrote'[q] /\ "delete" \notin wrote'[q]
                 /\ pc'[q] = "deleteCommit" => wrote'[q] = {"delete"}
                 /\ "insert" \in wrote'[q] => account[job[q].a] = "absent"
                 /\ pc'[q] \in {"link", "commit"} /\ "insert" \notin wrote'[q] =>
                        account[job[q].a] # "absent"
        <3>1. CASE q = r
            BY <1>0, <3>1 DEF WritesFit, Writing
        <3>2. CASE q # r
            BY <2>a, <3>2 DEF WritesFit, Writing
        <3> QED
            BY <3>1, <3>2
    <2> QED
        BY <2>1, <2>2, <2>3 DEF WritesFit, Writing
<1>4. OneAccountPerIdentity' /\ NoHalfLogon'
    BY DEF OneAccountPerIdentity, NoHalfLogon, Asserts
<1> QED
    BY <1>1, <1>2, <1>3, <1>4

-----------------------------------------------------------------------------
LEMMA BeginStep ==
    ASSUME OInv, NEW r \in Requests, Begin(r)
    PROVE  OInv'
<1>1. ASSUME NEW step \in {"register", "find", "setVerified", "rename", "delete"},
             NEW a \in Accounts, NEW s \in Subjects \cup {None}, Start(r, step, a, s),
             step = "find" => s \in Subjects /\ Asserts(a, s),
             step = "register" => s = None,
             step \in {"setVerified", "rename", "delete"} => account[a] = "live"
      PROVE  OInv'
    <2> DEFINE j == [a |-> a, s |-> s, late |-> account[a] = "deleted"]
    <2>1. /\ pc[r] = "idle" /\ pc' = [pc EXCEPT ![r] = step] /\ job' = [job EXCEPT ![r] = j]
          /\ UNCHANGED <<rows, wrote>>
        BY <1>1 DEF Start
    <2>2. wrote' = [wrote EXCEPT ![r] = {}]
        BY <2>1, Unwritten DEF Writing
    <2>3. Fits(step, j)
        BY <1>1 DEF Fits, Steps, Job
    <2>4. verified' \in [Accounts -> {"no", "token", "social"}]
        BY <2>1 DEF OInv, TypeOK, rows
    <2> QED
        BY <1>1, <2>1, <2>2, <2>3, <2>4, QuietStep DEF rows
<1>2. ASSUME NEW i \in Identities, NEW t \in Tenants, SocialBegin(r, i, t)
      PROVE  OInv'
    <2> DEFINE a == [tenant |-> t, email |-> i.email]
    <2>1. /\ i.subject \in Subjects /\ a \in Accounts /\ a.email = i.email /\ i.verified = TRUE
          /\ i = [subject |-> i.subject, email |-> i.email, verified |-> i.verified]
        BY <1>2, IdentitiesAssumption DEF Identity, Accounts, SocialBegin
    <2>2. Asserts(a, i.subject)
        BY <2>1 DEF Asserts
    <2>3. Start(r, "find", a, i.subject)
        BY <1>2 DEF SocialBegin
    <2> QED
        BY <1>1, <2>1, <2>2, <2>3
<1>3. CASE \E a \in Accounts : \/ RegisterBegin(r, a) \/ VerifyRead(r, a)
                               \/ RenameRead(r, a) \/ DeleteRead(r, a)
    BY <1>1, <1>3 DEF RegisterBegin, VerifyRead, RenameRead, DeleteRead
<1> QED
    BY <1>2, <1>3 DEF Begin

(* A request ends, and commits nothing.                                    *)
LEMMA EndStep ==
    ASSUME OInv, NEW r \in Requests,
           pc' = [pc EXCEPT ![r] = "idle"], job' = [job EXCEPT ![r] = NoJob],
           wrote' = [wrote EXCEPT ![r] = {}], UNCHANGED <<account, link>>,
           verified' \in [Accounts -> {"no", "token", "social"}],
           \A a \in Accounts : verified'[a] = "social" => verified[a] = "social"
    PROVE  OInv'
BY NoJobFits, QuietStep

(* A social logon or a registration ends with an error, or is lost.        *)
LEMMA FailStep ==
    ASSUME OInv, NEW r \in Requests, NEW p \in {"failed", "lost"},
           pc[r] \in {"register", "find", "create", "verify", "link", "commit", "issue"},
           pc' = [pc EXCEPT ![r] = p], wrote' = [wrote EXCEPT ![r] = {}], UNCHANGED <<rows, job>>
    PROVE  OInv'
<1>1. Fits(p, job[r])
    BY RequestFits DEF Fits, Steps
<1>2. job' = [job EXCEPT ![r] = job[r]] /\ verified' \in [Accounts -> {"no", "token", "social"}]
    BY DEF OInv, TypeOK, rows
<1> QED
    BY <1>1, <1>2, QuietStep DEF rows

LEMMA AnswerStep ==
    ASSUME OInv, NEW r \in Requests, NEW status, Answer(r, status),
           pc[r] \in {"register", "find", "create", "verify", "link", "commit", "issue"}
    PROVE  OInv'
<1>1. verified' \in [Accounts -> {"no", "token", "social"}] /\ UNCHANGED rows
    BY DEF Answer, rows, OInv, TypeOK
<1> QED
    BY <1>1, EndStep, FailStep DEF Answer, rows

-----------------------------------------------------------------------------
LEMMA RegisterStep ==
    ASSUME OInv, NEW r \in Requests, Register(r)
    PROVE  OInv'
<1> DEFINE a == job[r].a
<1>1. /\ pc[r] = "register" /\ account[a] = "absent" /\ InsertFree(r, a)
      /\ pc' = [pc EXCEPT ![r] = "idle"] /\ job' = [job EXCEPT ![r] = NoJob]
      /\ wrote' = [wrote EXCEPT ![r] = {}]
      /\ account' = [account EXCEPT ![a] = "live"] /\ UNCHANGED <<verified, link>>
    BY DEF Register, Finish
<1>2. a \in Accounts
    BY <1>1, RequestFits DEF Fits
<1>3. Ages
    BY <1>1, <1>2 DEF Ages, OInv, TypeOK
<1>4. OthersFit(r)
    BY <1>1, <1>2 DEF OthersFit, OInv, TypeOK, WritesFit, LinkedElsewhere, LinkFree, InsertFree
<1>5. OneAccountPerIdentity' /\ NoHalfLogon'
    BY <1>1, <1>2 DEF OInv, TypeOK, OneAccountPerIdentity, NoHalfLogon, Asserts
<1>6. /\ account' \in [Accounts -> {"absent", "live", "deleted"}]
      /\ verified' \in [Accounts -> {"no", "token", "social"}]
      /\ link' \in [Accounts -> Subjects \cup {None}]
    BY <1>1 DEF OInv, TypeOK
<1> QED
    BY <1>1, <1>3, <1>4, <1>5, <1>6, NoJobFits, ReleaseStep

LEMMA DeleteCommitStep ==
    ASSUME OInv, NEW r \in Requests, DeleteCommit(r)
    PROVE  OInv'
<1> DEFINE a == job[r].a
<1>1. /\ pc[r] = "deleteCommit"
      /\ pc' = [pc EXCEPT ![r] = "idle"] /\ job' = [job EXCEPT ![r] = NoJob]
      /\ wrote' = [wrote EXCEPT ![r] = {}]
      /\ account' = [account EXCEPT ![a] = "deleted"] /\ UNCHANGED <<verified, link>>
    BY DEF DeleteCommit, Finish
<1>2. a \in Accounts /\ account[a] # "absent"
    BY <1>1, RequestFits DEF Fits
<1>3. Ages
    BY <1>1, <1>2 DEF Ages, OInv, TypeOK
<1>4. OthersFit(r)
    BY <1>1, <1>2 DEF OthersFit, OInv, TypeOK, WritesFit, LinkedElsewhere, LinkFree
<1>5. OneAccountPerIdentity' /\ NoHalfLogon'
    BY <1>1, <1>2 DEF OInv, TypeOK, OneAccountPerIdentity, NoHalfLogon, Asserts
<1>6. /\ account' \in [Accounts -> {"absent", "live", "deleted"}]
      /\ verified' \in [Accounts -> {"no", "token", "social"}]
      /\ link' \in [Accounts -> Subjects \cup {None}]
    BY <1>1 DEF OInv, TypeOK
<1> QED
    BY <1>1, <1>3, <1>4, <1>5, <1>6, NoJobFits, ReleaseStep

LEMMA SocialCommitStep ==
    ASSUME OInv, NEW r \in Requests, SocialCommit(r)
    PROVE  OInv'
<1> DEFINE a == job[r].a
           s == job[r].s
<1>1. /\ pc[r] = "commit" /\ pc' = [pc EXCEPT ![r] = "issue"] /\ job' = job
      /\ wrote' = [wrote EXCEPT ![r] = {}]
      /\ account' = IF "insert" \in wrote[r] THEN [account EXCEPT ![a] = "live"] ELSE account
      /\ verified' = IF wrote[r] \cap {"insert", "verify"} # {}
                     THEN [verified EXCEPT ![a] = "social"] ELSE verified
      /\ link' = [link EXCEPT ![a] = s]
    BY DEF SocialCommit, Move
<1>2. /\ a \in Accounts /\ s \in Subjects /\ s # None /\ Asserts(a, s)
      /\ Fits("issue", job[r])
    BY <1>1, RequestFits, NoneAssumption DEF Fits, Steps
<1>3. /\ "link" \in wrote[r] /\ ~ LinkedElsewhere(a, s) /\ LinkFree(r, a, s)
      /\ "insert" \in wrote[r] => account[a] = "absent" /\ InsertFree(r, a)
      /\ "insert" \notin wrote[r] => account[a] # "absent"
    BY <1>1 DEF OInv, WritesFit
<1>4. /\ account' \in [Accounts -> {"absent", "live", "deleted"}]
      /\ verified' \in [Accounts -> {"no", "token", "social"}]
      /\ link' \in [Accounts -> Subjects \cup {None}]
      /\ job' = [job EXCEPT ![r] = job[r]]
    BY <1>1, <1>2 DEF OInv, TypeOK
<1>5. /\ account'[a] # "absent"
      /\ \A b \in Accounts \ {a} : account'[b] = account[b] /\ verified'[b] = verified[b]
    BY <1>1, <1>2, <1>3 DEF OInv, TypeOK
<1>6. link'[a] = s /\ \A b \in Accounts \ {a} : link'[b] = link[b] /\ link[b] # s
    BY <1>1, <1>2, <1>3 DEF OInv, TypeOK, LinkedElsewhere
<1>7. Ages
    BY <1>1, <1>3, <1>5 DEF Ages
<1>8. OthersFit(r)
    <2> SUFFICES ASSUME NEW q \in Requests \ {r}
                 PROVE  /\ "insert" \in wrote[q] => account'[job[q].a] = "absent"
                        /\ "link" \in wrote[q] =>
                               /\ \A b \in Accounts \ {job[q].a} : link'[b] # job[q].s
                               /\ \A o \in Requests \ {q, r} :
                                      "link" \in wrote[o] => link'[job[o].a] # job[q].s
        BY DEF OthersFit
    <2>1. wrote[q] # {} => job[q].a \in Accounts
        BY RequestFits DEF OInv, WritesFit, Fits
    <2>2. "insert" \in wrote[q] => account[job[q].a] = "absent"
        BY DEF OInv, WritesFit
    <2>3. "insert" \in wrote[q] => account'[job[q].a] = "absent"
        <3> SUFFICES ASSUME "insert" \in wrote[q] PROVE account'[job[q].a] = "absent"
            OBVIOUS
        <3>1. job[q].a # a
            BY <1>3, <2>2 DEF InsertFree
        <3> QED
            BY <1>5, <2>1, <2>2, <3>1
    <2>4. ASSUME "link" \in wrote[q]
          PROVE  /\ job[q].a # a /\ job[q].s # s
                 /\ \A b \in Accounts \ {job[q].a} : link[b] # job[q].s
        BY <1>3, <2>4 DEF LinkFree, OInv, WritesFit, LinkedElsewhere
    <2>5. ASSUME "link" \in wrote[q], NEW o \in Requests \ {q, r}, "link" \in wrote[o]
          PROVE  link'[job[o].a] # job[q].s
        <3>1. job[o].a # a /\ job[o].a \in Accounts
            BY <1>3, <2>5, RequestFits DEF LinkFree, OInv, WritesFit, Fits
        <3>2. link[job[o].a] # job[q].s
            BY <2>5 DEF OInv, WritesFit, LinkFree
        <3> QED
            BY <1>6, <3>1, <3>2
    <2> QED
        BY <1>6, <2>3, <2>4, <2>5
<1>9. OneAccountPerIdentity'
    BY <1>2, <1>6 DEF OInv, OneAccountPerIdentity
<1>10. NoHalfLogon'
    BY <1>2, <1>5, <1>6 DEF OInv, NoHalfLogon, Asserts
<1> HIDE DEF a, s
<1> QED
    BY <1>1, <1>2, <1>4, <1>7, <1>8, <1>9, <1>10, ReleaseStep

-----------------------------------------------------------------------------
(* The steps of a social logon, and those that write or just end.          *)

LEMMA SocialStep ==
    ASSUME OInv, NEW r \in Requests,
           \/ SocialFind(r) \/ SocialDeleted(r) \/ SocialCreate(r) \/ SocialDuplicate(r)
           \/ SocialVerify(r) \/ Link(r) \/ LinkConflict(r) \/ SocialIssue(r)
    PROVE  OInv'
<1>1. CASE SocialFind(r)
    <2> DEFINE p == IF account[job[r].a] = "absent" THEN "create"
                    ELSE IF verified[job[r].a] = "no" THEN "verify" ELSE "link"
    <2>1. /\ pc[r] = "find" /\ account[job[r].a] # "deleted"
          /\ pc' = [pc EXCEPT ![r] = p] /\ UNCHANGED <<rows, wrote, job>>
        BY <1>1 DEF SocialFind, Move
    <2>2. job' = [job EXCEPT ![r] = job[r]] /\ wrote' = [wrote EXCEPT ![r] = {}]
        BY <2>1, Unwritten DEF OInv, TypeOK, Writing
    <2>3. p \in {"create", "verify", "link"} /\ (p \in {"verify", "link"} => account[job[r].a] # "absent")
        OBVIOUS
    <2>4. verified' \in [Accounts -> {"no", "token", "social"}]
        BY <2>1 DEF OInv, TypeOK, rows
    <2> HIDE DEF p
    <2>5. Fits(p, job[r])
        BY <2>1, <2>3, RequestFits DEF Fits, Steps
    <2> QED
        BY <2>1, <2>2, <2>3, <2>4, <2>5, QuietStep DEF rows
<1>2. CASE SocialDeleted(r) \/ SocialDuplicate(r) \/ LinkConflict(r)
    BY <1>2, AnswerStep DEF SocialDeleted, SocialDuplicate, LinkConflict
<1>3. CASE SocialCreate(r)
    <2>1. /\ pc[r] = "create" /\ account[job[r].a] = "absent" /\ InsertFree(r, job[r].a)
          /\ pc' = [pc EXCEPT ![r] = "link"] /\ UNCHANGED <<rows, job>>
          /\ wrote' = [wrote EXCEPT ![r] = @ \cup {"insert"}]
        BY <1>3 DEF SocialCreate, Move
    <2>2. Fits("link", job[r]) /\ wrote[r] = {}
        BY <2>1, RequestFits, Unwritten DEF Fits, Steps, Writing
    <2> QED
        BY <2>1, <2>2, WriteStep DEF Writing
<1>4. CASE SocialVerify(r)
    <2>1. /\ pc[r] = "verify" /\ RowFree(r, job[r].a)
          /\ pc' = [pc EXCEPT ![r] = "link"] /\ UNCHANGED <<rows, job>>
          /\ wrote' = [wrote EXCEPT ![r] = @ \cup {"verify"}]
        BY <1>4 DEF SocialVerify, Move
    <2>2. Fits("link", job[r]) /\ wrote[r] = {} /\ account[job[r].a] # "absent"
        BY <2>1, RequestFits, Unwritten DEF Fits, Steps, Writing
    <2> QED
        BY <2>1, <2>2, WriteStep DEF Writing
<1>5. CASE Link(r)
    <2>1. /\ pc[r] = "link"
          /\ LinkFree(r, job[r].a, job[r].s) /\ ~ LinkedElsewhere(job[r].a, job[r].s)
          /\ pc' = [pc EXCEPT ![r] = "commit"] /\ UNCHANGED <<rows, job>>
          /\ wrote' = [wrote EXCEPT ![r] = @ \cup {"link"}]
        BY <1>5 DEF Link, Move
    <2>2. Fits("commit", job[r])
        BY <2>1, RequestFits DEF Fits, Steps
    <2> QED
        BY <2>1, <2>2, WriteStep DEF Writing
<1>6. CASE SocialIssue(r)
    BY <1>6, EndStep DEF SocialIssue, Finish, rows, OInv, TypeOK
<1> QED
    BY <1>1, <1>2, <1>3, <1>4, <1>5, <1>6

LEMMA OtherStep ==
    ASSUME OInv, NEW r \in Requests,
           \/ RegisterDuplicate(r) \/ UpdateName(r) \/ SetVerified(r) \/ SoftDelete(r)
           \/ Retry(r) \/ Lose(r) \/ Abort(r)
    PROVE  OInv'
<1>1. CASE RegisterDuplicate(r)
    BY <1>1, AnswerStep DEF RegisterDuplicate
<1>2. CASE UpdateName(r) \/ Abort(r)
    BY <1>2, EndStep DEF UpdateName, Abort, Finish, rows, OInv, TypeOK
<1>3. CASE SetVerified(r)
    <2>1. /\ verified' \in [Accounts -> {"no", "token", "social"}]
          /\ \A a \in Accounts : verified'[a] = "social" => verified[a] = "social"
        BY <1>3 DEF SetVerified, OInv, TypeOK
    <2> QED
        BY <1>3, <2>1, EndStep DEF SetVerified, Finish
<1>4. CASE SoftDelete(r)
    <2>1. /\ pc[r] = "delete" /\ RowFree(r, job[r].a)
          /\ pc' = [pc EXCEPT ![r] = "deleteCommit"] /\ UNCHANGED <<rows, job>>
          /\ wrote' = [wrote EXCEPT ![r] = @ \cup {"delete"}]
        BY <1>4 DEF SoftDelete, Move
    <2>2. Fits("deleteCommit", job[r]) /\ wrote[r] = {}
        BY <2>1, RequestFits, Unwritten DEF Fits, Steps, Writing
    <2> QED
        BY <2>1, <2>2, WriteStep DEF Writing
<1>5. CASE Retry(r)
    <2> DEFINE p == IF job[r].s = None THEN "register" ELSE "find"
               late == account[job[r].a] = "deleted"
               j == [job[r] EXCEPT !.late = late]
    <2>1. /\ pc[r] \in {"failed", "lost"} /\ pc' = [pc EXCEPT ![r] = p]
          /\ job' = [job EXCEPT ![r] = j] /\ UNCHANGED <<rows, wrote>>
        BY <1>5 DEF Retry, OInv, TypeOK
    <2>2. wrote' = [wrote EXCEPT ![r] = {}]
        BY <2>1, Unwritten DEF Writing
    <2>3. /\ j \in Job /\ j.a = job[r].a /\ j.s = job[r].s
          /\ j.late => account[job[r].a] = "deleted"
        <3>1. late \in BOOLEAN
            OBVIOUS
        <3>2. job[r] \in Job
            BY DEF OInv, TypeOK
        <3> HIDE DEF late
        <3>3. j \in Job /\ j.a = job[r].a /\ j.s = job[r].s /\ j.late = late
            BY <3>1, <3>2 DEF Job
        <3> QED
            BY <3>3 DEF late
    <2>4. /\ job[r].a \in Accounts /\ job[r].s \in Subjects \cup {None}
          /\ job[r].s # None => Asserts(job[r].a, job[r].s)
        BY <2>1, RequestFits DEF Fits, Job
    <2>5. \/ p = "register" /\ job[r].s = None
          \/ p = "find" /\ job[r].s # None
        OBVIOUS
    <2>6. verified' \in [Accounts -> {"no", "token", "social"}]
        BY <2>1 DEF OInv, TypeOK, rows
    <2> HIDE DEF p, j
    <2>7. Fits(p, j)
        BY <2>3, <2>4, <2>5 DEF Fits, Steps
    <2> QED
        BY <2>1, <2>2, <2>5, <2>6, <2>7, QuietStep DEF rows
<1>6. CASE Lose(r)
    BY <1>6, FailStep DEF Lose
<1> QED
    BY <1>1, <1>2, <1>3, <1>4, <1>5, <1>6

LEMMA NextOInv == OInv /\ [Next]_vars => OInv'
<1> SUFFICES ASSUME OInv, [Next]_vars PROVE OInv'
    OBVIOUS
<1>1. CASE Next
    BY <1>1, BeginStep, SocialStep, OtherStep, RegisterStep, DeleteCommitStep, SocialCommitStep
    DEF Next, Continue
<1>2. CASE UNCHANGED vars
    BY <1>2 DEF vars, rows, OInv, TypeOK, JobsFit, WritesFit, OneAccountPerIdentity, NoHalfLogon,
                LinkedElsewhere, InsertFree, RowFree, LinkFree, Asserts
<1> QED
    BY <1>1, <1>2

-----------------------------------------------------------------------------
(* Requests, the transactions they hold open and the rows they leave       *)
(* behind fit together, whatever crashes, aborts and retries happen.       *)
THEOREM OnboardingInvariant == Spec => []OInv
BY InitOInv, NextOInv, PTL DEF Spec

(* An identity of the provider belongs to one account at most, however     *)
(* many logons race to link it (SocialLoginRepository.Link).               *)
THEOREM IdentityUnique == Spec => []OneAccountPerIdentity
<1>1. OInv => OneAccountPerIdentity
    BY DEF OInv
<1> QED
    BY OnboardingInvariant, <1>1, PTL

(* No account is left created or verified by a social logon without its    *)
(* identity, wherever the logon breaks off (Authenticate of social.go).    *)
THEOREM LogonsWhole == Spec => []NoHalfLogon
<1>1. OInv => NoHalfLogon
    BY DEF OInv
<1> QED
    BY OnboardingInvariant, <1>1, PTL

(* A request that begins after a deletion changes nothing and gets no      *)
(* tokens, whatever it was told to do (readLive, Deleted in social.go).    *)
THEOREM DeletionFinal == Spec => DeletedIsFinal
<1> DEFINE Final == \A r \in Requests : job[r].late =>
                        /\ pc'[r] # pc[r] => UNCHANGED rows
                        /\ pc'[r] # "issue"
<1>1. ASSUME OInv, [Next]_vars PROVE [Final]_vars
    <2> SUFFICES ASSUME Next, NEW r \in Requests, job[r].late
                 PROVE  /\ pc'[r] # pc[r] => UNCHANGED rows
                        /\ pc'[r] # "issue"
        BY <1>1
    <2>1. /\ account[job[r].a] = "deleted"
          /\ pc[r] \in {"register", "find", "failed", "lost"}
        BY <1>1 DEF OInv, JobsFit
    <2>2. PICK q \in Requests : Begin(q) \/ Continue(q) \/ Lose(q) \/ Abort(q)
        BY DEF Next
    <2>3. CASE q # r
        <3>1. \E p \in Steps : pc' = [pc EXCEPT ![q] = p]
            BY <2>2 DEF Begin, Continue, Lose, Abort, Start, Move, Finish, Answer, Retry, Steps,
                RegisterBegin, VerifyRead, RenameRead, DeleteRead, SocialBegin, Register,
                UpdateName, RegisterDuplicate, SetVerified, SoftDelete, DeleteCommit, SocialFind,
                SocialDeleted, SocialCreate, SocialDuplicate, SocialVerify, Link, LinkConflict,
                SocialCommit, SocialIssue
        <3>2. pc'[r] = pc[r]
            BY <1>1, <2>3, <3>1 DEF OInv, TypeOK
        <3> QED
            BY <2>1, <3>2
    <2>4. CASE q = r
        <3>1. RegisterDuplicate(r) \/ SocialDeleted(r) \/ Retry(r) \/ Lose(r)
            BY <2>1, <2>2, <2>4 DEF Begin, Continue, Abort, Start, Move, Finish, RegisterBegin,
                VerifyRead, RenameRead, DeleteRead, SocialBegin, Register, UpdateName,
                SetVerified, SoftDelete, DeleteCommit, SocialFind, SocialCreate, SocialDuplicate,
                SocialVerify, Link, LinkConflict, SocialCommit, SocialIssue
        <3>2. \E p \in {"idle", "failed", "lost", "register", "find"} : pc' = [pc EXCEPT ![r] = p]
            BY <3>1 DEF RegisterDuplicate, SocialDeleted, Retry, Lose, Answer
        <3>3. UNCHANGED rows
            BY <3>1 DEF RegisterDuplicate, SocialDeleted, Retry, Lose, Answer
        <3> QED
            BY <1>1, <3>2, <3>3 DEF OInv, TypeOK
    <2> QED
        BY <2>3, <2>4
<1> QED
    BY OnboardingInvariant, <1>1, PTL DEF Spec, DeletedIsFinal
=============================================================================
