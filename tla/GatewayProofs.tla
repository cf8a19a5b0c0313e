---------------------------- MODULE GatewayProofs ----------------------------
(***************************************************************************)
(* Proofs about Gateway: the inductive invariant WInv, and from it that    *)
(* requests are confined to what their credential was handed out for and   *)
(* that what was handed out works, for any number of tenants, keys,        *)
(* prefixes, clients and requests.                                         *)
(***************************************************************************)
EXTENDS Gateway, TLAPS

-----------------------------------------------------------------------------
(* What the tables hold is enough for every live credential to work.       *)
LEMMA RowsWork == TypeOK /\ RowsFit => HandedOutWorks
<1> SUFFICES ASSUME TypeOK, RowsFit PROVE HandedOutWorks
    OBVIOUS
<1>1. ASSUME NEW k \in Keys \ gone, minted[k] # None
      PROVE  KeyTenants(k) = {minted[k]}
    <2>1. apiKey[k] # None /\ apiKey[k].tenant = minted[k]
        BY <1>1 DEF RowsFit
    <2>2. ReadByPrefix(Prefix[k]) = {k}
        BY <2>1 DEF ReadByPrefix, RowsFit
    <2> QED
        BY <2>1, <2>2 DEF KeyTenants, SameHash
<1>2. ASSUME NEW x \in Secrets \ gone, minted[x] # None
      PROVE  SecretMatches(minted[x][1], minted[x][2], x)
    <2>1. minted[x] \in Tenants \X ClientIds /\ client[minted[x]] = x /\ minted[x][2] # Configured
        BY <1>2 DEF RowsFit
    <2>2. minted[x] = <<minted[x][1], minted[x][2]>>
        BY <2>1
    <2> QED
        BY <2>1, <2>2 DEF SecretMatches, SecretOf, IsConfigured, ReadClient
<1> QED
    BY <1>1, <1>2 DEF HandedOutWorks

(* The initial states satisfy WInv.                                        *)
LEMMA InitWInv == Init => WInv
<1> SUFFICES ASSUME Init PROVE WInv
    OBVIOUS
<1> USE DEF Init
<1>1. TypeOK
    BY DEF TypeOK, NoJob, Job, Steps, Past, Services, Asked, Credentials
<1>2. RowsFit
    BY DEF RowsFit
<1>3. RequestsFit
    BY NoneAssumption DEF RequestsFit, NoJob, Services
<1>4. CredentialsConfined
    BY DEF CredentialsConfined, Past, Services
<1> QED
    BY <1>1, <1>2, <1>3, <1>4, RowsWork DEF WInv

-----------------------------------------------------------------------------
(* What the administrator does leaves requests alone, and takes back       *)
(* nothing that was said or revoked.                                       *)
Grows ==
    /\ UNCHANGED <<gated, pc, job>>
    /\ gone \subseteq gone'
    /\ \A c \in Keys \cup Secrets : minted[c] # None => minted'[c] = minted[c]

LEMMA GrowsKeepsRequests ==
    ASSUME TypeOK, RequestsFit, CredentialsConfined, Grows
    PROVE  RequestsFit' /\ CredentialsConfined'
<1>1. RequestsFit'
    <2> SUFFICES ASSUME NEW r \in Requests
                 PROVE  /\ job[r].cred \in Keys \cup Secrets => minted'[job[r].cred] # None
                        /\ job[r].late => job[r].cred \in gone'
                        /\ pc[r] = "handler" /\ gated => \/ job[r].cred = Root
                                                         \/ job[r].tenant = minted'[job[r].cred]
        BY DEF RequestsFit, Grows
    <2> QED
        BY NoneAssumption DEF RequestsFit, Grows, Services
<1>2. CredentialsConfined'
    <2> SUFFICES ASSUME NEW r \in Requests
                 PROVE  /\ pc[r] \in Services /\ gated /\ job[r].cred # Root =>
                               job[r].tenant = minted'[job[r].cred]
                        /\ pc[r] = "exchange" =>
                               \/ job[r].id = Configured /\ job[r].cred = ConfiguredSecret
                               \/ /\ job[r].cred \in Secrets
                                  /\ minted'[job[r].cred] = <<job[r].tenant, job[r].id>>
        BY DEF CredentialsConfined, Grows
    <2>1. job[r].cred \in Keys \cup Secrets => minted'[job[r].cred] = minted[job[r].cred]
        BY DEF RequestsFit, Grows
    <2>2. pc[r] \in Services /\ gated /\ job[r].cred # Root => job[r].cred \in Keys
        BY DEF RequestsFit
    <2> QED
        BY <2>1, <2>2 DEF CredentialsConfined
<1> QED
    BY <1>1, <1>2

LEMMA TenantChosen ==
    ASSUME NEW asked \in Asked
    PROVE  /\ TenantOrDefault(asked) \in Tenants
           /\ EffectiveTenant(Empty, asked) = TenantOrDefault(asked)
BY TenantsAssumption DEF Asked, TenantOrDefault, EffectiveTenant

LEMMA CreateKeyStep ==
    ASSUME WInv, NEW cred, NEW asked \in Asked, NEW name \in Names, NEW k \in Keys,
           CreateKey(cred, asked, name, k)
    PROVE  TypeOK' /\ RowsFit' /\ Grows
<1> DEFINE t == TenantOrDefault(asked)
           row == [tenant |-> t, name |-> name]
<1> USE DEF WInv
<1>1. t \in Tenants /\ t # None
    BY TenantChosen, NoneAssumption
<1>2. row # None
    BY <1>1, NoneAssumption DEF Asked
<1>3. /\ minted[k] = None /\ apiKey[k] = None /\ k \notin gone
      /\ apiKey' = [apiKey EXCEPT ![k] = row]
      /\ minted' = [minted EXCEPT ![k] = t]
      /\ ReadByPrefix(Prefix[k]) = {}
      /\ UNCHANGED <<gated, client, gone, pc, job>>
    BY TenantChosen DEF CreateKey, MintKey, InsertKey, RowsFit
<1> HIDE DEF t, row
<1>4. TypeOK'
    BY <1>1, <1>3 DEF TypeOK, Asked, row
<1>5. RowsFit'
    <2>1. \A q \in Keys :
              /\ minted'[q] \in Tenants \cup {None}
              /\ apiKey'[q] # None <=> minted'[q] # None /\ q \notin gone'
              /\ apiKey'[q] # None => apiKey'[q].tenant = minted'[q]
        BY <1>1, <1>2, <1>3 DEF TypeOK, RowsFit, row
    <2>2. \A q, p \in Keys :
              apiKey'[q] # None /\ apiKey'[p] # None /\ Prefix[q] = Prefix[p] => q = p
        <3>1. \A q \in Keys \ {k} : apiKey[q] # None => Prefix[q] # Prefix[k]
            BY <1>3 DEF ReadByPrefix
        <3> QED
            BY <1>3, <3>1 DEF TypeOK, RowsFit
    <2>3. \A x \in Secrets : minted'[x] = minted[x]
        BY <1>3, CredentialsAssumption DEF TypeOK
    <2>4. \A o \in Tenants \X ClientIds : client[o] # None => client[o] \in Secrets
        BY DEF TypeOK
    <2>5. \A c \in gone : gated /\ minted'[c] # None
        BY <1>3 DEF TypeOK, RowsFit
    <2> QED
        BY <1>3, <2>1, <2>2, <2>3, <2>4, <2>5 DEF RowsFit
<1>6. Grows
    BY <1>3 DEF Grows, TypeOK
<1> QED
    BY <1>4, <1>5, <1>6

LEMMA RevokeKeyStep ==
    ASSUME WInv, NEW cred, NEW asked \in Asked, NEW k \in Keys, RevokeKey(cred, asked, k)
    PROVE  TypeOK' /\ RowsFit' /\ Grows
<1> USE DEF WInv
<1>1. /\ gated /\ apiKey[k] # None
      /\ apiKey' = [apiKey EXCEPT ![k] = None] /\ gone' = gone \cup {k}
      /\ UNCHANGED <<gated, client, minted, pc, job>>
    BY DEF RevokeKey, DeleteKey, IsRoot
<1>2. TypeOK'
    BY <1>1 DEF TypeOK
<1>3. RowsFit'
    <2>1. \A q \in Keys :
              /\ minted[q] \in Tenants \cup {None}
              /\ apiKey'[q] # None <=> minted[q] # None /\ q \notin gone'
              /\ apiKey'[q] # None => apiKey'[q].tenant = minted[q]
        BY <1>1 DEF TypeOK, RowsFit
    <2>2. \A q, p \in Keys :
              apiKey'[q] # None /\ apiKey'[p] # None /\ Prefix[q] = Prefix[p] => q = p
        BY <1>1 DEF TypeOK, RowsFit
    <2>3. \A x \in Secrets : x \in gone' <=> x \in gone
        BY <1>1, CredentialsAssumption
    <2>4. \A o \in Tenants \X ClientIds : client[o] # None => client[o] \in Secrets
        BY DEF TypeOK
    <2>5. \A c \in gone' : gated /\ minted[c] # None
        BY <1>1 DEF RowsFit
    <2> QED
        BY <1>1, <2>1, <2>2, <2>3, <2>4, <2>5 DEF RowsFit
<1>4. Grows
    BY <1>1 DEF Grows
<1> QED
    BY <1>2, <1>3, <1>4

LEMMA CreateClientStep ==
    ASSUME WInv, NEW cred, NEW asked \in Asked, NEW raw \in ClientIds, NEW id \in ClientIds,
           NEW x \in Secrets, CreateClient(cred, asked, raw, id, x)
    PROVE  TypeOK' /\ RowsFit' /\ Grows
<1> DEFINE o == <<TenantOrDefault(asked), id>>
<1> USE DEF WInv
<1>1. o \in Tenants \X ClientIds /\ o # None /\ o[2] = id /\ id # Configured
    BY TenantChosen, NoneAssumption DEF CreateClient, ValidClient
<1>2. /\ minted[x] = None /\ client[o] = None
      /\ client' = [client EXCEPT ![o] = x] /\ minted' = [minted EXCEPT ![x] = o]
      /\ UNCHANGED <<gated, apiKey, gone, pc, job>>
    BY TenantChosen DEF CreateClient, InsertClient
<1> HIDE DEF o
<1>3. x \notin gone
    BY <1>2 DEF RowsFit
<1>4. TypeOK'
    BY <1>1, <1>2 DEF TypeOK
<1>5. RowsFit'
    <2>1. \A k \in Keys : minted'[k] = minted[k]
        BY <1>2, CredentialsAssumption DEF TypeOK
    <2>2. \A y \in Secrets :
              /\ minted'[y] \in (Tenants \X ClientIds) \cup {None}
              /\ minted'[y] # None /\ y \notin gone =>
                     client'[minted'[y]] = y /\ minted'[y][2] # Configured
        <3>1. ASSUME NEW y \in Secrets, y # x, minted[y] # None, y \notin gone
              PROVE  client'[minted[y]] = y
            <4>1. client[minted[y]] = y /\ minted[y] \in Tenants \X ClientIds
                BY <3>1 DEF RowsFit
            <4>2. minted[y] # o
                BY <4>1, <1>2, <3>1, NoneAssumption
            <4> QED
                BY <4>1, <4>2, <1>2 DEF TypeOK
        <3>2. \A y \in Secrets \ {x} : minted'[y] = minted[y]
            BY <1>2 DEF TypeOK
        <3>3. minted'[x] = o /\ client'[o] = x
            BY <1>1, <1>2 DEF TypeOK
        <3> QED
            BY <1>1, <3>1, <3>2, <3>3 DEF RowsFit
    <2>3. \A p \in Tenants \X ClientIds :
              client'[p] # None => minted'[client'[p]] = p /\ client'[p] \notin gone
        <3>1. ASSUME NEW p \in Tenants \X ClientIds, p # o, client'[p] # None
              PROVE  minted'[client'[p]] = p /\ client'[p] \notin gone
            <4>1. client'[p] = client[p] /\ client[p] \in Secrets
                BY <3>1, <1>1, <1>2 DEF TypeOK
            <4>2. minted[client[p]] = p /\ client[p] \notin gone /\ p # None
                BY <3>1, <4>1, NoneAssumption DEF RowsFit
            <4>3. client[p] # x
                BY <4>2, <1>2
            <4> QED
                BY <4>1, <4>2, <4>3, <1>2 DEF TypeOK
        <3>2. minted'[client'[o]] = o /\ client'[o] \notin gone
            BY <1>1, <1>2, <1>3 DEF TypeOK
        <3> QED
            BY <3>1, <3>2
    <2>4. \A c \in gone : gated /\ minted'[c] # None
        BY <1>1, <1>2 DEF TypeOK, RowsFit
    <2> QED
        BY <1>2, <2>1, <2>2, <2>3, <2>4 DEF RowsFit
<1>6. Grows
    BY <1>2 DEF Grows, TypeOK
<1> QED
    BY <1>4, <1>5, <1>6

LEMMA DeleteClientStep ==
    ASSUME WInv, NEW cred, NEW asked \in Asked, NEW id \in ClientIds, DeleteClient(cred, asked, id)
    PROVE  TypeOK' /\ RowsFit' /\ Grows
<1> DEFINE o == <<TenantOrDefault(asked), id>>
           x == client[o]
<1> USE DEF WInv
<1>1. o \in Tenants \X ClientIds
    BY TenantChosen
<1>2. /\ gated /\ x # None
      /\ client' = [client EXCEPT ![o] = None] /\ gone' = gone \cup {x}
      /\ UNCHANGED <<gated, apiKey, minted, pc, job>>
    BY TenantChosen DEF DeleteClient, RemoveClient, IsRoot
<1> HIDE DEF o
<1>3. x \in Secrets /\ minted[x] = o /\ x \notin gone
    BY <1>1, <1>2 DEF TypeOK, RowsFit
<1>4. TypeOK'
    BY <1>1, <1>2, <1>3 DEF TypeOK
<1>5. RowsFit'
    <2>1. \A k \in Keys : k \in gone' <=> k \in gone
        BY <1>2, <1>3, CredentialsAssumption
    <2>2. \A y \in Secrets :
              minted[y] # None /\ y \notin gone' =>
                  client'[minted[y]] = y /\ minted[y][2] # Configured
        <3> SUFFICES ASSUME NEW y \in Secrets, minted[y] # None, y \notin gone'
                     PROVE  client'[minted[y]] = y /\ minted[y][2] # Configured
            OBVIOUS
        <3>1. /\ client[minted[y]] = y /\ minted[y][2] # Configured
              /\ minted[y] \in Tenants \X ClientIds
            BY <1>2 DEF RowsFit
        <3>2. minted[y] # o
            BY <3>1, <1>2
        <3> QED
            BY <3>1, <3>2, <1>2 DEF TypeOK
    <2>3. \A p \in Tenants \X ClientIds :
              client'[p] # None => minted[client'[p]] = p /\ client'[p] \notin gone'
        <3> SUFFICES ASSUME NEW p \in Tenants \X ClientIds, client'[p] # None
                     PROVE  minted[client'[p]] = p /\ client'[p] \notin gone'
            OBVIOUS
        <3>1. p # o /\ client'[p] = client[p]
            BY <1>1, <1>2 DEF TypeOK
        <3>2. minted[client[p]] = p /\ client[p] \notin gone
            BY <3>1 DEF RowsFit
        <3> QED
            BY <3>1, <3>2, <1>2, <1>3
    <2>4. \A c \in gone' : gated /\ minted[c] # None
        BY <1>1, <1>2, <1>3, NoneAssumption DEF RowsFit
    <2> QED
        BY <1>2, <2>1, <2>2, <2>3, <2>4 DEF RowsFit
<1>6. Grows
    BY <1>2 DEF Grows
<1> QED
    BY <1>4, <1>5, <1>6

LEMMA AdminStep ==
    ASSUME WInv, NEW cred, Admin(cred)
    PROVE  WInv'
<1>1. TypeOK' /\ RowsFit' /\ Grows
    BY CreateKeyStep, RevokeKeyStep, CreateClientStep, DeleteClientStep DEF Admin
<1>2. RequestsFit' /\ CredentialsConfined'
    BY <1>1, GrowsKeepsRequests DEF WInv
<1>3. (TypeOK /\ RowsFit => HandedOutWorks)'
    BY RowsWork, PTL
<1> QED
    BY <1>1, <1>2, <1>3 DEF WInv

-----------------------------------------------------------------------------
(* What WInv says of a request that stands at step p with j in hand.       *)
Fits(p, j) ==
    /\ p \in Steps /\ j \in Job
    /\ j.cred \in Keys \cup Secrets => minted[j.cred] # None
    /\ j.late => j.cred \in gone
    /\ p = "gate" => gated /\ j.cred \in Keys /\ j.tenant = Empty
    /\ p \in Services \cup {"handler"} => j.cred \in Keys \cup {Root, None}
    /\ p = "handler" /\ gated => j.cred = Root \/ j.tenant = minted[j.cred]
    /\ p \in Services \cup {"handler"} /\ gated => j.cred # None
    /\ p \in {"resolve", "secret", "exchange"} =>
           /\ j.tenant \in Tenants /\ j.id \in ClientIds
           /\ j.cred \in Secrets \cup {ConfiguredSecret}
    /\ p \in Past => ~ j.late
    /\ p \in Services /\ gated /\ j.cred # Root => j.tenant = minted[j.cred]
    /\ p = "exchange" => \/ j.id = Configured /\ j.cred = ConfiguredSecret
                         \/ j.cred \in Secrets /\ minted[j.cred] = <<j.tenant, j.id>>

LEMMA RequestFits ==
    ASSUME WInv, NEW r \in Requests
    PROVE  Fits(pc[r], job[r])
BY DEF WInv, TypeOK, RequestsFit, CredentialsConfined, Fits

(* A step of a request leaves the tables and the other requests alone.     *)
LEMMA RequestStep ==
    ASSUME WInv, NEW r \in Requests, NEW p, NEW j, Fits(p, j), UNCHANGED tables,
           pc' = [pc EXCEPT ![r] = p], job' = [job EXCEPT ![r] = j]
    PROVE  WInv'
<1>1. TypeOK'
    BY DEF WInv, TypeOK, Fits, tables
<1>2. \A q \in Requests : Fits(pc'[q], job'[q])
    BY RequestFits DEF WInv, TypeOK
<1>3. RequestsFit'
    BY <1>2 DEF RequestsFit, Fits, tables
<1>4. CredentialsConfined'
    BY <1>2 DEF CredentialsConfined, Fits, tables
<1>5. RowsFit' /\ HandedOutWorks'
    BY DEF WInv, tables, RowsFit, HandedOutWorks, KeyTenants, ReadByPrefix, SameHash,
           SecretMatches, SecretOf, IsConfigured, ReadClient
<1> QED
    BY <1>1, <1>3, <1>4, <1>5 DEF WInv

LEMMA IdleFits == Fits("idle", NoJob)
BY NoneAssumption DEF Fits, Steps, Past, Services, Job, NoJob, Asked

LEMMA FinishStep ==
    ASSUME WInv, NEW r \in Requests, Finish(r)
    PROVE  WInv'
BY IdleFits, RequestStep DEF Finish

(* Requests arrive.                                                        *)
LEMMA BeginStep ==
    ASSUME WInv, NEW r \in Requests, Begin(r)
    PROVE  WInv'
<1>1. ASSUME NEW cred \in Keys \cup {Root, None}, ApiArrive(r, cred)
      PROVE  WInv'
    <2> DEFINE p == IF gated /\ cred # Root THEN "gate" ELSE "handler"
               j == [cred |-> cred, tenant |-> Empty, id |-> None, late |-> cred \in gone]
    <2>1. /\ cred \in Keys => minted[cred] # None
          /\ gated => cred # None
          /\ pc' = [pc EXCEPT ![r] = p] /\ job' = [job EXCEPT ![r] = j] /\ UNCHANGED tables
        BY <1>1 DEF ApiArrive, Arrive
    <2>2. cred \in gone => gated
        BY DEF WInv, RowsFit
    <2>3. j \in Job /\ p \in Steps
        BY DEF Job, Credentials, Asked, Steps, Past
    <2>4. cred \notin Secrets /\ Root \notin gone /\ None \notin gone
        BY NoneAssumption, CredentialsAssumption DEF WInv, TypeOK
    <2>5. p = "gate" \/ p = "handler"
        OBVIOUS
    <2>6. Fits(p, j)
        BY <2>1, <2>2, <2>3, <2>4, <2>5 DEF Fits, Services, Past
    <2> QED
        BY <2>1, <2>6, RequestStep
<1>2. ASSUME NEW step \in {"resolve", "secret"}, NEW t \in Tenants, NEW c \in ClientIds,
             NEW x \in Secrets \cup {ConfiguredSecret}, ProviderArrive(r, step, t, c, x)
      PROVE  WInv'
    <2> DEFINE j == [cred |-> x, tenant |-> t, id |-> c, late |-> x \in gone]
    <2>1. /\ x \in Keys \cup Secrets => minted[x] # None
          /\ pc' = [pc EXCEPT ![r] = step] /\ job' = [job EXCEPT ![r] = j] /\ UNCHANGED tables
        BY <1>2 DEF ProviderArrive, Arrive
    <2>2. j \in Job /\ step \in Steps
        BY DEF Job, Credentials, Asked, Steps
    <2>3. Fits(step, j)
        BY <2>1, <2>2 DEF Fits, Services, Past
    <2> QED
        BY <2>1, <2>3, RequestStep
<1> QED
    BY <1>1, <1>2 DEF Begin

(* Requests go on.                                                         *)
LEMMA ContinueStep ==
    ASSUME WInv, NEW r \in Requests, Continue(r)
    PROVE  WInv'
<1>f. Fits(pc[r], job[r])
    BY RequestFits
<1>1. CASE Middleware(r)
    <2>1. PICK t \in KeyTenants(job[r].cred) : job' = [job EXCEPT ![r].tenant = t]
        BY <1>1 DEF Middleware
    <2> DEFINE j == [job[r] EXCEPT !.tenant = t]
    <2>2. job[r].cred \in Keys /\ apiKey[job[r].cred] # None /\ apiKey[job[r].cred].tenant = t
        BY <1>1, <1>f, <2>1 DEF Middleware, Fits, KeyTenants, ReadByPrefix, SameHash
    <2>3. minted[job[r].cred] = t /\ t \in Tenants /\ job[r].cred \notin gone
        BY <2>2, NoneAssumption DEF WInv, RowsFit
    <2>4. /\ pc' = [pc EXCEPT ![r] = "handler"] /\ job' = [job EXCEPT ![r] = j]
          /\ UNCHANGED tables
        BY <1>1, <2>1 DEF Middleware, WInv, TypeOK
    <2>5. /\ j \in Job /\ j.cred = job[r].cred /\ j.tenant = t /\ j.late = job[r].late
        BY <1>f, <2>3 DEF Fits, Job, Asked
    <2>6. Fits("handler", j)
        BY <1>f, <2>2, <2>3, <2>5, NoneAssumption DEF Fits, Steps, Services, Past
    <2> QED
        BY <2>4, <2>6, RequestStep
<1>2. ASSUME NEW service \in Services, NEW asked \in Asked, Call(r, service, asked)
      PROVE  WInv'
    <2> DEFINE t == EffectiveTenant(job[r].tenant, asked)
               j == [job[r] EXCEPT !.tenant = t]
    <2>1. job[r].tenant \in Asked
        BY <1>f DEF Fits, Job
    <2>2. t \in Tenants
        BY <2>1, TenantsAssumption DEF Asked, EffectiveTenant, TenantOrDefault
    <2>3. gated /\ job[r].cred # Root => t = minted[job[r].cred]
        <3> SUFFICES ASSUME gated, job[r].cred # Root PROVE t = minted[job[r].cred]
            OBVIOUS
        <3>1. job[r].cred \in Keys /\ job[r].tenant = minted[job[r].cred]
            BY <1>2, <1>f DEF Call, Fits
        <3>2. minted[job[r].cred] \in Tenants
            BY <3>1, <1>f DEF WInv, RowsFit, Fits
        <3> QED
            BY <3>1, <3>2, TenantsAssumption DEF EffectiveTenant
    <2>4. pc' = [pc EXCEPT ![r] = service] /\ job' = [job EXCEPT ![r] = j] /\ UNCHANGED tables
        BY <1>2 DEF Call, WInv, TypeOK
    <2> HIDE DEF t
    <2>5. /\ j \in Job /\ j.cred = job[r].cred /\ j.tenant = t /\ j.late = job[r].late
        BY <1>f, <2>2 DEF Fits, Job, Asked
    <2>6. Fits(service, j)
        BY <1>2, <1>f, <2>3, <2>5 DEF Call, Fits, Steps, Services, Past
    <2> QED
        BY <2>4, <2>6, RequestStep
<1>3. CASE GetClientByClientID(r)
    <2>1. Fits("secret", job[r])
        BY <1>3, <1>f DEF GetClientByClientID, Move, Fits, Steps, Services, Past
    <2>2. pc' = [pc EXCEPT ![r] = "secret"] /\ job' = [job EXCEPT ![r] = job[r]] /\ UNCHANGED tables
        BY <1>3 DEF GetClientByClientID, Move, WInv, TypeOK
    <2> QED
        BY <2>1, <2>2, RequestStep
<1>4. CASE AuthorizeClientIDSecret(r)
    <2>1. /\ pc[r] = "secret" /\ SecretMatches(job[r].tenant, job[r].id, job[r].cred)
          /\ job[r].tenant \in Tenants /\ job[r].id \in ClientIds
          /\ job[r].cred \in Secrets \cup {ConfiguredSecret}
        BY <1>4, <1>f DEF AuthorizeClientIDSecret, Move, Fits
    <2>2. ASSUME job[r].id = Configured PROVE Fits("exchange", job[r])
        <3>1. job[r].cred = ConfiguredSecret
            BY <2>1, <2>2 DEF SecretMatches, SecretOf, IsConfigured
        <3>2. ~ job[r].late
            BY <1>f, <3>1, CredentialsAssumption DEF Fits, WInv, TypeOK
        <3> QED
            BY <1>f, <2>1, <2>2, <3>1, <3>2 DEF Fits, Steps, Services, Past
    <2>3. ASSUME job[r].id # Configured PROVE Fits("exchange", job[r])
        <3> DEFINE o == <<job[r].tenant, job[r].id>>
        <3>1. client[o] = job[r].cred /\ o \in Tenants \X ClientIds
            BY <2>1, <2>3 DEF SecretMatches, SecretOf, IsConfigured, ReadClient
        <3>2. job[r].cred \in Secrets /\ minted[job[r].cred] = o /\ job[r].cred \notin gone
            BY <2>1, <3>1, NoneAssumption, CredentialsAssumption DEF WInv, TypeOK, RowsFit
        <3> QED
            BY <1>f, <2>1, <3>2 DEF Fits, Steps, Services, Past
    <2>4. Fits("exchange", job[r])
        BY <2>2, <2>3
    <2>5. /\ pc' = [pc EXCEPT ![r] = "exchange"] /\ job' = [job EXCEPT ![r] = job[r]]
          /\ UNCHANGED tables
        BY <1>4 DEF AuthorizeClientIDSecret, Move, WInv, TypeOK
    <2> QED
        BY <2>4, <2>5, RequestStep
<1>5. CASE Unauthorized(r) \/ ClientRefused(r) \/ Answer(r)
    BY <1>5, FinishStep DEF Unauthorized, ClientRefused, Answer
<1> QED
    BY <1>1, <1>2, <1>3, <1>4, <1>5
    DEF Continue, AccountHandler, AuthenticateHandler, LogonCodeHandler, SocialHandler, Services

LEMMA NextWInv == WInv /\ [Next]_vars => WInv'
<1> SUFFICES ASSUME WInv, [Next]_vars PROVE WInv'
    OBVIOUS
<1>1. CASE Next
    BY <1>1, AdminStep, BeginStep, ContinueStep DEF Next
<1>2. CASE UNCHANGED vars
    BY <1>2 DEF vars, tables, WInv, TypeOK, RowsFit, RequestsFit, CredentialsConfined,
                HandedOutWorks, KeyTenants, ReadByPrefix, SameHash, SecretMatches, SecretOf,
                IsConfigured, ReadClient
<1> QED
    BY <1>1, <1>2

-----------------------------------------------------------------------------
(* The tables hold exactly the credentials that were handed out and are    *)
(* not gone, and what requests have in hand fits, however the              *)
(* administrator and requests interleave.                                  *)
THEOREM GatewayInvariant == Spec => []WInv
<1>1. WInv /\ [Next]_vars => WInv'
    BY NextWInv
<1> QED
    BY InitWInv, <1>1, PTL DEF Spec

(* A request past the gate or past client authentication works on what its *)
(* credential was handed out for, and its credential was live when it      *)
(* arrived (Middleware, EffectiveTenant, RegistryClientRegistry).          *)
THEOREM Confined == Spec => []CredentialsConfined
<1>1. WInv => CredentialsConfined
    BY DEF WInv
<1> QED
    BY GatewayInvariant, <1>1, PTL

(* A key or client secret handed out works until it is revoked or deleted: *)
(* no key of the same prefix and no configured client hides it             *)
(* (ApiKeyRepository.Create, validateClient).                              *)
THEOREM HandedOut == Spec => []HandedOutWorks
<1>1. WInv => HandedOutWorks
    BY DEF WInv
<1> QED
    BY GatewayInvariant, <1>1, PTL
=============================================================================
