------------------------------ MODULE Gateway ------------------------------
(***************************************************************************)
(* Who may act on which tenant: the api key gate in front of the service   *)
(* (table api_keys), the client registry behind the OIDC endpoints (table  *)
(* oidc_clients and the configured client), and the requests that get past *)
(* either while keys and clients are minted, revoked and minted again.     *)
(*                                                                         *)
(* An action is one statement with the work up to the next one. The root   *)
(* key is compared in memory, so an operation of the administrator is one  *)
(* action. Minted keys and secrets are random: each is minted once, but    *)
(* two keys may share the prefix they are looked up by.                    *)
(***************************************************************************)
EXTENDS Naturals

CONSTANTS
    Tenants, Default,    \* the default tenant is one of them
    Empty,               \* the tenant of a request that names none
    Keys, Prefixes, Prefix, Names,
    ClientIds, Trim,     \* client ids as they are written, and without padding
    Configured, ConfiguredSecret,
    Secrets, Requests,
    Root,                \* the bootstrap key
    None

ASSUME TenantsAssumption == Default \in Tenants /\ Empty \notin Tenants

ASSUME KeysAssumption == Prefix \in [Keys -> Prefixes]

ASSUME ClientsAssumption ==
    /\ Trim \in [ClientIds -> ClientIds]
    /\ \A c \in ClientIds : Trim[Trim[c]] = Trim[c]
    /\ Configured \in ClientIds

ASSUME CredentialsAssumption ==
    /\ Keys \cap Secrets = {}
    /\ Root \notin Keys \cup Secrets
    /\ ConfiguredSecret \notin Keys \cup Secrets \cup {Root}

ASSUME NoneAssumption ==
    /\ None \notin Keys \cup Secrets \cup {Root, ConfiguredSecret}
    /\ None \notin Tenants \cup ClientIds \cup (Tenants \X ClientIds)
    /\ None \notin [tenant : Tenants \cup {Empty}, name : Names]

VARIABLES
    gated,     \* BOOTSTRAP_API_KEY is set
    apiKey,    \* api_keys: the tenant and name a key was stored with
    client,    \* oidc_clients: the secret of a (tenant, client id)
    minted,    \* what the administrator was told a credential is for
    gone,      \* credentials revoked or deleted
    pc, job    \* where each request stands, and its local variables

tables == <<gated, apiKey, client, minted, gone>>

vars == <<tables, pc, job>>

Asked == Tenants \cup {Empty}

Credentials == Keys \cup Secrets \cup {Root, ConfiguredSecret}

(* `late`: the credential was gone already when the request arrived.       *)
Job == [cred : Credentials \cup {None}, tenant : Asked, id : ClientIds \cup {None}, late : BOOLEAN]

NoJob == [cred |-> None, tenant |-> Empty, id |-> None, late |-> FALSE]

Services == {"accounts", "authenticate", "codes", "social"}

Past == Services \cup {"handler", "exchange"}

Steps == Past \cup {"idle", "gate", "resolve", "secret"}

TypeOK ==
    /\ gated \in BOOLEAN
    /\ apiKey \in [Keys -> [tenant : Asked, name : Names] \cup {None}]
    /\ client \in [Tenants \X ClientIds -> Secrets \cup {None}]
    /\ minted \in [Keys \cup Secrets -> Tenants \cup (Tenants \X ClientIds) \cup {None}]
    /\ gone \in SUBSET (Keys \cup Secrets)
    /\ pc \in [Requests -> Steps] /\ job \in [Requests -> Job]

Init ==
    /\ gated \in BOOLEAN
    /\ apiKey = [k \in Keys |-> None]
    /\ client = [c \in Tenants \X ClientIds |-> None]
    /\ minted = [c \in Keys \cup Secrets |-> None]
    /\ gone = {}
    /\ pc = [r \in Requests |-> "idle"] /\ job = [r \in Requests |-> NoJob]

-----------------------------------------------------------------------------
TenantOrDefault(asked) == IF asked = Empty THEN Default ELSE asked

(* The tenant a request with that tenant in its context operates on.       *)
EffectiveTenant(context, asked) == IF context # Empty THEN context ELSE TenantOrDefault(asked)

IsRoot(cred) == gated /\ cred = Root

(* The stored keys with a prefix: one at most, as prefix is UNIQUE.        *)
ReadByPrefix(p) == {k \in Keys : apiKey[k] # None /\ Prefix[k] = p}

(* The key found is the one presented: the hashes are equal.               *)
FoundByPrefix(k, found) == TRUE
SameHash(k, found) == found = k

(* Authenticate of the api key service: the tenants a key may stand for.   *)
KeyTenants(k) == {apiKey[f].tenant : f \in {f \in ReadByPrefix(Prefix[k]) : SameHash(k, f)}}

(* Client of the registries: the configured client comes first, for every  *)
(* tenant; None where there is no such client.                             *)
IsConfigured(c) == c = Configured
ReadClient(t, c) == client[<<t, c>>]
SecretOf(t, c) == IF IsConfigured(c) THEN ConfiguredSecret ELSE ReadClient(t, c)
SecretMatches(t, c, x) == SecretOf(t, c) = x

-----------------------------------------------------------------------------
(* The administrator: api keys and clients.                                *)

(* INSERT: prefix is UNIQUE, and so is (tenant_id, name).                  *)
InsertKey(k, row) ==
    /\ ReadByPrefix(Prefix[k]) = {}
    /\ \A q \in Keys : apiKey[q] # row
    /\ apiKey' = [apiKey EXCEPT ![k] = row]

(* The service makes a new random key for the tenant it is called with.    *)
MintKey(t, name, k) ==
    /\ minted[k] = None
    /\ InsertKey(k, [tenant |-> t, name |-> name])

CreateKeyAsked(cred, asked, name, k) ==
    /\ IsRoot(cred)
    /\ MintKey(asked, name, k)
    /\ minted' = [minted EXCEPT ![k] = TenantOrDefault(asked)]
    /\ UNCHANGED <<gated, client, gone, pc, job>>

CreateKey(cred, asked, name, k) ==
    /\ IsRoot(cred)
    /\ MintKey(EffectiveTenant(Empty, asked), name, k)
    /\ minted' = [minted EXCEPT ![k] = TenantOrDefault(asked)]
    /\ UNCHANGED <<gated, client, gone, pc, job>>

DeleteKey(t, k) ==
    /\ apiKey[k] # None
    /\ apiKey[k].tenant = t
    /\ apiKey' = [apiKey EXCEPT ![k] = None]

RevokeKey(cred, asked, k) ==
    /\ IsRoot(cred)
    /\ DeleteKey(EffectiveTenant(Empty, asked), k)
    /\ gone' = gone \cup {k}
    /\ UNCHANGED <<gated, client, minted, pc, job>>

(* validateClient returns the id to store.                                 *)
ValidClientRaw(raw, id) == id = Trim[raw] /\ raw # Configured
ValidClient(raw, id) == id = Trim[raw] /\ id # Configured

(* INSERT of a new random secret: (tenant_id, client_id) is the key.       *)
InsertClient(t, id, x) ==
    /\ minted[x] = None
    /\ client[<<t, id>>] = None
    /\ client' = [client EXCEPT ![<<t, id>>] = x]

CreateClient(cred, asked, raw, id, x) ==
    /\ IsRoot(cred)
    /\ ValidClient(raw, id)
    /\ InsertClient(EffectiveTenant(Empty, asked), id, x)
    /\ minted' = [minted EXCEPT ![x] = <<TenantOrDefault(asked), id>>]
    /\ UNCHANGED <<gated, apiKey, gone, pc, job>>

RemoveClient(t, id) ==
    /\ client[<<t, id>>] # None
    /\ client' = [client EXCEPT ![<<t, id>>] = None]

(* The id is used as it is written.                                        *)
DeleteClient(cred, asked, id) ==
    LET t == EffectiveTenant(Empty, asked) IN
    /\ IsRoot(cred)
    /\ RemoveClient(t, id)
    /\ gone' = gone \cup {client[<<t, id>>]}
    /\ UNCHANGED <<gated, apiKey, minted, pc, job>>

-----------------------------------------------------------------------------
Arrive(r, step, cred, t, c) ==
    /\ pc[r] = "idle"
    /\ cred \in Keys \cup Secrets => minted[cred] # None
    /\ pc' = [pc EXCEPT ![r] = step]
    /\ job' = [job EXCEPT ![r] = [cred |-> cred, tenant |-> t, id |-> c, late |-> cred \in gone]]
    /\ UNCHANGED tables

Move(r, from, to) ==
    /\ pc[r] = from
    /\ pc' = [pc EXCEPT ![r] = to]
    /\ UNCHANGED <<tables, job>>

Finish(r) ==
    /\ pc' = [pc EXCEPT ![r] = "idle"]
    /\ job' = [job EXCEPT ![r] = NoJob]
    /\ UNCHANGED tables

(* The api surface. Without a bootstrap key there is no gate and no root.  *)

ApiArrive(r, cred) ==
    /\ gated => cred # None
    /\ Arrive(r, IF gated /\ cred # Root THEN "gate" ELSE "handler", cred, Empty, None)

Middleware(r) ==
    /\ pc[r] = "gate"
    /\ \E t \in KeyTenants(job[r].cred) : job' = [job EXCEPT ![r].tenant = t]
    /\ pc' = [pc EXCEPT ![r] = "handler"]
    /\ UNCHANGED tables

Unauthorized(r) ==
    /\ pc[r] = "gate"
    /\ KeyTenants(job[r].cred) = {}
    /\ Finish(r)

(* A handler calls its service with the effective tenant.                  *)
Call(r, service, asked) ==
    /\ pc[r] = "handler"
    /\ pc' = [pc EXCEPT ![r] = service]
    /\ job' = [job EXCEPT ![r].tenant = EffectiveTenant(job[r].tenant, asked)]
    /\ UNCHANGED tables

AccountHandler(r, asked) == Call(r, "accounts", asked)
AuthenticateHandler(r, asked) == Call(r, "authenticate", asked)
LogonCodeHandler(r, asked) == Call(r, "codes", asked)
SocialHandler(r, asked) == Call(r, "social", asked)

(* The OIDC surface is not gated: the path names the tenant, and the       *)
(* client authenticates. The token endpoint reads the client and then      *)
(* checks its secret; introspection only checks.                           *)

ProviderArrive(r, step, t, c, x) ==
    /\ step \in {"resolve", "secret"}
    /\ Arrive(r, step, x, t, c)

GetClientByClientID(r) ==
    /\ Move(r, "resolve", "secret")
    /\ SecretOf(job[r].tenant, job[r].id) # None

AuthorizeClientIDSecret(r) ==
    /\ Move(r, "secret", "exchange")
    /\ SecretMatches(job[r].tenant, job[r].id, job[r].cred)

ClientRefused(r) ==
    /\ \/ pc[r] = "resolve" /\ SecretOf(job[r].tenant, job[r].id) = None
       \/ pc[r] = "secret" /\ ~ SecretMatches(job[r].tenant, job[r].id, job[r].cred)
    /\ Finish(r)

(* The service or the exchange has answered.                               *)
Answer(r) == pc[r] \in Services \cup {"exchange"} /\ Finish(r)

Admin(cred) ==
    \/ \E asked \in Asked, name \in Names, k \in Keys : CreateKey(cred, asked, name, k)
    \/ \E asked \in Asked, k \in Keys : RevokeKey(cred, asked, k)
    \/ \E asked \in Asked, raw, id \in ClientIds, x \in Secrets : CreateClient(cred, asked, raw, id, x)
    \/ \E asked \in Asked, id \in ClientIds : DeleteClient(cred, asked, id)

Begin(r) ==
    \/ \E cred \in Keys \cup {Root, None} : ApiArrive(r, cred)
    \/ \E step \in {"resolve", "secret"}, t \in Tenants, c \in ClientIds,
          x \in Secrets \cup {ConfiguredSecret} : ProviderArrive(r, step, t, c, x)

Continue(r) ==
    \/ Middleware(r) \/ Unauthorized(r)
    \/ \E asked \in Asked : \/ AccountHandler(r, asked) \/ AuthenticateHandler(r, asked)
                            \/ LogonCodeHandler(r, asked) \/ SocialHandler(r, asked)
    \/ GetClientByClientID(r) \/ AuthorizeClientIDSecret(r) \/ ClientRefused(r) \/ Answer(r)

Next ==
    \/ \E cred \in Keys \cup {Root, None} : Admin(cred)
    \/ \E r \in Requests : Begin(r) \/ Continue(r)

Spec == Init /\ [][Next]_vars

(* A request that has arrived is answered.                                 *)
FairSpec == Spec /\ \A r \in Requests : WF_vars(Continue(r))

-----------------------------------------------------------------------------
(* Whatever is minted, revoked and minted again while requests run, a      *)
(* request past the gate with a tenant's key works on the tenant the       *)
(* administrator minted it for, whatever tenant it asks for, and one past  *)
(* client authentication is of the tenant and the id its secret was handed *)
(* out for, or the configured client; neither with a credential that was   *)
(* gone when it arrived (Middleware, EffectiveTenant, the registries).     *)
CredentialsConfined ==
    \A r \in Requests :
        /\ pc[r] \in Past => ~ job[r].late
        /\ pc[r] \in Services /\ gated /\ job[r].cred # Root =>
               job[r].tenant = minted[job[r].cred]
        /\ pc[r] = "exchange" =>
               \/ job[r].id = Configured /\ job[r].cred = ConfiguredSecret
               \/ job[r].cred \in Secrets /\ minted[job[r].cred] = <<job[r].tenant, job[r].id>>

(* "handed a secret that never authenticates" (client_handlers.go:25) does *)
(* not happen: until it is revoked or deleted, a key stands for the tenant *)
(* it was minted for and a secret opens the client it was returned with,   *)
(* neither hidden by a key of the same prefix nor by the configured client.*)
HandedOutWorks ==
    /\ \A k \in Keys \ gone : minted[k] # None => KeyTenants(k) = {minted[k]}
    /\ \A x \in Secrets \ gone : minted[x] # None => SecretMatches(minted[x][1], minted[x][2], x)

(* What the tables hold is what was handed out and is not gone.            *)
RowsFit ==
    /\ \A k \in Keys :
           /\ minted[k] \in Tenants \cup {None}
           /\ apiKey[k] # None <=> minted[k] # None /\ k \notin gone
           /\ apiKey[k] # None => apiKey[k].tenant = minted[k]
    /\ \A k, q \in Keys :
           apiKey[k] # None /\ apiKey[q] # None /\ Prefix[k] = Prefix[q] => k = q
    /\ \A x \in Secrets :
           /\ minted[x] \in (Tenants \X ClientIds) \cup {None}
           /\ minted[x] # None /\ x \notin gone =>
                  client[minted[x]] = x /\ minted[x][2] # Configured
    /\ \A o \in Tenants \X ClientIds :
           client[o] # None => minted[client[o]] = o /\ client[o] \notin gone
    /\ \A c \in gone : gated /\ minted[c] # None

(* What a request has in hand fits where it stands.                        *)
RequestsFit ==
    \A r \in Requests :
        /\ job[r].cred \in Keys \cup Secrets => minted[job[r].cred] # None
        /\ job[r].late => job[r].cred \in gone
        /\ pc[r] = "gate" => gated /\ job[r].cred \in Keys /\ job[r].tenant = Empty
        /\ pc[r] \in Services \cup {"handler"} => job[r].cred \in Keys \cup {Root, None}
        /\ pc[r] = "handler" /\ gated => \/ job[r].cred = Root
                                         \/ job[r].tenant = minted[job[r].cred]
        /\ pc[r] \in Services \cup {"handler"} /\ gated => job[r].cred # None
        /\ pc[r] \in {"resolve", "secret", "exchange"} =>
               /\ job[r].tenant \in Tenants /\ job[r].id \in ClientIds
               /\ job[r].cred \in Secrets \cup {ConfiguredSecret}

(* The inductive invariant: types, tables and requests fit together.       *)
WInv == TypeOK /\ RowsFit /\ RequestsFit /\ CredentialsConfined /\ HandedOutWorks

(* A revoked key and the secret of a deleted client are out of use soon:   *)
(* requests under way with them end, and none gets past the gate again,    *)
(* although keys with the prefix and clients with the id may come back.    *)
RevocationDrains ==
    \A c \in Keys \cup Secrets :
        (c \in gone) ~> [](\A r \in Requests : pc[r] \in Past => job[r].cred # c)
=============================================================================
