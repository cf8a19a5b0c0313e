------------------------------ MODULE Replicas ------------------------------
(***************************************************************************)
(* The life of the processes of one deployment that share a database: each *)
(* migrates the schema, makes sure of the default tenant and of a first    *)
(* signing key, loads the keys into the caches of the tokenizer and of the *)
(* OIDC provider, and serves; the janitor reloads the caches; a process    *)
(* may die at any step and be started again.                               *)
(*                                                                         *)
(* A signing key is named by its created column: the instant its INSERT    *)
(* began, which need not be the order the rows become visible in.          *)
(***************************************************************************)
EXTENDS Naturals, FiniteSets

CONSTANTS
    Replica,      \* the processes
    Operator,     \* whoever rotates the key, by an INSERT of a newer one
    Migrations,   \* how many migrations the binary embeds
    MaxKeys,      \* bound: the operator rotates while fewer INSERTs have begun
    MaxTokens,    \* bound: tokens signed with different keys or by different caches
    MaxFaults     \* bound: deaths of a process and failed reloads

ASSUME ActorsAssumption == Operator \notin Replica
ASSUME BoundsAssumption ==
    /\ Migrations \in Nat /\ MaxKeys \in Nat
    /\ MaxTokens \in Nat /\ MaxFaults \in Nat

VARIABLES
    pc,           \* where each process stands in main
    lock,         \* who holds the advisory lock of the migrations
    pos,          \* the migration each process has come to
    ledger,       \* the versions in schema_migrations
    effects,      \* how often the SQL of each migration has been committed
    tenant,       \* the row of the default tenant exists
    clock,        \* the created of the newest INSERT that has begun
    pending,      \* the key each actor is inserting, 0 for none
    keys,         \* signing_keys
    load,         \* the cache ReloadKeys of each process is at work on
    snap,         \* the keys it has read, {} before the read
    signingKid,   \* the key each cache signs with, 0 before the first load
    publicKeys,   \* the keys each cache verifies with
    signed,       \* the tokens ever signed: by which process, cache and key
    faults        \* deaths and failed reloads so far

schema == <<lock, pos, ledger, effects, tenant>>
store  == <<clock, pending, keys>>
caches == <<signingKid, publicKeys>>
vars   == <<pc, schema, store, load, snap, caches, signed, faults>>

Cache   == {"tokenizer", "provider"}
Actor   == Replica \union {Operator}
Version == 1 .. Migrations
Nobody  == Operator     \* the operator never migrates

TypeOK ==
    /\ pc \in [Replica -> {"down", "lock", "check", "apply", "tenantCheck",
                           "tenantCreate", "keyCheck", "keyCreate",
                           "keyInsert", "boot", "serve"}]
    /\ lock \in Actor
    /\ pos \in [Replica -> 1 .. Migrations + 1]
    /\ ledger \subseteq Version
    /\ effects \in [Version -> Nat]
    /\ tenant \in BOOLEAN
    /\ clock \in Nat
    /\ pending \in [Actor -> 0 .. clock]
    /\ keys \subseteq 1 .. clock
    /\ load \in [Replica -> Cache \union {"idle"}]
    /\ snap \in [Replica -> SUBSET (1 .. clock)]
    /\ signingKid \in [Replica -> [Cache -> 0 .. clock]]
    /\ publicKeys \in [Replica -> [Cache -> SUBSET (1 .. clock)]]
    /\ signed \subseteq [by : Replica, cache : Cache, kid : 1 .. clock]
    /\ faults \in Nat

Init ==
    /\ pc = [r \in Replica |-> "down"]
    /\ lock = Nobody
    /\ pos = [r \in Replica |-> 1]
    /\ ledger = {}
    /\ effects = [v \in Version |-> 0]
    /\ tenant = FALSE
    /\ clock = 0
    /\ pending = [a \in Actor |-> 0]
    /\ keys = {}
    /\ load = [r \in Replica |-> "idle"]
    /\ snap = [r \in Replica |-> {}]
    /\ signingKid = [r \in Replica |-> [c \in Cache |-> 0]]
    /\ publicKeys = [r \in Replica |-> [c \in Cache |-> {}]]
    /\ signed = {}
    /\ faults = 0

Move(r, from, to) ==
    /\ pc[r] = from
    /\ pc' = [pc EXCEPT ![r] = to]

(* The end of a process, by panic or from outside: its connections close,  *)
(* which gives the advisory lock back and rolls back what was not          *)
(* committed, and its memory is gone.                                      *)
Die(r) ==
    /\ pc' = [pc EXCEPT ![r] = "down"]
    /\ lock' = IF lock = r THEN Nobody ELSE lock
    /\ pending' = [pending EXCEPT ![r] = 0]
    /\ load' = [load EXCEPT ![r] = "idle"]
    /\ snap' = [snap EXCEPT ![r] = {}]
    /\ signingKid' = [signingKid EXCEPT ![r] = [c \in Cache |-> 0]]
    /\ publicKeys' = [publicKeys EXCEPT ![r] = [c \in Cache |-> {}]]
    /\ UNCHANGED <<pos, ledger, effects, tenant, clock, keys, signed>>

(* Connect. *)
Start(r) ==
    /\ Move(r, "down", "lock")
    /\ UNCHANGED <<schema, store, load, snap, caches, signed, faults>>

-----------------------------------------------------------------------------
(* Migrate. *)

AcquireUnlocked(r) ==
    /\ Move(r, "lock", "check")
    /\ pos' = [pos EXCEPT ![r] = 1]
    /\ UNCHANGED <<lock, ledger, effects, tenant, store, load, snap, caches,
                   signed, faults>>

(* pg_advisory_lock. *)
Acquire(r) ==
    /\ lock = Nobody
    /\ Move(r, "lock", "check")
    /\ lock' = r
    /\ pos' = [pos EXCEPT ![r] = 1]
    /\ UNCHANGED <<ledger, effects, tenant, store, load, snap, caches, signed,
                   faults>>

(* SELECT EXISTS of the next version: skip it or apply it. *)
MigrateCheck(r) ==
    /\ pc[r] = "check"
    /\ pos[r] \in Version
    /\ IF pos[r] \in ledger
       THEN /\ pos' = [pos EXCEPT ![r] = @ + 1]
            /\ UNCHANGED pc
       ELSE /\ pc' = [pc EXCEPT ![r] = "apply"]
            /\ UNCHANGED pos
    /\ UNCHANGED <<lock, ledger, effects, tenant, store, load, snap, caches,
                   signed, faults>>

MigrateCommitUnrecorded(r) ==
    /\ Move(r, "apply", "check")
    /\ pos' = [pos EXCEPT ![r] = @ + 1]
    /\ effects' = [effects EXCEPT ![pos[r]] = @ + 1]
    /\ UNCHANGED <<lock, ledger, tenant, store, load, snap, caches, signed,
                   faults>>

(* The migration and its record, in one transaction: a version recorded in *)
(* the meantime makes it fail, and Migrate with it.                        *)
MigrateCommit(r) ==
    /\ pc[r] = "apply"
    /\ IF pos[r] \in ledger
       THEN Die(r)
       ELSE /\ pc' = [pc EXCEPT ![r] = "check"]
            /\ pos' = [pos EXCEPT ![r] = @ + 1]
            /\ ledger' = ledger \union {pos[r]}
            /\ effects' = [effects EXCEPT ![pos[r]] = @ + 1]
            /\ UNCHANGED <<lock, tenant, store, load, snap, caches, signed>>
    /\ UNCHANGED faults

MigrateDoneKeepsLock(r) ==
    /\ pos[r] = Migrations + 1
    /\ Move(r, "check", "tenantCheck")
    /\ UNCHANGED <<schema, store, load, snap, caches, signed, faults>>

(* The deferred pg_advisory_unlock. *)
MigrateDone(r) ==
    /\ pos[r] = Migrations + 1
    /\ Move(r, "check", "tenantCheck")
    /\ lock' = Nobody
    /\ UNCHANGED <<pos, ledger, effects, tenant, store, load, snap, caches,
                   signed, faults>>

-----------------------------------------------------------------------------
(* createDefaultTenantID and SigningKeyService.Initialize. *)

TenantCheckInverted(r) ==
    /\ Move(r, "tenantCheck", IF tenant THEN "tenantCreate" ELSE "keyCheck")
    /\ UNCHANGED <<schema, store, load, snap, caches, signed, faults>>

TenantCheck(r) ==
    /\ Move(r, "tenantCheck", IF tenant THEN "keyCheck" ELSE "tenantCreate")
    /\ UNCHANGED <<schema, store, load, snap, caches, signed, faults>>

(* The INSERT of a tenant that another process created since fails on the  *)
(* primary key, and main panics.                                           *)
TenantCreate(r) ==
    /\ pc[r] = "tenantCreate"
    /\ IF tenant
       THEN Die(r)
       ELSE /\ pc' = [pc EXCEPT ![r] = "keyCheck"]
            /\ tenant' = TRUE
            /\ UNCHANGED <<lock, pos, ledger, effects, store, load, snap,
                           caches, signed>>
    /\ UNCHANGED faults

(* ReadLatest: with a key, on to the load of the tokenizer's cache. *)
KeyCheck(r) ==
    /\ Move(r, "keyCheck", IF keys = {} THEN "keyCreate" ELSE "boot")
    /\ load' = [load EXCEPT ![r] = IF keys = {} THEN @ ELSE "tokenizer"]
    /\ UNCHANGED <<schema, store, snap, caches, signed, faults>>

(* A new key is generated and its INSERT begins, with now() as created. *)
BeginInsert(a) ==
    /\ clock' = clock + 1
    /\ pending' = [pending EXCEPT ![a] = clock + 1]
    /\ UNCHANGED keys

EndInsertReplaces(a) ==
    /\ keys' = {pending[a]}
    /\ pending' = [pending EXCEPT ![a] = 0]
    /\ UNCHANGED clock

(* Its row becomes visible. *)
EndInsert(a) ==
    /\ keys' = keys \union {pending[a]}
    /\ pending' = [pending EXCEPT ![a] = 0]
    /\ UNCHANGED clock

KeyInsert(r) ==
    /\ Move(r, "keyCreate", "keyInsert")
    /\ BeginInsert(r)
    /\ UNCHANGED <<schema, load, snap, caches, signed, faults>>

KeyInserted(r) ==
    /\ Move(r, "keyInsert", "boot")
    /\ EndInsert(r)
    /\ load' = [load EXCEPT ![r] = "tokenizer"]
    /\ UNCHANGED <<schema, snap, caches, signed, faults>>

(* Rotation: the operator inserts a newer key. *)
Rotate ==
    /\ keys # {}
    /\ clock < MaxKeys
    /\ pending[Operator] = 0
    /\ BeginInsert(Operator)
    /\ UNCHANGED <<pc, schema, load, snap, caches, signed, faults>>

Rotated ==
    /\ pending[Operator] # 0
    /\ EndInsert(Operator)
    /\ UNCHANGED <<pc, schema, load, snap, caches, signed, faults>>

-----------------------------------------------------------------------------
(* ReloadKeys, of the tokenizer and then of the provider: at startup, and  *)
(* from the janitor while both caches are in use.                          *)

CacheAfter(c) == IF c = "tokenizer" THEN "provider" ELSE "idle"

TickProviderOnly(r) ==
    /\ pc[r] = "serve"
    /\ load[r] = "idle"
    /\ load' = [load EXCEPT ![r] = "provider"]
    /\ UNCHANGED <<pc, schema, store, snap, caches, signed, faults>>

Tick(r) ==
    /\ pc[r] = "serve"
    /\ load[r] = "idle"
    /\ load' = [load EXCEPT ![r] = "tokenizer"]
    /\ UNCHANGED <<pc, schema, store, snap, caches, signed, faults>>

IsLatestAscending(k, S) == k \in S /\ \A j \in S : k <= j

IsLatest(k, S) == k \in S /\ \A j \in S : j <= k

ReadKeysLatestOnly(r) ==
    /\ load[r] # "idle"
    /\ snap[r] = {}
    /\ snap' = [snap EXCEPT ![r] = {k \in keys : IsLatest(k, keys)}]
    /\ UNCHANGED <<pc, schema, store, load, caches, signed, faults>>

(* ReadAll. *)
ReadKeys(r) ==
    /\ load[r] # "idle"
    /\ snap[r] = {}
    /\ snap' = [snap EXCEPT ![r] = keys]
    /\ UNCHANGED <<pc, schema, store, load, caches, signed, faults>>

(* The parsed keys are swapped in under the write lock. After the          *)
(* provider's first load the process serves.                               *)
SwapKeys(r) ==
    /\ \E latest \in snap[r] :
          /\ IsLatest(latest, snap[r])
          /\ signingKid' = [signingKid EXCEPT ![r][load[r]] = latest]
    /\ publicKeys' = [publicKeys EXCEPT ![r][load[r]] = snap[r]]
    /\ load' = [load EXCEPT ![r] = CacheAfter(@)]
    /\ snap' = [snap EXCEPT ![r] = {}]
    /\ pc' = [pc EXCEPT ![r] = IF load[r] = "provider" THEN "serve" ELSE @]
    /\ UNCHANGED <<schema, store, signed, faults>>

(* An error of ReloadKeys in the janitor is logged and the cache kept; at  *)
(* startup main panics, which is Crash.                                    *)
ReloadFailed(r) ==
    /\ faults < MaxFaults
    /\ pc[r] = "serve"
    /\ load[r] # "idle"
    /\ load' = [load EXCEPT ![r] = CacheAfter(@)]
    /\ snap' = [snap EXCEPT ![r] = {}]
    /\ faults' = faults + 1
    /\ UNCHANGED <<pc, schema, store, caches, signed>>

-----------------------------------------------------------------------------
(* The key of a cache, read under its lock: by sign for an access or       *)
(* refresh token, by the provider for an id token.                         *)
SigningKey(r, c) == signingKid[r][c]

Sign(r, c) ==
    /\ pc[r] = "serve"
    /\ Cardinality(signed) < MaxTokens
    /\ signed' = signed \union {[by |-> r, cache |-> c, kid |-> SigningKey(r, c)]}
    /\ UNCHANGED <<pc, schema, store, load, snap, caches, faults>>

(* validate looks the kid of a token up in its cache, relying parties in   *)
(* the KeySet the provider publishes from its own; /.well-known/jwks.json  *)
(* reads the table.                                                        *)
KeySet(r, c) == publicKeys[r][c]
Accepts(r, c, k) == k \in KeySet(r, c)
JWKS == keys

(* A crash, a stop, or a panic on a database error of the startup. *)
Crash(r) ==
    /\ faults < MaxFaults
    /\ pc[r] # "down"
    /\ Die(r)
    /\ faults' = faults + 1

-----------------------------------------------------------------------------
Startup(r) ==
    \/ Acquire(r) \/ MigrateCheck(r) \/ MigrateCommit(r) \/ MigrateDone(r)
    \/ TenantCheck(r) \/ TenantCreate(r)
    \/ KeyCheck(r) \/ KeyInsert(r) \/ KeyInserted(r)

Reload(r) == Tick(r) \/ ReadKeys(r) \/ SwapKeys(r)

Next ==
    \/ \E r \in Replica :
          \/ Start(r) \/ Startup(r) \/ Reload(r) \/ ReloadFailed(r)
          \/ \E c \in Cache : Sign(r, c)
          \/ Crash(r)
    \/ Rotate
    \/ Rotated

Spec == Init /\ [][Next]_vars

(* Steps under way are taken and the hourly ticker ticks; faults come to   *)
(* an end (MaxFaults). Nobody has to start a process again, nor to rotate. *)
Fairness ==
    \A r \in Replica : WF_vars(Startup(r)) /\ WF_vars(Reload(r))

FairSpec == Spec /\ Fairness

-----------------------------------------------------------------------------
(* Properties. *)

Migrating(r) == pc[r] \in {"check", "apply"}

(* Migrations take effect once each and in order, whoever dies in between, *)
(* and no migrator finds its version applied by another after its check    *)
(* (db.Migrate: "concurrent replicas cannot race through the               *)
(* check-then-apply window").                                              *)
MigrationsInOrder ==
    /\ \A v \in Version : effects[v] = IF v \in ledger THEN 1 ELSE 0
    /\ \A v \in ledger : \A w \in Version : w < v => w \in ledger
    /\ \A r \in Replica : pc[r] = "apply" => pos[r] \notin ledger

(* A process that serves runs on a complete schema, with the default       *)
(* tenant and with keys in both caches: SigningKey and KeySet never find   *)
(* an empty cache (main, in the order of its steps).                       *)
ServesReady ==
    \A r \in Replica : pc[r] = "serve" =>
        /\ ledger = Version
        /\ tenant
        /\ \A c \in Cache : Accepts(r, c, signingKid[r][c])

(* What a process has signed, in this life or an earlier one, it accepts   *)
(* whenever it serves: neither a rotation, nor a reload under traffic, nor *)
(* a restart invalidates its tokens (README: validation keeps serving the  *)
(* old keys).                                                              *)
OwnTokensVerify ==
    \A t \in signed : pc[t.by] = "serve" => Accepts(t.by, t.cache, t.kid)

(* Every token ever signed verifies against the published JWKS, from the   *)
(* moment it is signed and for ever (jwks.Keys).                           *)
PublishedBeforeUse ==
    \A t \in signed : t.kid \in JWKS

-----------------------------------------------------------------------------
(* The inductive invariant. *)

Migrated(r) == pc[r] \notin {"down", "lock", "check", "apply"}

MigrationInv ==
    /\ \A r \in Replica : Migrating(r) <=> lock = r
    /\ \A r \in Replica : Migrating(r) =>
          \A v \in Version : v < pos[r] => v \in ledger
    /\ \A r \in Replica : pc[r] = "apply" => pos[r] \in Version
    /\ \A r \in Replica : Migrated(r) => ledger = Version
    /\ MigrationsInOrder

StartupInv ==
    \A r \in Replica :
        /\ pc[r] \in {"keyCheck", "keyCreate", "keyInsert", "boot", "serve"}
              => tenant
        /\ pc[r] = "keyInsert" => pending[r] # 0
        /\ pc[r] = "boot" => load[r] # "idle"
        /\ load[r] # "idle" => pc[r] \in {"boot", "serve"}

Loaded(r, c) == signingKid[r][c] \in publicKeys[r][c]

CacheInv ==
    \A r \in Replica :
        /\ snap[r] \subseteq keys
        /\ snap[r] # {} => load[r] # "idle"
        /\ pc[r] = "serve" => \A c \in Cache : Loaded(r, c)
        /\ load[r] = "provider" => Loaded(r, "tokenizer")
        /\ \A c \in Cache : publicKeys[r][c] \subseteq keys
        /\ snap[r] # {} => \A c \in Cache : publicKeys[r][c] \subseteq snap[r]

TokenInv ==
    \A t \in signed :
        /\ t.kid \in keys
        /\ snap[t.by] # {} => t.kid \in snap[t.by]
        /\ publicKeys[t.by][t.cache] # {} => Accepts(t.by, t.cache, t.kid)

(* Processes in the migrations are the holders of its lock and have seen   *)
(* every version before theirs recorded; what a startup step checked still *)
(* holds; a cache, what is being read into it, and the tokens signed from  *)
(* it are nested in the table, so that no swap can lose a key in use.      *)
RInv == TypeOK /\ MigrationInv /\ StartupInv /\ CacheInv /\ TokenInv

-----------------------------------------------------------------------------
(* Liveness. *)

(* A rotation reaches every running process without a restart: from some   *)
(* point on whoever serves accepts the key on both surfaces (janitor).     *)
RotationReachesAll ==
    \A k \in 1 .. MaxKeys + MaxFaults + Cardinality(Replica) :
        k \in keys ~> [](\A r \in Replica, c \in Cache :
                            pc[r] = "serve" => Accepts(r, c, k))

(* Once rotations stop, whoever serves ends up signing with the one newest *)
(* key, even if several processes each created a first key (Initialize).   *)
SigningConverges ==
    <>[](\A r \in Replica, c \in Cache :
            pc[r] = "serve" => \A k \in keys : k <= signingKid[r][c])

(* A started process comes to serve or ends: none waits for ever for the   *)
(* migration lock (Migrate's deferred unlock).                             *)
StartupSettles ==
    \A r \in Replica : pc[r] # "down" ~> pc[r] \in {"down", "serve"}

=============================================================================
