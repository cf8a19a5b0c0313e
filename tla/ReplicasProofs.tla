--------------------------- MODULE ReplicasProofs ---------------------------
(***************************************************************************)
(* Proofs about Replicas: the inductive invariant RInv, and from it that   *)
(* migrations take effect once and in order, that a serving process is     *)
(* ready, and that tokens keep verifying across rotations, reloads and     *)
(* restarts, for any number of processes, migrations, keys and faults.     *)
(***************************************************************************)
EXTENDS Replicas, TLAPS

-----------------------------------------------------------------------------
(* The initial states satisfy RInv. *)
LEMMA InitRInv == Init => RInv
<1> SUFFICES ASSUME Init PROVE RInv
    OBVIOUS
<1> USE DEF Init
<1>1. TypeOK
    <2>1. 1 \in 1 .. Migrations + 1 /\ {} \subseteq 1 .. clock
        BY BoundsAssumption
    <2>2. /\ pos \in [Replica -> 1 .. Migrations + 1]
          /\ effects \in [Version -> Nat]
          /\ pending \in [Actor -> 0 .. clock]
        BY <2>1
    <2>3. /\ snap \in [Replica -> SUBSET (1 .. clock)]
          /\ signingKid \in [Replica -> [Cache -> 0 .. clock]]
          /\ publicKeys \in [Replica -> [Cache -> SUBSET (1 .. clock)]]
          /\ signed \subseteq [by : Replica, cache : Cache, kid : 1 .. clock]
        BY <2>1
    <2> QED
        BY <2>2, <2>3 DEF TypeOK, Actor, Nobody
<1>2. MigrationInv
    BY ActorsAssumption
    DEF MigrationInv, MigrationsInOrder, Migrating, Migrated, Version, Nobody
<1>3. StartupInv /\ CacheInv /\ TokenInv
    BY DEF StartupInv, CacheInv, TokenInv, Cache
<1> QED
    BY <1>1, <1>2, <1>3 DEF RInv

-----------------------------------------------------------------------------
(* The end of a process, whatever it was doing, keeps every part of RInv:  *)
(* what it held is released, its transaction leaves nothing behind and its *)
(* tokens stay in the table.                                               *)
LEMMA DieRInv ==
    ASSUME RInv, NEW r \in Replica, Die(r), faults' \in Nat
    PROVE  RInv'
<1> USE DEF RInv, Die
<1>1. TypeOK'
    BY ActorsAssumption DEF TypeOK, Actor, Cache, Version, Nobody
<1>2. MigrationInv'
    BY ActorsAssumption
    DEF TypeOK, MigrationInv, MigrationsInOrder, Migrating, Migrated, Nobody,
        Actor
<1>3. StartupInv'
    BY DEF TypeOK, StartupInv, Actor
<1>4. CacheInv'
    BY DEF TypeOK, CacheInv, Loaded, Cache
<1>5. TokenInv'
    BY DEF TypeOK, TokenInv, Accepts, KeySet, Cache
<1> QED
    BY <1>1, <1>2, <1>3, <1>4, <1>5

(* A step that leaves keys, caches, reads and tokens alone, and takes no   *)
(* process into serving, keeps their invariants.                           *)
LEMMA KeysAlone ==
    ASSUME RInv, NEW r \in Replica,
           UNCHANGED <<keys, load, snap, caches, signed>>,
           NEW where, where # "serve", pc' = [pc EXCEPT ![r] = where]
    PROVE  CacheInv' /\ TokenInv'
BY DEF RInv, TypeOK, CacheInv, TokenInv, Loaded, Accepts, KeySet, caches, Cache

(* A process past the migrations that stays past them, and leaves what     *)
(* they wrote alone, keeps MigrationInv.                                   *)
LEMMA SchemaAlone ==
    ASSUME RInv, NEW r \in Replica, UNCHANGED <<lock, pos, ledger, effects>>,
           Migrated(r), NEW where,
           where \notin {"down", "lock", "check", "apply"},
           pc' = [pc EXCEPT ![r] = where]
    PROVE  MigrationInv'
BY DEF RInv, TypeOK, MigrationInv, MigrationsInOrder, Migrating, Migrated

(* The beginning of an INSERT advances the clock: every type that mentions *)
(* it only grows.                                                          *)
LEMMA InsertTypes ==
    ASSUME TypeOK, NEW a \in Actor, BeginInsert(a)
    PROVE  /\ clock' \in Nat
           /\ pending' \in [Actor -> 0 .. clock']
           /\ keys \subseteq 1 .. clock'
           /\ snap \in [Replica -> SUBSET (1 .. clock')]
           /\ signingKid \in [Replica -> [Cache -> 0 .. clock']]
           /\ publicKeys \in [Replica -> [Cache -> SUBSET (1 .. clock')]]
           /\ signed \subseteq [by : Replica, cache : Cache, kid : 1 .. clock']
<1> USE DEF TypeOK, BeginInsert
<1>1. /\ clock' \in Nat
      /\ 0 .. clock \subseteq 0 .. clock'
      /\ 1 .. clock \subseteq 1 .. clock'
      /\ clock + 1 \in 0 .. clock'
    OBVIOUS
<1>2. pending' \in [Actor -> 0 .. clock']
    BY <1>1
<1>3. snap \in [Replica -> SUBSET (1 .. clock')]
    BY <1>1
<1>4. signingKid \in [Replica -> [Cache -> 0 .. clock']]
    BY <1>1
<1>5. publicKeys \in [Replica -> [Cache -> SUBSET (1 .. clock')]]
    BY <1>1
<1>6. signed \subseteq [by : Replica, cache : Cache, kid : 1 .. clock']
    BY <1>1
<1> QED
    BY <1>1, <1>2, <1>3, <1>4, <1>5, <1>6

(* The end of an INSERT adds a key that is not ahead of the clock. *)
LEMMA InsertedTypes ==
    ASSUME TypeOK, NEW a \in Actor, pending[a] # 0, EndInsert(a)
    PROVE  pending' \in [Actor -> 0 .. clock] /\ keys' \subseteq 1 .. clock
<1> USE DEF EndInsert
<1>1. clock \in Nat /\ pending \in [Actor -> 0 .. clock] /\ keys \subseteq 1 .. clock
    BY DEF TypeOK
<1>2. pending[a] \in 1 .. clock /\ 0 \in 0 .. clock
    BY <1>1
<1>3. pending' \in [Actor -> 0 .. clock]
    BY <1>1, <1>2
<1>4. keys' \subseteq 1 .. clock
    BY <1>1, <1>2
<1> QED
    BY <1>3, <1>4

-----------------------------------------------------------------------------
(* The steps of Migrate keep RInv. *)
LEMMA MigrateRInv ==
    ASSUME RInv, NEW r \in Replica,
           \/ Start(r) \/ Acquire(r) \/ MigrateCheck(r) \/ MigrateCommit(r)
           \/ MigrateDone(r)
    PROVE  RInv'
<1> USE DEF RInv
<1>1. CASE Start(r)
    <2> USE <1>1 DEF Start, Move, schema, store, caches
    <2>1. TypeOK'
        BY DEF TypeOK
    <2>2. MigrationInv'
        BY DEF TypeOK, MigrationInv, MigrationsInOrder, Migrating, Migrated
    <2>3. StartupInv'
        BY DEF TypeOK, StartupInv
    <2>4. CacheInv' /\ TokenInv'
        BY KeysAlone
    <2> QED
        BY <2>1, <2>2, <2>3, <2>4
<1>2. CASE Acquire(r)
    <2> USE <1>2 DEF Acquire, Move, store, caches
    <2>1. TypeOK'
        BY BoundsAssumption DEF TypeOK, Actor
    <2>2. MigrationInv'
        BY ActorsAssumption, BoundsAssumption
        DEF TypeOK, MigrationInv, MigrationsInOrder, Migrating, Migrated,
            Nobody, Version
    <2>3. StartupInv'
        BY DEF TypeOK, StartupInv
    <2>4. CacheInv' /\ TokenInv'
        BY KeysAlone
    <2> QED
        BY <2>1, <2>2, <2>3, <2>4
<1>3. CASE MigrateCheck(r)
    <2> USE <1>3 DEF MigrateCheck, store, caches
    <2>1. PICK where \in {"check", "apply"} : pc' = [pc EXCEPT ![r] = where]
        <3>1. CASE pos[r] \in ledger
            <4>1. pc' = [pc EXCEPT ![r] = "check"]
                BY <3>1 DEF TypeOK
            <4> QED
                BY <4>1
        <3>2. CASE pos[r] \notin ledger
            BY <3>2
        <3> QED
            BY <3>1, <3>2
    <2>2. TypeOK'
        <3>1. pos' \in [Replica -> 1 .. Migrations + 1]
            <4>1. pos[r] + 1 \in 1 .. Migrations + 1
                BY BoundsAssumption DEF Version
            <4> QED
                BY <4>1 DEF TypeOK
        <3> QED
            BY <2>1, <3>1 DEF TypeOK
    <2>3. MigrationInv'
        <3>1. /\ \A s \in Replica : Migrating(s)' <=> Migrating(s)
              /\ \A s \in Replica : Migrated(s)' <=> Migrated(s)
            BY <2>1 DEF TypeOK, Migrating, Migrated
        <3>2. \A s \in Replica : Migrating(s)' =>
                 \A v \in Version : v < pos'[s] => v \in ledger
            <4> SUFFICES ASSUME NEW s \in Replica, Migrating(s)',
                                NEW v \in Version, v < pos'[s]
                         PROVE  v \in ledger
                OBVIOUS
            <4>1. v < pos[s] \/ (s = r /\ v = pos[r] /\ pos[r] \in ledger)
                BY BoundsAssumption DEF TypeOK, Version
            <4> QED
                BY <3>1, <4>1 DEF MigrationInv
        <3>3. \A s \in Replica : pc'[s] = "apply" =>
                 pos'[s] \in Version /\ pos'[s] \notin ledger
            <4> SUFFICES ASSUME NEW s \in Replica, pc'[s] = "apply"
                         PROVE  pos'[s] \in Version /\ pos'[s] \notin ledger
                OBVIOUS
            <4>1. CASE s # r
                <5>1. pc'[s] = pc[s] /\ pos'[s] = pos[s]
                    BY <4>1 DEF TypeOK
                <5> QED
                    BY <5>1 DEF MigrationInv, MigrationsInOrder
            <4>2. CASE s = r
                BY <4>2 DEF TypeOK
            <4> QED
                BY <4>1, <4>2
        <3> QED
            BY <3>1, <3>2, <3>3 DEF MigrationInv, MigrationsInOrder
    <2>4. StartupInv'
        BY DEF TypeOK, StartupInv
    <2>5. CacheInv' /\ TokenInv'
        BY <2>1, KeysAlone
    <2> QED
        BY <2>2, <2>3, <2>4, <2>5
<1>4. CASE MigrateCommit(r)
    <2> USE <1>4 DEF MigrateCommit
    <2>1. pos[r] \in Version \ ledger
        BY DEF MigrationInv, MigrationsInOrder
    <2> USE <2>1 DEF store, caches
    <2>2. TypeOK'
        <3>1. pos' \in [Replica -> 1 .. Migrations + 1]
            <4>1. pos[r] + 1 \in 1 .. Migrations + 1
                BY BoundsAssumption DEF Version
            <4> QED
                BY <4>1 DEF TypeOK
        <3>2. effects' \in [Version -> Nat]
            <4>1. effects \in [Version -> Nat] /\ effects[pos[r]] + 1 \in Nat
                BY DEF TypeOK
            <4>2. effects' = [effects EXCEPT ![pos[r]] = effects[pos[r]] + 1]
                OBVIOUS
            <4> HIDE <1>4, <2>1 DEF MigrateCommit, RInv
            <4> QED
                BY <4>1, <4>2
        <3> QED
            BY <3>1, <3>2 DEF TypeOK
    <2>3. MigrationInv'
        <3>1. lock = r /\ \A s \in Replica : Migrating(s) => s = r
            BY DEF MigrationInv, Migrating
        <3>2. \A s \in Replica : ~ Migrated(s)
            BY DEF MigrationInv
        <3>3. /\ \A s \in Replica : Migrating(s)' <=> lock' = s
              /\ \A s \in Replica : ~ Migrated(s)'
              /\ \A s \in Replica : pc'[s] # "apply"
            BY <3>1, <3>2 DEF TypeOK, MigrationInv, Migrating, Migrated
        <3>4. \A v \in Version : v < pos'[r] => v \in ledger'
            BY <3>1, BoundsAssumption
            DEF TypeOK, MigrationInv, Migrating, Version
        <3>5. \A v \in Version : effects'[v] = IF v \in ledger' THEN 1 ELSE 0
            BY DEF TypeOK, MigrationInv, MigrationsInOrder
        <3>6. \A v \in ledger' : \A w \in Version : w < v => w \in ledger'
            <4> SUFFICES ASSUME NEW v \in ledger', NEW w \in Version, w < v
                         PROVE  w \in ledger'
                OBVIOUS
            <4>1. CASE v \in ledger
                BY <4>1 DEF MigrationInv, MigrationsInOrder
            <4>2. CASE v = pos[r]
                BY <4>2, <3>1 DEF MigrationInv, Migrating
            <4> QED
                BY <4>1, <4>2
        <3> QED
            BY <3>1, <3>3, <3>4, <3>5, <3>6
            DEF MigrationInv, MigrationsInOrder
    <2>4. StartupInv'
        BY DEF TypeOK, StartupInv
    <2>5. CacheInv' /\ TokenInv'
        BY KeysAlone
    <2> QED
        BY <2>2, <2>3, <2>4, <2>5
<1>5. CASE MigrateDone(r)
    <2> USE <1>5 DEF MigrateDone, Move, store, caches
    <2>1. TypeOK'
        BY DEF TypeOK, Actor, Nobody
    <2>2. MigrationInv'
        <3>1. \A v \in Version : v < pos[r]
            BY BoundsAssumption DEF Version
        <3>2. ledger = Version
            BY <3>1 DEF TypeOK, MigrationInv, Migrating
        <3>3. lock = r
            BY DEF MigrationInv, Migrating
        <3> QED
            BY <3>2, <3>3, ActorsAssumption
            DEF TypeOK, MigrationInv, MigrationsInOrder, Migrating, Migrated,
                Nobody
    <2>3. StartupInv'
        BY DEF TypeOK, StartupInv
    <2>4. CacheInv' /\ TokenInv'
        BY KeysAlone
    <2> QED
        BY <2>1, <2>2, <2>3, <2>4
<1> QED
    BY <1>1, <1>2, <1>3, <1>4, <1>5

-----------------------------------------------------------------------------
(* The steps that create the default tenant and the first key keep RInv.   *)
LEMMA FirstRowsRInv ==
    ASSUME RInv, NEW r \in Replica,
           \/ TenantCheck(r) \/ TenantCreate(r)
           \/ KeyCheck(r) \/ KeyInsert(r) \/ KeyInserted(r)
    PROVE  RInv'
<1> USE DEF RInv
<1>1. CASE TenantCheck(r)
    <2> USE <1>1 DEF TenantCheck, Move, schema, store, caches
    <2>1. TypeOK'
        BY DEF TypeOK
    <2>2. MigrationInv'
        BY SchemaAlone DEF Migrated
    <2>3. StartupInv'
        BY DEF TypeOK, StartupInv
    <2>4. CacheInv' /\ TokenInv'
        BY KeysAlone
    <2> QED
        BY <2>1, <2>2, <2>3, <2>4
<1>2. CASE TenantCreate(r)
    <2>1. CASE tenant
        BY <1>2, <2>1, DieRInv DEF TenantCreate, TypeOK
    <2>2. CASE ~ tenant
        <3> USE <1>2, <2>2 DEF TenantCreate, store, caches
        <3>1. TypeOK'
            BY DEF TypeOK
        <3>2. MigrationInv'
            BY SchemaAlone DEF Migrated
        <3>3. StartupInv'
            BY DEF TypeOK, StartupInv
        <3>4. CacheInv' /\ TokenInv'
            BY KeysAlone
        <3> QED
            BY <3>1, <3>2, <3>3, <3>4
    <2> QED
        BY <2>1, <2>2
<1>3. CASE KeyCheck(r)
    <2> USE <1>3 DEF KeyCheck, Move, schema, store, caches
    <2>1. TypeOK'
        BY DEF TypeOK, Cache
    <2>2. MigrationInv'
        BY SchemaAlone DEF Migrated
    <2>3. StartupInv'
        BY DEF TypeOK, StartupInv
    <2>4. CacheInv' /\ TokenInv'
        BY DEF TypeOK, CacheInv, TokenInv, Loaded, Accepts, KeySet
    <2> QED
        BY <2>1, <2>2, <2>3, <2>4
<1>4. CASE KeyInsert(r)
    <2> USE <1>4 DEF KeyInsert, BeginInsert, Move, schema, caches
    <2>1. TypeOK'
        BY InsertTypes DEF TypeOK, Actor
    <2>2. MigrationInv'
        BY SchemaAlone DEF Migrated
    <2>3. StartupInv'
        BY DEF TypeOK, StartupInv, Actor
    <2>4. CacheInv' /\ TokenInv'
        BY KeysAlone
    <2> QED
        BY <2>1, <2>2, <2>3, <2>4
<1>5. CASE KeyInserted(r)
    <2> USE <1>5 DEF KeyInserted, EndInsert, Move, schema, caches
    <2>1. pending[r] \in 1 .. clock
        BY DEF TypeOK, StartupInv, Actor
    <2>2. TypeOK'
        <3>0. r \in Actor /\ pending[r] # 0 /\ EndInsert(r)
            BY <2>1 DEF Actor, TypeOK
        <3>1. pending' \in [Actor -> 0 .. clock] /\ keys' \subseteq 1 .. clock
            <4> HIDE DEF EndInsert
            <4> QED
                BY <3>0, InsertedTypes
        <3> QED
            BY <3>1 DEF TypeOK, Cache
    <2>3. MigrationInv'
        BY SchemaAlone DEF Migrated
    <2>4. StartupInv'
        BY DEF TypeOK, StartupInv, Actor
    <2>5. CacheInv' /\ TokenInv'
        BY DEF TypeOK, CacheInv, TokenInv, Loaded, Accepts, KeySet
    <2> QED
        BY <2>2, <2>3, <2>4, <2>5
<1> QED
    BY <1>1, <1>2, <1>3, <1>4, <1>5

-----------------------------------------------------------------------------
(* The two steps of the operator's INSERT keep RInv. *)
LEMMA RotationRInv ==
    ASSUME RInv, Rotate \/ Rotated
    PROVE  RInv'
<1> USE DEF RInv
<1>1. CASE Rotate
    <2> USE <1>1 DEF Rotate, BeginInsert, schema, caches
    <2>1. TypeOK'
        BY InsertTypes DEF TypeOK, Actor
    <2>2. MigrationInv'
        BY DEF MigrationInv, MigrationsInOrder, Migrating, Migrated
    <2>3. StartupInv'
        BY ActorsAssumption DEF TypeOK, StartupInv, Actor
    <2>4. CacheInv' /\ TokenInv'
        BY DEF CacheInv, TokenInv, Loaded, Accepts, KeySet
    <2> QED
        BY <2>1, <2>2, <2>3, <2>4
<1>2. CASE Rotated
    <2> USE <1>2 DEF Rotated, EndInsert, schema, caches
    <2>1. TypeOK'
        <3>0. Operator \in Actor /\ pending[Operator] # 0 /\ EndInsert(Operator)
            BY DEF Actor, TypeOK
        <3>1. pending' \in [Actor -> 0 .. clock] /\ keys' \subseteq 1 .. clock
            <4> HIDE DEF EndInsert
            <4> QED
                BY <3>0, InsertedTypes
        <3> QED
            BY <3>1 DEF TypeOK
    <2>2. MigrationInv'
        BY DEF MigrationInv, MigrationsInOrder, Migrating, Migrated
    <2>3. StartupInv'
        BY ActorsAssumption DEF TypeOK, StartupInv, Actor
    <2>4. CacheInv' /\ TokenInv'
        BY DEF CacheInv, TokenInv, Loaded, Accepts, KeySet
    <2> QED
        BY <2>1, <2>2, <2>3, <2>4
<1> QED
    BY <1>1, <1>2

(* ReloadKeys keeps RInv: what is read contains the cache it will replace  *)
(* and every key signed with so far; what is signed until the swap is from *)
(* that cache.                                                             *)
LEMMA ReloadRInv ==
    ASSUME RInv, NEW r \in Replica, Reload(r) \/ ReloadFailed(r)
    PROVE  RInv'
<1> USE DEF RInv
<1>1. CASE Tick(r)
    <2> USE <1>1 DEF Tick, schema, store, caches
    <2>1. TypeOK'
        BY DEF TypeOK, Cache
    <2>2. MigrationInv'
        BY DEF MigrationInv, MigrationsInOrder, Migrating, Migrated
    <2>3. StartupInv'
        BY DEF TypeOK, StartupInv
    <2>4. CacheInv' /\ TokenInv'
        BY DEF TypeOK, CacheInv, TokenInv, Loaded, Accepts, KeySet
    <2> QED
        BY <2>1, <2>2, <2>3, <2>4
<1>2. CASE ReadKeys(r)
    <2> USE <1>2 DEF ReadKeys, schema, store, caches
    <2>1. TypeOK'
        BY DEF TypeOK
    <2>2. MigrationInv'
        BY DEF MigrationInv, MigrationsInOrder, Migrating, Migrated
    <2>3. StartupInv'
        BY DEF StartupInv
    <2>4. CacheInv'
        BY DEF TypeOK, CacheInv, Loaded
    <2>5. TokenInv'
        BY DEF TypeOK, TokenInv, Accepts, KeySet
    <2> QED
        BY <2>1, <2>2, <2>3, <2>4, <2>5
<1>3. CASE SwapKeys(r)
    <2>1. PICK latest \in snap[r] :
             signingKid' = [signingKid EXCEPT ![r][load[r]] = latest]
        BY <1>3 DEF SwapKeys
    <2>2. /\ load[r] \in Cache /\ pc[r] \in {"boot", "serve"}
          /\ load[r] = "provider" => Loaded(r, "tokenizer")
          /\ pc[r] = "serve" => \A c \in Cache : Loaded(r, c)
          /\ snap[r] \subseteq keys
          /\ \A c \in Cache : publicKeys[r][c] \subseteq snap[r]
        BY <2>1 DEF TypeOK, StartupInv, CacheInv
    <2> USE <1>3, <2>1, <2>2 DEF SwapKeys, schema, store
    <2>3. TypeOK'
        <3>1. signingKid' \in [Replica -> [Cache -> 0 .. clock]]
            <4>1. latest \in 0 .. clock
                BY DEF TypeOK
            <4> QED
                BY <4>1 DEF TypeOK
        <3>2. publicKeys' \in [Replica -> [Cache -> SUBSET (1 .. clock)]]
            BY DEF TypeOK
        <3>3. load' \in [Replica -> Cache \union {"idle"}]
            BY DEF TypeOK, CacheAfter, Cache
        <3> QED
            BY <3>1, <3>2, <3>3 DEF TypeOK
    <2>4. MigrationInv'
        <3>1. PICK where \in {"boot", "serve"} :
                 pc' = [pc EXCEPT ![r] = where]
            OBVIOUS
        <3> QED
            BY <3>1, SchemaAlone DEF Migrated
    <2>5. StartupInv'
        BY DEF TypeOK, StartupInv, CacheAfter, Cache
    <2>6. \A s \in Replica, c \in Cache :
             Loaded(s, c)' <=> (Loaded(s, c) \/ (s = r /\ c = load[r]))
        BY DEF TypeOK, Loaded
    <2>7. \A s \in Replica, c \in Cache :
             publicKeys'[s][c] = IF s = r /\ c = load[r] THEN snap[r]
                                 ELSE publicKeys[s][c]
        BY DEF TypeOK
    <2>8. CacheInv'
        BY <2>6, <2>7 DEF TypeOK, CacheInv, CacheAfter, Cache
    <2>9. TokenInv'
        <3> SUFFICES ASSUME NEW t \in signed
                     PROVE  /\ t.kid \in keys
                            /\ snap'[t.by] # {} => t.kid \in snap'[t.by]
                            /\ publicKeys'[t.by][t.cache] # {} =>
                                  t.kid \in publicKeys'[t.by][t.cache]
            BY DEF TokenInv, Accepts, KeySet
        <3>1. t.by \in Replica /\ t.cache \in Cache
            BY DEF TypeOK
        <3> QED
            BY <2>7, <3>1 DEF TypeOK, TokenInv, Accepts, KeySet
    <2> QED
        BY <2>3, <2>4, <2>5, <2>8, <2>9
<1>4. CASE ReloadFailed(r)
    <2> USE <1>4 DEF ReloadFailed, schema, store, caches
    <2>1. TypeOK'
        BY DEF TypeOK, CacheAfter, Cache
    <2>2. MigrationInv'
        BY DEF MigrationInv, MigrationsInOrder, Migrating, Migrated
    <2>3. StartupInv'
        BY DEF TypeOK, StartupInv
    <2>4. CacheInv'
        BY DEF TypeOK, CacheInv, Loaded, Cache
    <2>5. TokenInv'
        BY DEF TypeOK, TokenInv, Accepts, KeySet
    <2> QED
        BY <2>1, <2>2, <2>3, <2>4, <2>5
<1> QED
    BY <1>1, <1>2, <1>3, <1>4 DEF Reload

(* Signing keeps RInv: a serving process signs with a key of its cache. *)
LEMMA SignRInv ==
    ASSUME RInv, NEW r \in Replica, NEW c \in Cache, Sign(r, c)
    PROVE  RInv'
<1> USE DEF RInv, Sign, SigningKey, schema, store, caches
<1>1. signingKid[r][c] \in publicKeys[r][c] /\ signingKid[r][c] \in 1 .. clock
    BY DEF TypeOK, CacheInv, Loaded
<1>2. TypeOK'
    BY <1>1 DEF TypeOK
<1>3. MigrationInv' /\ StartupInv' /\ CacheInv'
    BY DEF MigrationInv, MigrationsInOrder, Migrating, Migrated, StartupInv,
           CacheInv, Loaded
<1>4. TokenInv'
    <2> SUFFICES ASSUME NEW t \in signed'
                 PROVE  /\ t.kid \in keys
                        /\ snap[t.by] # {} => t.kid \in snap[t.by]
                        /\ publicKeys[t.by][t.cache] # {} =>
                              t.kid \in publicKeys[t.by][t.cache]
        BY DEF TokenInv, Accepts, KeySet
    <2>1. CASE t \in signed
        BY <2>1 DEF TokenInv, Accepts, KeySet
    <2>2. CASE t = [by |-> r, cache |-> c, kid |-> signingKid[r][c]]
        BY <1>1, <2>2 DEF CacheInv
    <2> QED
        BY <2>1, <2>2
<1> QED
    BY <1>2, <1>3, <1>4

-----------------------------------------------------------------------------
(* Every step keeps RInv. *)
LEMMA NextRInv == RInv /\ [Next]_vars => RInv'
<1> SUFFICES ASSUME RInv, [Next]_vars PROVE RInv'
    OBVIOUS
<1>1. CASE UNCHANGED vars
    BY <1>1
    DEF vars, schema, store, caches, RInv, TypeOK, MigrationInv,
        MigrationsInOrder, Migrating, Migrated, StartupInv, CacheInv, Loaded,
        TokenInv, Accepts, KeySet
<1>2. CASE Rotate \/ Rotated
    BY <1>2, RotationRInv
<1>3. ASSUME NEW r \in Replica, Start(r) \/ Startup(r)
      PROVE  RInv'
    BY <1>3, MigrateRInv, FirstRowsRInv DEF Startup
<1>4. ASSUME NEW r \in Replica, Reload(r) \/ ReloadFailed(r)
      PROVE  RInv'
    BY <1>4, ReloadRInv
<1>5. ASSUME NEW r \in Replica, NEW c \in Cache, Sign(r, c)
      PROVE  RInv'
    BY <1>5, SignRInv
<1>6. ASSUME NEW r \in Replica, Crash(r)
      PROVE  RInv'
    <2>1. faults' \in Nat
        BY <1>6 DEF Crash, RInv, TypeOK
    <2> QED
        BY <1>6, <2>1, DieRInv DEF Crash
<1> QED
    BY <1>1, <1>2, <1>3, <1>4, <1>5, <1>6 DEF Next

(* RInv holds in every reachable state, for any number of processes,       *)
(* migrations, rotations, tokens and faults.                               *)
THEOREM ReplicasInvariant == Spec => []RInv
BY InitRInv, NextRInv, PTL DEF Spec

(* Migrations take effect once each and in order although processes race   *)
(* for them and die in them (db.Migrate).                                  *)
THEOREM Migrates == Spec => []MigrationsInOrder
<1>1. RInv => MigrationsInOrder
    BY DEF RInv, MigrationInv
<1> QED
    BY ReplicasInvariant, <1>1, PTL

(* A process serves only once the schema, the default tenant and both      *)
(* caches are there (main).                                                *)
THEOREM Ready == Spec => []ServesReady
<1>1. RInv => ServesReady
    BY DEF RInv, MigrationInv, StartupInv, CacheInv, Loaded, Migrated,
           ServesReady, Accepts, KeySet
<1> QED
    BY ReplicasInvariant, <1>1, PTL

(* No rotation, reload or restart makes a process reject a token of its    *)
(* own (ReloadKeys, validate).                                             *)
THEOREM OwnTokens == Spec => []OwnTokensVerify
<1>1. RInv => OwnTokensVerify
    <2> SUFFICES ASSUME RInv, NEW t \in signed, pc[t.by] = "serve"
                 PROVE  Accepts(t.by, t.cache, t.kid)
        BY DEF OwnTokensVerify
    <2>1. t.by \in Replica /\ t.cache \in Cache
        BY DEF RInv, TypeOK
    <2>2. publicKeys[t.by][t.cache] # {}
        BY <2>1 DEF RInv, CacheInv, Loaded
    <2> QED
        BY <2>2 DEF RInv, TokenInv
<1> QED
    BY ReplicasInvariant, <1>1, PTL

(* The JWKS publishes the key of every token from the moment it is signed  *)
(* (jwks.Keys).                                                            *)
THEOREM Published == Spec => []PublishedBeforeUse
<1>1. RInv => PublishedBeforeUse
    BY DEF RInv, TokenInv, PublishedBeforeUse, JWKS
<1> QED
    BY ReplicasInvariant, <1>1, PTL
=============================================================================
