# A TLA+ verification of an

`an` is an authentication service: a stateless Go process (any number of
replicas) over one Postgres database. Every handler is a goroutine that runs a
few SQL statements, and almost everything that can go wrong lies between two of
them. So the models have one action per statement or transaction, with the
in-memory work up to the next one folded in, and let requests interleave freely.

## The system

| Part | State | Operations | Hard because |
|---|---|---|---|
| Token sessions (`internal/authn`) | `sessions` row per (tenant, email, client): refresh jti, expiry | authenticate, acknowledge, validate, renew, revoke | tokens are bearer values a client may present late, twice or out of order; each handler reads, then writes; password changes and deletions run between |
| Lockout (`internal/authn`) | `failed_attempts` row per account: count, locked_until, modified | gate, count, clear, sweep | shared by password logons, code logons, resets and the janitor, all unsynchronised |
| Logon codes (`internal/authn`) | `logon_codes` row per account | request, authenticate | read, compare, delete are three statements |
| Accounts (`internal/accounts`) | `accounts`, `password_resets` | register, verify, resend, forgot, reset, update password or name, delete | one-time tokens are compared to a row read earlier; a change must end sessions on every surface |
| Tokens and keys (`internal/tokens`) | `signing_keys`, each replica's cache | sign, validate, reload, JWKS | replicas see a rotation at different times |
| OIDC provider (`internal/oidc`, `api/oidc`) | `oidc_auth_requests`, `oidc_access_tokens`, `oidc_refresh_tokens`, `oidc_browser_sessions`, `oidc_clients` | authorize, login, code exchange, refresh, revoke, introspect, logout, sweep | the protocol library drives storage in several calls per request; codes and refresh tokens are single use |
| Social logon (`internal/social`) | `social_logins` | find or create, verify, link, in one transaction | two first logons at once, a registration or a deletion beside them, a client that retries |
| API keys, tenants (`internal/apikeys`, `internal/tenants`, `api/auth`) | `api_keys`, `tenants` | create, revoke, authenticate a request, effective tenant | a key is found by a prefix and may be revoked while in use; an empty tenant means two different things |
| Startup (`cmd/an`, `internal/db`) | `schema_migrations`, first key, default tenant | migrate, bootstrap, janitor | several replicas start at once, or die half way |

How they interact: the accounts service ends sessions through `SessionRevoker`s
(the session table and the OIDC grants) inside its transactions, and clears the
lockout on a reset; logons read accounts and the lockout; renewals read
accounts; the janitor sweeps every table with an expiry once an hour.

`PROJECT.json` lists the components with what is modelled of each, and the
hazards of the code with the properties that cover them.

## Modules

| Module | What it is |
|---|---|
| `RefreshRegister` | what the session store promises: a slot is held by one refresh token, filled by a grant or by an exchange for the token in place |
| `TokenSessions` | the session protocol, request by request |
| `TokenSessionsProofs` | theorems about `TokenSessions` |
| `MCTokenSessions` | its instances for TLC |
| `Lockout` | the failed-attempts row of one account |
| `LockoutProofs`, `MCLockout` | theorems about it and its instances |
| `GrantFamily` | what the provider promises about refresh tokens: a grant has one at a time and never comes back |
| `OidcGrants` | the OIDC provider's requests, browser sessions and tokens |
| `OidcGrantsProofs`, `MCOidcGrants` | theorems about it and its instances |
| `OneTimeSecrets` | verification tokens, reset tokens and logon codes of one account |
| `OneTimeSecretsProofs`, `MCOneTimeSecrets` | theorems about it and its instances |
| `Replicas` | the processes of a deployment: startup, signing keys and their caches |
| `ReplicasProofs`, `MCReplicas` | theorems about it and its instances |
| `Onboarding` | how accounts come to be: registration and social logon, with verification, rename and deletion beside them |
| `OnboardingProofs`, `MCOnboarding` | theorems about it and its instances |
| `Gateway` | who may act on which tenant: api keys, the effective tenant, OIDC clients and their secrets |
| `GatewayProofs`, `MCGateway` | theorems about it and its instances |

### TokenSessions

`pc[r]` says between which two statements request `r` stands, `job[r]` holds its
local variables. `holder` and `expires` are the columns `refresh_jti` and
`expires` of `sessions`; `owner`, `iat` the claims of each minted pair; `held`
the pairs some client has received. `locked` are the session rows that a
transaction under way has deleted. `begun`, `changes`, `anchor`, `armed`
and `spent` only record history for the properties.

| Actions | Code |
|---|---|
| `LogonGate`, `LogonIssue` | `Authenticate`: gate and hash comparison, then `issue` |
| `AckStart`, `AckUpsert` | `Acknowledge`: claims checked, then `Upsert` |
| `ValidateStart`, `ValidateSession`, `ValidateAccount`, `ValidateReply` | `Validate`: token, session row, account row |
| `RenewStart`, `RenewRefused`, `RenewIssue`, `RenewWon`, `RenewLost` | `Renew`: token, account, `issue`, `Rotate` |
| `RevokeClient`, `RevokeAll` | `Revoke` |
| `PasswordRead`, `PasswordStatements`, `PasswordCommit` | `UpdatePassword`: the read, the statements of its transaction, the commit; the transaction of `Reset` does the same to sessions |
| `DeleteRead`, `DeleteStatements`, `DeleteCommit` | `Delete` |
| `Sweep`, `Tick`, `Abort` | `DeleteExpired`; time; a crash or a cancelled context between two statements |

Abstractions, and why they lose nothing the properties look at:

- A client may present any pair it was given at any time and any number of
  times. That covers retries, duplicates, delays and reordering of calls, and
  tokens of different pairs mixed in one call. A renewal whose answer is lost is
  `RenewWon(r, FALSE)`.
- Minting happens in memory; it is merged with the database read before it.
- A transaction is two actions, its statements and its commit, because Postgres
  runs it at READ COMMITTED: until it commits others read the old account and the
  old rows, a session acknowledged for another client slips past its `DELETE`, and
  a statement on a row it deleted waits. The `UPDATE` of the account and the
  `DELETE` of its sessions are one action, since what the first one does shows
  only at the commit, or as a wait of another transaction on the account. A
  statement over several rows waits as a whole; in Postgres it may have dealt
  with some rows before it waits, which the model has as single-row revokes.
- Wrong passwords, reset tokens and codes are other components: here a logon
  is one whose password matched, a change one that was authorised.
- `Registered` are the accounts that are registered, enabled and verified; no
  operation of the service clears `enabled` or `verified`.
- The service's and the database's clock are one. A token is valid while
  `now < exp` (as the JWT library has it), a row is swept when `expires < now`.

### Lockout

The row is `count`, `locked` (`locked_until` is not NULL), `left` (how much of
the lock is ahead) and `age` (since `modified`). Time is relative, so no bound on
the clock is needed; ages beyond `AgeCap` make no difference to any statement. A
logon is `Gate` (`checkLockout`'s read), perhaps `ClearExpired`, then one of
`IncrementAndLock`, `ClearOnSuccess` and `GiveUp`; password and code logons share
these steps and this row. A live lock refuses a logon and changes nothing, so
that answer is not an action. `ClearOnReset` is the reset's `lockouts.Clear`.

### OidcGrants

`row` holds the rows of the four tables by id: authorization requests, browser
sessions, refresh tokens, access tokens; `parent` is the foreign key
`refresh_token_id`. `known` are the rows whose code, cookie or token somebody
outside has received, `locked` the rows a transaction under way has deleted. In a
row, `root` (the first refresh token of the grant) and `since` (how many credential
changes had begun when the row was tied to its subject) are history, and so are the
tokens the account had, when a logout began, at the client it names (`issued`, empty
when it names none).

| Actions | Code |
|---|---|
| `Authorize` | `CreateAuthRequest` |
| `SubmitGate`, `SubmitSession`, `Complete` | `Submit`: password, browser session, `AuthenticateRequest` |
| `LoginRead`, `LoginAccount`, `Complete` | `Login` with a browser session: `liveSession`, `complete` |
| `Callback`, `SaveCode` | `AuthRequestByID`, `SaveAuthCode` |
| `CodeRead`, `RefreshRead`, `Rotate`, `RotateLost`, `MintRefresh`, `MintAccess`, `MintRefused`, `IdToken`, `Respond` | the token endpoint: `AuthRequestByCode` or `TokenRequestByRefreshToken`, `CreateAccessAndRefreshTokens` or `CreateAccessToken`, `SetUserinfoFromRequest`, `DeleteAuthRequest` |
| `RevokeRead`, `RevokeDelete`, `RevokeAccess` | `GetRefreshTokenInfo`, `RevokeToken` |
| `LogoutRead`, `LogoutCookie`, `LogoutRefresh`, `LogoutAccess` | `Logout`, `DeleteGrants` |
| `PasswordRead` to `DeleteCommit` | `UpdatePassword`, `Delete` with `SessionRevoker.DeleteAll` |
| `Sweep`, `Abort` | the janitor; a crash or a cancelled context |

The order of the calls within a token request is the protocol library's
(zitadel/oidc), which is not part of the repository: it reads the code's
request, has the tokens created, reads the account for the id token, deletes the
request, and answers. Abstractions:

- Time: every row may be past its time at any moment. A read that misses an
  expired row ends the request, which is no action; the janitor may delete any
  rows of a table; a logout may find its session expired.
- Client authentication, PKCE, redirect and scope checks compare values that do
  not change; an exchange in the model is one that passed them. A refresh token or
  code is presented by whoever received it, at any time and any number of times.
- The four DELETEs of `DeleteAll` are one action. They touch four tables, and a
  request that reads one table before its DELETE and writes another after its
  own does the same in the model around the one action.
- Answers that get lost are answers whose tokens nobody presents.
- Userinfo and introspection only read and are left out.

### OneTimeSecrets

`place[kind]` is the secret whose hash is stored: in `accounts.verification_hash`,
in `password_resets`, in `logon_codes`. `holder` is the request whose transaction
has written the account's row, which the other statements on that row wait for;
a statement on the reset row a transaction has deleted waits too. `Register`,
`VerifyRead`/`Verify`, `ResendRead`/`ResendWrite`, `ForgotRead`/`ForgotUpsert`,
`ResetAccount`/`ResetRead`/`ResetStatements`/`ResetCommit`, `CodeRequest`/`CodeIssue`,
`CodeAccount`/`CodeRead`/`Burn`/`CodeVerify`/`Issue` and `DeleteRead` to
`DeleteCommit` are the operations of the same names. A wrong secret changes
nothing here (`Lockout` counts wrong codes); an expired row is one that `Sweep`
may delete or that no read accepts any more. Logon codes have six digits and may
repeat; a secret in the model is one drawing of it.

### Replicas

`pc[r]` is how far process `r` has come in `main`; `lock` the advisory lock of the
migrations, `ledger` the table `schema_migrations`, `effects` how often the SQL of a
migration was committed. A signing key is named by its `created` column, the
instant its INSERT began: rows may become visible in another order, and an INSERT
may die with its process. Each process has two caches, the tokenizer's and the OIDC
provider's; `load` and `snap` are the `ReloadKeys` under way, which reads the table
in one step and swaps the cache in a later one.

| Actions | Code |
|---|---|
| `Start`, `Acquire`, `MigrateCheck`, `MigrateCommit`, `MigrateDone` | `Connect`, `Migrate`: lock, version check, one transaction per migration, unlock |
| `TenantCheck`, `TenantCreate` | `createDefaultTenantID`: read, then INSERT, which panics if another process was first |
| `KeyCheck`, `KeyInsert`, `KeyInserted` | `Initialize`: `ReadLatest`, generate, INSERT |
| `Rotate`, `Rotated` | the operator's INSERT of a newer key |
| `Tick`, `ReadKeys`, `SwapKeys`, `ReloadFailed` | the janitor and `ReloadKeys` of both caches, at startup too |
| `Sign`, `Crash` | `sign` and the provider's signing; a death, a stop or a panic at any step |

No two keys are created in the same microsecond, and nobody deletes a key (the
code has no such statement). The provider is taken to be configured; without it
there is one cache less. A migration that always fails is not modelled.

### Onboarding

`account`, `verified` and `link` are the tables `accounts` and `social_logins` as
others see them; `verified` also says what verified an account. A social logon is
one transaction, so what it has written is in `wrote[r]` until it commits, and
the statements of others wait: an INSERT of the same (tenant, email), an UPDATE
of the same account, a link that takes the same account or subject. A client
whose registration or social logon ends with a server error, or gets lost, tries
again; the statuses of `accountProblem`, `authenticateProblem` and `socialProblem`
decide which errors those are.

| Actions | Code |
|---|---|
| `RegisterBegin`, `Register`, `RegisterDuplicate` | `Register`, `Create` and its unique violation |
| `SocialBegin`, `SocialFind`, `SocialDeleted`, `SocialCreate`, `SocialDuplicate`, `SocialVerify` | `Authenticate` of the social service up to the link, `findOrCreate` |
| `Link`, `LinkConflict`, `SocialCommit`, `SocialIssue` | `Link`, the commit, the tokens |
| `VerifyRead`, `SetVerified`, `RenameRead`, `UpdateName`, `DeleteRead`, `SoftDelete`, `DeleteCommit` | `Verify`, `UpdateName`, `Delete` |
| `Lose`, `Abort`, `Retry` | a crash or lost connection at any statement, and the client that tries again |

The name, the password hash and the account's id are data no step depends on. A
verification token is compared in `OneTimeSecrets`; here it is one that matched.
The tenants of requests exist. What Google asserts of a person is an element of
`Identities`: in the run the two people exchange an email, as an email may be
given to somebody else. No operation clears `enabled`, so it has no state.

### Gateway

`apiKey` and `client` are the tables `api_keys` and `oidc_clients`; `gated` says
whether a bootstrap key is configured, without which the routes of the
administrator do not exist and the others are open. `minted` and `gone` record
what the administrator was told of a credential and which were taken back.

| Actions | Code |
|---|---|
| `CreateKey`, `RevokeKey`, `CreateClient`, `DeleteClient` | the handlers of the administrator with service and repository |
| `ApiArrive`, `Middleware`, `Unauthorized` | `apiKeySetting`, `Middleware`: the root key in memory, others by `ReadByPrefix` and the hash |
| `AccountHandler`, `AuthenticateHandler`, `LogonCodeHandler`, `SocialHandler` | the handlers call their service with `EffectiveTenant` |
| `ProviderArrive`, `GetClientByClientID`, `AuthorizeClientIDSecret`, `ClientRefused` | client authentication at the token and the introspection endpoint |
| `Answer` | the service has answered |

A handler stands for every operation of its service: all of them resolve the
tenant the same way and only then differ, in the other modules. A client id is
stored trimmed (`Trim`); a delete uses the id as written, so a padded id deletes
nothing. Redirect URIs never change once stored. Listing only reads. Keys and
secrets are random, so none is minted twice, but two keys may share a prefix,
which the table then refuses. A database error while a key is looked up is answered
401 like an unknown key; it changes nothing and lets nobody in, so it is not an action.

## Runs

| Run | Bounds | Shows |
|---|---|---|
| `sessions` | 2 requests, 3 pairs minted at 0 or 1, 2 tenants, 1 client, clock 0..2, 2 changes | the inductive invariant, `ValidateJustified`, `SessionMatchesToken`, `AnchoredAfterChange`, `RenewOnce`, refinement of `RefreshRegister` |
| `sessions_live` | 2 requests, 2 pairs, clock to 2, 2 changes | `ExpiredReclaimed`, `DeletedAccountsDrain` |
| `sessions_replayed_ack` | 2 pairs | violation, see below |
| `lockout` | 3 logons, limit 3, lock 2, stale 2 | `LInv`, `BoundedOvershoot`, `SweepSparesLocks`, `LockRunsOut` |
| `lockout_stale_clear` | 2 logons, limit 2 | violation, see below |
| `grants` | 2 requests, 1 account, 1 client, 1 authorization request, 1 browser session, 2 refresh and 2 access tokens, 1 change | `OneHeir`, `AccessFollows`, `GrantsAfterChange`, `CodeUsesCounted`, `LogoutEndsClient`, the invariant `GInv`, refinement of `GrantFamily` |
| `grants_code_twice` | as `grants` | violation, see below |
| `secrets` | 3 requests, 4 secrets | `BoundedReuse`, `SInv`, `NoLateUse` |
| `replicas` | 2 processes, 2 migrations, a rotation while fewer than 2 keys were begun, 1 watched token, 1 fault | `RInv`, `MigrationsInOrder`, `ServesReady`, `OwnTokensVerify`, `PublishedBeforeUse`, and the liveness properties `RotationReachesAll`, `SigningConverges`, `StartupSettles` |
| `onboarding` | 2 requests, 1 tenant, 2 emails, 2 people with 4 assertions | `OInv`, `OneAccountPerIdentity`, `NoHalfLogon`, `DeletedIsFinal`, and the liveness property `LogonsSettle` |
| `social_tenants` | 2 requests, 2 tenants, 1 email, 1 person | violation, see below |
| `gateway` | 1 request, 2 tenants, 2 keys of one prefix, 2 secrets, a client id and the configured one, each with and without padding | `WInv`, `CredentialsConfined`, `HandedOutWorks`, and the liveness property `RevocationDrains` |

Two requests are enough for every race of two statements, and every handler has
at most three; three pairs allow a renewal of a renewed token; two tenants are
what a mix-up of slots needs. `Horizon` bounds when pairs are minted,
`MaxClock` the clock, `MaxChanges` the credential-change transactions of an
account, rolled back or not. The
runs of `TokenSessions` have one client and one email, so they do not tell these
apart; the theorems about it do. The pairs, clients and requests are interchangeable
and no property tells them apart, so the safety runs use symmetry; the liveness runs do not.

In `grants` an id is used once, so two refresh tokens let one exchange win and one
lose, and two access tokens let a second one be minted after the first is gone;
a third generation of tokens repeats the second. In `secrets` four secrets are
the verification token, and three more to replace one another; three requests
let two compete while a third replaces what they compete for. Both stop when
the ids are used up, so their configurations do not check for deadlock.

In `replicas` the properties speak of one token at a time, so one token signed at
any moment by any cache stands for all. Two processes and the operator can have
three keys under way; a third process adds no new pair of steps. `MaxFaults` bounds
deaths and failed reloads together.

In `onboarding` two requests race for every pair of statements and four assertions
let a subject move between emails and an email between subjects; the instance has
no bound on the number of requests made one after the other. In `gateway` requests
meet only in the tables the administrator writes, and the properties speak of one
at a time, so one request at any moment stands for all; each credential is minted
once, and two of each kind let a second take the place of the first. The proofs
have neither bound.

### What the violations say

- **`OldTokenIsDead`** (`sessions_replayed_ack`). README says only the latest
  refresh token of a session can renew. `Acknowledge` is an unconditional upsert,
  so a second or late acknowledge of the first pair puts its refresh token back
  after it was rotated away. What does hold is `RenewOnce`: one win for each time
  a token is put in place.
- **`LockHolds`** (`lockout_stale_clear`). `checkLockout` deletes the row it read
  as expired even if another logon has locked it again since.
- **`CodeOnce`** (`grants_code_twice`). An authorization code is said to be single
  use because the exchange deletes its request. The delete comes last and a row
  already gone is no error, so two exchanges that overlap both succeed. What does
  hold is `CodeUsesCounted`: after the first only those already under way can. An
  exchange that overlaps a password change likewise inserts its tokens after the
  change's DELETEs; what does hold is `GrantsAfterChange`: whatever there is was
  written after the DELETEs of the last change.
- **`TenantsIndependent`** (`social_tenants`). README says "Multi-tenant everywhere".
  The unique key of `social_logins` is (provider, subject) and has no tenant, so a
  person who is linked in one tenant cannot log on with Google in another.

Three more things the models show, and what holds in their place.
A logout does not always sign out. The comment at `oidc_handlers.go:168` says that
ending the browser session alone "would leave every issued token live until it
expired, so signing out would not sign anything out". Yet `Logout` passes the query's
`client_id` to `TerminateSession` whatever it is, and without one, as on the plain
`/logout` page, `DeleteGrants` looks for the client '' and matches no row: the browser
session ends and every token stays live. In the model this is `LogoutRead` with
`c = None`. The browser session is also deleted first, so a failure before the first
DELETE of the grants (`Abort` at `logoutRefresh`) leaves tokens that a repeated logout
cannot find, since only the session knew the account. No run is spent on either: one
request shows them, and no interleaving is needed. What does hold is
`LogoutEndsClient`, for a logout that names a client: its first DELETE leaves nothing
of what the account had there that can be renewed, and its second nothing at all,
but for what an exchange under way inserts after them.
A pair issued under the old password and acknowledged after the change opens a
session: `AnchoredAfterChange` says only that every session was acknowledged after
the `DELETE` of the last change. Reset tokens and logon codes are read, compared and
deleted in separate statements, so requests that overlap may both be accepted:
`BoundedReuse` and `NoLateUse` say that after the first use only requests already
under way can be.

### Fairness

`TokenSessions!Fairness` assumes that the server runs the next statement of a
request it has begun, that the janitor's ticker fires, and that time passes. It
does not assume that anybody calls, retries, or does not crash: `Begin` and
`Abort` have no fairness. `Lockout!FairSpec` assumes only time and the janitor.
`Replicas!Fairness` assumes that a process takes its next startup step and that its
janitor ticks and reads; faults are finitely many. It does not assume that anyone
starts a process again.
`Onboarding!Fairness` assumes that requests go on, that a statement which waits for
a row gets its turn in the end (Postgres queues the waiters of a row, so this is
strong fairness), that clients retry after a server error, and that crashes and
lost connections come to an end. `Gateway!FairSpec` assumes only that a request
that has arrived goes on.

## Proofs

Theorems hold for every value of the constants under the assumptions named in
the modules: `None` is not a pair, a slot or an account; the bounds are natural
numbers; the limit is positive; logons in flight are finitely many.

`TokenSessions`. The property a reader cares about is not inductive: that a
renewal finds its token armed needs that whatever holds a session is armed
(`HolderArmed`), which needs that a pair minted by a renewal under way is private
to it (`MintedPrivate`), which needs that claims, checked once at the start of a
request, still describe the row it writes (`JobsTyped`, `KnownAreMinted`).
`ValidateJustified` needs that deletion is for good (`SeenStillHolds`).
`AnchoredAfterChange` needs that transactions on one account take turns
(`OneTransaction`) and that a running one misses only sessions acknowledged since
its `DELETE` (`UnlockedAreNew`). Their
conjunction is `IInv`; `Invariant` proves it, one lemma per part, and the
theorems `SessionsMatch`, `Anchored`, `Justified`, `OneWinner` follow.
`Implements` maps `owner`, `held`, `holder` to the register's `issued`, `public`,
`holder`: a logon or a renewal's minting is `Issue`, an acknowledge `Grant`, a won
renewal `Exchange`, a lost or abandoned one `Withdraw`, every delete `End`.

`Lockout`. `LInv` is inductive: a failure moves one logon from those past the
gate to the counter, passing the gate needs a counter below the limit, and every
delete restarts the sum. `SweepSpares` assumes `LockFor <= StaleAfter`; the code
does not check that (its defaults are 15 minutes and 24 hours), and a longer
lockout is indeed cut short by the sweep.

`OneTimeSecrets`. What is stored is fresh, so a secret no longer stored is dead for
good (`DeadForGood`). A completed use leaves its secret dead although the row it
deletes may be another one by then (`SpentAreDead`, from `JobsFit` and `Locks`). So
after the first acceptance the users of a secret only become fewer, and each
acceptance takes one of them away (`UsesCounted`): `SecretsInvariant`, `Reuse` and
`LateUse`. `Step` describes every action by what it stores and which request it
moves; the lemmas after it look at that description only. Requests are assumed
finitely many.

`Replicas`. That a process never rejects a token of its own is not inductive: a
reload swaps in what it read earlier, while tokens are signed and keys inserted in
between. `CacheInv` and `TokenInv` nest the sets: the cache and every token signed so
far are within what a reload has read, which is within the table, and what is
signed until the swap comes from the old cache. `MigrationInv` ties the lock to the
processes in `Migrate` and the position of each to the ledger. From `RInv`
(`ReplicasInvariant`) follow `Migrates`, `Ready`, `OwnTokens` and `Published`.

`Onboarding`. The unique keys of the tables speak of committed rows, while the
decisions were taken by statements of transactions still open. So `OInv` adds what
each open transaction has written and that whoever wrote it had waited for the
others (`WritesFit`), and that a request's reads still hold as far as rows only
grow older (`JobsFit`). `ReleaseStep` is the one lemma about letting go of written
rows, committed or not, `WriteStep` the one about writing; every action is an
instance of one of them. From `OInv` (`OnboardingInvariant`) follow `IdentityUnique`,
`LogonsWhole` and the action property `DeletionFinal`.

`Gateway`. `WInv` adds to the two properties that the tables hold exactly what was
handed out and is not gone (`RowsFit`), and what a request has in hand at each step
(`RequestsFit`). The steps of the administrator keep what requests rely on, because
`minted` and `gone` only grow (`Grows`); the steps of a request leave the tables alone
(`RequestStep`). `GatewayInvariant` proves it, `Confined` and `HandedOut` follow. The
assumptions: the credentials are of different kinds, `Trim` is idempotent, the
default tenant exists.

`OidcGrants`. A step moves one request and does one of five things to the tables:
it deletes rows with all that refers to them (`Drops`), inserts one (`Inserts`), ties
a request to an account (`Complete`), locks an account's rows (`Statements`), or lets
go of them, committed or rolled back (`Ends`); there is one lemma about each, and
every action is an instance. What a request has read survives the steps of others
(`Fits`, `FitsKept`) because an id is used once and only an authorization request's
row ever changes (`Evolves`). None of the properties is inductive alone:

- `OneHeir` needs that a request that read a refresh token knows the root of the row
  it will delete (`JobsFit`), and that the root of every row is an id taken
  (`RowsFit`), so that a grant opened now is no older one.
- `AccessFollows` needs that a refresh token just minted is the one exchange's alone
  until its access token is in (`MintedApart`); otherwise it could get two.
- `GrantsAfterChange` needs that a transaction has locked every row of its account
  that was written before its `DELETE`s, that access tokens are locked with their
  refresh tokens, so that a commit does not leave a token behind whose parent it
  deletes, and that transactions on one account take turns (`Transactions`).
- `LogoutEndsClient` needs that the tokens a logout has found keep subject and client,
  that the refresh tokens among them are gone after its first DELETE (`JobsFit`), and
  that an access token has the subject and client of its refresh token
  (`AccessFollows`).

`CodeUsesCounted` is inductive on top of `GInv`: a request that was exchanged is gone
for good, so no new exchange reads it, and `Respond` trades an exchange for a
completion; every other step leaves both numbers or takes exchanges away (`CodeEbb`).

`GInv` is the conjunction of the first three with these parts; `GrantsInvariant`
proves it, `CodesCounted` the count, and `HeirAlone`, `AccessEndsWithRefresh`,
`ChangeEndsGrants` and `LogoutEnds` follow.
`Implements` maps a grant to its live refresh token, or to `Moving` while an exchange
holds it: `Rotate` is `Take`, `MintRefresh` is `Open` or `Pass`, and every other step is
an ebb (`Ebb`), that is `End` of the grants it finishes, if any. The assumptions: the
four tables have ids of their own, `None` is neither an id, an account, a client
nor a row, and requests are finitely many.

Liveness (`ExpiredReclaimed`, `DeletedAccountsDrain`, `LockRunsOut`,
`RotationReachesAll`, `SigningConverges`, `StartupSettles`, `LogonsSettle`,
`RevocationDrains`) is checked by TLC only: the prover handles neither fairness nor
ENABLED.

## Not modelled

Health checks, request decoding, problem details, input formats, configuration,
CORS and rate limits: stateless. bcrypt, sha256, RSA and random tokens are
assumed to do what they say. Google's token check and the OIDC protocol library
are external; the latter appears as the calls it makes on storage.

## Plan

Every safety property the runs check is proved. Left is a composition of both
session surfaces under one credential change: both revokers run in one
transaction, which `TokenSessions` and `OidcGrants` each model for their own tables.
