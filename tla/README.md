# Verification of sa-token

TLA+ modules, TLC configurations and TLAPS proofs for the session, credential and
authorization logic of this repository: `sa-token-core`, the storages it runs on, and
the layers by which web frameworks call it.

## 1. The system

`sa-token-core` is a login framework. An application calls it from many request
handlers at once, each an async task; several processes may share one storage. Most
state lives in the storage behind the trait `SaStorage`, reached through `SaTokenDao`.
A storage call on one key is atomic. Nothing else is: a service method is a sequence
of such calls with an `.await` between any two of them, where another task may run or
where the request future may be dropped. There is no lock around an account.

| Component | State it keeps | Operations | What makes it correct | Hard behaviour | Module |
| --- | --- | --- | --- | --- | --- |
| AuthService, TokenRepo, SessionRepo, LoginCompensator | `token:<t>` body, `token-id:<t>` mapping or a `-4`/`-5` marker, the account's token index, `login:token`, Account-Session | login, logout, kick-out, replacement, renewal, eviction | one live token for an exclusive account; index, session and live tokens agree; a failed login leaves nothing; a revoked token stays revoked | racing logins, read-modify-write, staged writes and compensation, dropped futures | AuthService, AccountTokens |
| what a login stores beside the token | refresh record, Token-Session, presence, distributed session, ban | the stages of `write_login_stages`, `logout_internal`, `kick_out`, `disable`, WebSocket `authenticate` | a login that fails or ends leaves nothing behind; a banned account stays out | stages, undos and removals that fail one by one, a ban between check and write | LoginParts |
| RefreshTokenManager | refresh record, index of an account's refresh tokens | store, validate, refresh, delete, revoke_all_for_user | one access token per refresh token; revocation is complete | two refreshes at once, failure between two of eight writes | RefreshTokens |
| AuthzService, GrantCache, GrantRepo | stored grant lists, sharded cache, single-flight gates, per-request snapshot | get, set, add, remove, clear, invalidate | a cached list is current; one load per gate | stale fill, gate removed while waited for | GrantCache |
| Permission matcher | none | segment_match, matches_all, matches_any | grants what the pattern means | wildcards, bulk against single | Permissions |
| Same-Token | current and past secret | get_token, is_valid, refresh_token | one secret for the cluster; held secrets accepted | refreshes and checks that race, expiry | SameToken |
| NonceManager, RequestSign | a key per nonce | store, consume, verify_params, cleanup | a nonce serves once | TTL against the time window, skewed clocks | Nonces |
| TempTokenManager | token, index by value | create, parse, find, delete | the index names a live token | two keys, retries, expiry | TempTokens |
| OAuth2 server | codes, access and refresh tokens | issue, exchange, refresh, revoke | a code and a refresh token serve once | write-back after a failure, retry | OAuth2 |
| SSO server and client | tickets, client list per login | create, validate, logout with notification | a ticket serves once; logout ends tickets and tells every client | CAS loop, network | Sso |
| Online presence | record per connection, token index, user set | mark online/offline, prune, activity | who is online is listed | three keys, emptiness test and deletion in two calls | Presence |
| Distributed sessions | sessions, index per login | create, update, delete, list | index and sessions agree; a deleted one stays deleted | two locks, or none | DistributedSessions |
| Event bus | listener list | register, clear, publish | every listener hears every event; one that hangs holds up nobody for ever | panics, hanging listeners, dropped publishers | EventBus |
| Memory, Redis, database storage | keys, lists, expiry | get, set, cas, cas_delete, get_del, lists, cleanup | the stores answer alike | lazy purge after an unlock | Backends |
| SaKeys | none | key constructors, scan patterns, parsers | no two things under one key | ids with `:`, two layouts | Keys |
| Router, request context, framework layers | context per task or per thread | run_auth_flow, switch_to, get_login_id | the gate admits whom it should; a handler acts for its own request | a token that ends between two lookups, requests sharing a worker | RequestContext |
| Facade, macros, token generation, JWT, safe, adapters | none, or one key each | forwarding, code generation, cryptography | not state machines | none | none |

How they interact: the facade (`StpUtil`, `SaLogic`, `SaTokenManager`) forwards to
AuthService and AuthzService. AuthService calls the repositories, and around them the
nonce, refresh-token, presence and distributed-session components when they are
enabled. A framework layer calls the router and installs the context the facade reads.
Every component calls the storage; the storage calls nobody. The event bus is told what
happened and changes nothing.

`PROJECT.json` lists every component with its status and, under "hazards", the places
that are hard to test.

## 2. What is modelled

Common to all modules: one action is one storage call (or one section under a lock)
with the local computation around it, named for the call or the code's step; a task's
program counter `pc[t]` is the call it makes next. Variables marked "history" in the
modules record what happened for the properties, and which names are already in use.

### `AuthService.tla`: one account, any number of tasks

The storage is five variables:

| Variable | Key in the code |
| --- | --- |
| `body` | the set of tokens whose `token:<t>` is stored |
| `tokenId[t]` | `token-id:<t>`: absent, the identity, or the marker of a kick-out / replacement |
| `index` | the account's login-token index, a sequence, oldest first |
| `session` | the Account-Session: whether it exists and the tokens of its terminals |
| `mapping` | `login:token`, the commit point of an exclusive login |

`tok`, `before`, `snap`, `comp`, `cur`, `mode`, `ident`, `ret`, `local`, `targets`,
`probe`, `alive` and `evict` are the local variables of the methods a task is in: the
token a login creates, `mapping_before`, the compensator with its snapshot and its
registered steps, the arguments and the caller of `logout_internal`, what a
read-modify-write has read, and the lists the loops walk. `ret` is the return address:
`logout_internal`, `prune_index` and `collect_account_tokens` are each modelled once
and entered from several callers. `used`, `device`, `committed`, `rolledBack` and
`must` record history for the properties. `config` is one element of the constant
`Configs`, chosen once: a run can cover several configurations, and a property says
which ones it speaks of.

- **login**: `Login` (the generator draws a token; a value is drawn once),
  `ReadShare` to `CheckShareBody` (is_share), `ReadBefore`, the replacement of
  `handle_replaced_on_login` (`ListTerminals` or `ListTokens`, `AddMappingTarget`,
  `ReplaceOne`, `ReplaceDone`), the staged writes of `write_login_stages`
  (`AppendIndex`, `Snapshot`, `ReadSession`, `SaveSession`, `SaveTokenId`, `SaveBody`),
  each registering its inverse, the commit (`CommitConcurrent`, `CommitCas`,
  `CasRefused`, `CommitAbsent`, `CasLost`) and the compensation (`Rollback`,
  `RolledBack`).
- **logout_internal**: `ResolveBody` to `CasDelete`; entered by `Logout`,
  `KickOutByToken`, `ReplacedByToken`, by the replacement loop, by an eviction and by
  the account-wide calls. `RangeBody` and `RangeId` are the account lookup of
  `logout_range = Account`.
- **prune_index**, **enforce_max_login_count**, **collect_account_tokens**:
  `ListIndex` to `PruneDone`, `Enforce` to `EvictDone`, `Collect` to `MappingFallback`.
- **renewal**: `Renew` to `RenewWriteBody`.
- **errors and dropped futures**: `Fault` makes the call at `pc[p]` fail without
  effect and goes on where the code goes on (`OnError`); `UndoFault`, `ProbeFault` and
  `PruneFault` are the errors that are swallowed inside a loop; `Crash` drops the task.
  `MayFail` names the calls that may fail in a run, `MayCrash` allows drops.

A token is *live* when its login has committed, its body is stored and its token-id is
not a marker: exactly what `load_token_info_no_renew` checks before a request is let
in. All properties speak of live tokens, not of keys.

Left out of these flows: the ban, refresh-record, Token-Session, presence and
distributed-session steps of a login or logout (see LoginParts) and its nonce (see
Nonces); expiry of keys
(`timeout = -1`); the frozen (active-timeout) check; a client-supplied token; and the
paging of the key scan that stands in for a missing index, which is one step here.

### `AccountTokens.tla`: what the service promises

The abstract specification, with no key in it: a token is granted at most once, a
live token can be revoked once, and an exclusive account is granted a token only when
it has no live one. `AuthService!ImplementsAccount` instantiates it with
`granted <- committed`, `live <- Live`; every staged write, replacement step and
compensation is then a stutter, a `Grant` or a `Revoke`.

### `RefreshTokens.tla`: refresh tokens of one user

The record of each refresh token, the per-user index (`userIndex`, one per account
type), and the account's token keys as in AuthService (`body`, `tokenId`, `index`,
`mapping`, the last two per account type). A task runs one of four calls, one storage
call per action:

- **login**: `Login` stands for the writes before `store_with_extra`, then
  `StoreRecord`, `PushUserIndex`, `Commit`; `LoginFails` is the compensation, which
  undoes the record only once `store_with_extra` has returned and never the user index.
- **refresh_access_token**: `Validate` and `ReadRecord` (two reads of the record), then
  the eight writes `SaveBody` to `SaveRecord`, in the code's order.
- **delete** and **revoke_all_for_user**: `ReadForDelete`, `Unlist`, `DeleteRecord`;
  `ListUser`, `RevokeOne`, `RevokeDone`, `DropUserIndex`. `ret` tells delete whether a
  caller, a revocation or an expired `Validate` waits for it.
- **around them**: `Logout` is a whole `logout_internal` in one step (AuthService splits
  it); `Expire` passes the record's `expire_time`, `DropRecord` ends its TTL; `Abort`
  breaks any call off between two storage calls.

History: `source` and `loginType` tell for which refresh token an access token was
created and which account type logged in; `superseded`, `revoked`, `ended` what calls
have answered; `contended` the refresh tokens that overlapping or broken-off calls have
touched, and `late` whether a call began after the expiry. `Settled` refresh tokens are
returned by a login, not contended and not in use. Access tokens do not expire here and
logins are concurrent.

### `GrantCache.tla`: permission and role lists behind two caches

`AuthzService` over `GrantRepo`: the stored list of each key (a kind and an account), one
shard of the process-wide cache (`cache`, with `dead` for the entries past their
`expires_at`), the shard's flight table (`table` names the gate of a key, `holder` who
has locked a gate) and the snapshot of each request (`scope`). A task is a request and
makes one call at a time; a section under a shard's lock is one action, as is a storage
call. Keys of other shards share nothing with these.

- **read** (`AuthzService::load`, `get_or_load`): `Read`, `PeekHit` or `PeekMiss`,
  `TakeGate`, `Recheck` (locks the gate and looks again), `Fetch` or `FetchFails`, `Put`
  with its `Evictions`, `Release`. With `singleFlight` off a miss goes straight to
  `Fetch`.
- **write**: `SetGrants` (clear is set to the empty list), `AddGrant`, `RemoveGrant`; the
  latter two read the list (`ReadList`) and write it whole (`WriteList`). `after_write`
  is `InvalidatePermission` and `InvalidateRole`: two sections under the lock, the
  second with the request's snapshot. `InvalidateAccount` is these two without a write.
- **around them**: `InvalidateAll`, `Expire`, `EndRequest`, `WriteFails` (an error without
  effect), `Cancel` (a request dropped inside `get_or_load`: its lock is freed, its entry
  in the flight table stays) and `AbandonWrite` (dropped once the storage has the list
  and before the cache is told).

History: `stale` and `suspect` follow a list that a write has overtaken between its fetch
and its put, `excused` the reads that met one, `seen` the lists a key has had since a read
began, `own` what the request last wrote, `disturbed` the keys that were invalidated,
expired, evicted, or whose load failed.

Left out: a custom `StpInterface`, `grant_cache` and `grant_request_scope` switched off
(a request that ends after every call covers the latter), and the event after a write.

### `LoginParts.tla`: what a login stores beside the token

One account that may be logged in many times. `parts[p]` is the set of tokens that have
part `p`: list entry, identity mapping, body, Token-Session, refresh record, presence,
distributed session.

- **login**: `LoginCall`, `CheckBan`, then `LoginStages` and `WriteStage` (one stage per
  step; one may fail, the refresh record half-way, `StageFails`) and `CommitMapping`, which
  may fail or lose its CAS; `Undo` (the inverse of each completed stage, in reverse, where
  one that fails is passed over), and after the commit `GoOnline` and `Share`, whose failure
  is ignored as in the code.
- **logout_internal**: `LogoutToken`, `Identify`, then `Clean`, one part per step
  (`CleanNext`): an error at the body or the mapping ends the revocation (`GiveUp`), any
  other is logged, the part stays and the call goes on.
- **kick_out**: `KickOut`, `GoOffline` (presence of the whole account, before any token),
  `CollectTokens` (the list, pruned of entries without a body as far as the probes and
  removals succeed; where that leaves none, a scan and then the mapping, `Fallback`),
  `CollectFails`, and `NextToken`, which goes on after a token whose revocation failed.
- **around them**: `Disable` and `UntieDisable`, `WsAuthenticate` with `Connect`,
  `GetTokenSession` with `KeepSession`: calls that store something for a token they
  found valid a step earlier.

A storage call that fails has no effect, but for that of the refresh record. `lost[p]` has
the tokens of which a failed call left part `p`, `missed` those that a failed call kept from
a kick-out.

### The services

Each of these modules EXTENDS `Requests.tla` (tasks with a label, the bound on calls,
dropped requests) and has its own state prefix, so that one instance can hold them all.

- **`SameToken.tla`**: the current and the grace value, two keys with TTLs.
  `GetToken`/`Store` (create when absent), `RefreshToken` to `Reread` (read, save the grace
  value, CAS, read the winner), `IsValid` with `CheckSecret` (two reads).
- **`Sso.tla`**: tickets, the session with its services, single logout.
  `CreateTicket`, `ReadSession`/`CasSession` (the CAS loop), `Redeem`, `CheckSession`,
  `Preview`, `Consume`, at the server and through `LocalTicketChecker`;
  `LogoutWithSlo`, `ListClients`, `RemoveSession`, `EndTokens`, `NotifyLogout`.
- **`OAuth2.tla`**: codes with their PKCE method, access and refresh tokens.
  `IssueCode`, `Exchange` (which requests `Fits` lets through), `ConsumeCode`,
  `DirectGrant`, `SaveAccess`/`SaveRefresh`, `RefreshGrant`, `TakeRefresh`, `SaveFails`
  with `WriteBack`, `DeleteOld`, `RevokeToken`, `ExpireGrant`.
- **`DistributedSessions.tla`**: both storages. In memory: `PutSession`, `PutIndex`,
  `DropSession`, `Unlist`, `List`, `CollectInMemory` under the two locks the code takes;
  stored: one key per step (`Find`, `Count`, `DropList`, `Collect`, `Prune`). Updates read
  a session and write it whole.
- **`TempTokens.tla`**: `Create`, `ClaimTemp` (set_if_absent, with retries), `SaveName`,
  `ReadTemp` (parse and find), `DeleteTemp`, `DropName`, `DropTemp`, `ExpireTemp`.
- **`Nonces.tla`**: time in ticks, `Second` ticks to a second. `CreateSigned`,
  `VerifyParams` (the window, in whole seconds), `ClaimNonce`, `CompareSign`; login nonces
  with `StoreNonce`, `ConsumeNonce` and the cleanup scan (`CleanupNonces` to `ScanDone`).
- **`Presence.tla`**: `MarkOnline` (`SaveItem`, `PushToken`, `PushUser`), `MarkOffline`
  (`OffItem`, `OffToken`, `CountTokens`, `DropIndex`, `DropUser`), `MarkOfflineAll`,
  `PruneIndex`, `UpdateActivity`.
- **`EventBus.tla`**: the listener list and an event's snapshot of it; a listener runs in
  a task of its own (`Invoke`, `CallTyped`, `ListenerEnds`), the publisher waits for one,
  for all or for none (`Due`, `Published`), and may be dropped. A listener panics
  (`ListenerEnds`), or hangs until its timeout, if one is set (`TimedOut`).
- **`Backends.tla`**: each scalar and list call made to Redis and to the in-memory map or
  the database at once; `Get` with its `Purge` in a later step.
- **`Permissions.tla`**, **`Keys.tla`**: pure functions. A behaviour chooses the inputs
  and asks once; `Meaning` is what a pattern stands for, written without the algorithm,
  and `KeyOf` goes through every key constructor. `FiledType`: what is online is filed with
  the global keys for each of the default types, in both layouts.
- **`RequestContext.tla`**: `Arrive` (`ReadToken`, `NeedAuth`), `CheckToken` and `GetInfo`
  (the two lookups of `process_auth`), `Decide`, then the handler: `SwitchTo`, `EndSwitch`,
  `GetLoginId`, and `Respond`. The layers `Axum` to `Rocket` differ in whether they take
  path rules and in what they bind a context to. `Meant` is what the comment at
  `router.rs:22-27` and `path-auth.md` say a pattern means. `Stretched` are the paths on which
  `match_path`, which compares the prefix without its slash, can say otherwise; a request
  that brings no such path is `plain` (`Brought`).

### The other modules

`AuthServiceInv.tla` has the inductive invariants of the account proofs. `MCAuth`,
`MCRefresh`, `MCGrant`, `MCLogins`, `MCContext` and `MCServices` are the instances; `MCDrops` bounds
the dropped requests of AuthService to one in a behaviour. The services share
no keys and do not call one another, so `MCServices` takes them one at a time: `focus` is
the service a behaviour is about, and the rest keeps its initial state. Where tokens or
sessions are interchangeable they are numbers drawn in order (`InOrder`), which is the
symmetry of the specification made explicit.

## 3. The runs

| Run | Instance | Properties |
| --- | --- | --- |
| exclusive | 2 tasks, 2 tokens, login, logout, kick_out, one task may be dropped anywhere; errors in saving a body and pruning | `LiveIsMapped`, `CleanRollback`, `RevokedForever`, and refinement of `AccountTokens` (`ImplementsAccount`) |
| renewals | 2 tasks, 2 tokens, both exit modes, login, renew, kick_out_by_token; compensations, markers and terminal counts may fail | `KickedOutForever` (a stale write-back is refused by its marker); no deadlock |
| sequential | 1 task, 3 tokens, 2 device types, 6 configurations, every call but renewal; probes may fail | `QuietAgreement`, `LoginLimits`, `AccountCallComplete`, `LoginReturnsLive` |
| refresh_race | 2 tasks, 4 access and 2 refresh tokens, at most 4 calls, failures anywhere, expiry | `SupersededDead`, `OneAccessPerLogin`, `RefreshSynchronised`, `RevokedStaysRevoked`, `NoLateGrant` |
| grant_cache | 3 requests, 1 account with both kinds of key, 1 grant, 4 gates, shard capacity 1, at most 3 calls, single-flight on and off, failures and drops | `CacheCurrent`, `ReadRecent`, `ReadYourWrites`, `Bounded`, `OneLoad` |
| services | 12 services, one at a time: 2 tasks, 4 calls (`MaxCalls`; 3 for nonces, sessions and contexts, whose calls take many steps or many forms: `Long`, `LongCalls`), failures, drops, expiry | see the next table |
| logins | LoginParts: 2 tasks, 2 tokens, at most 3 calls; any stage or commit fails, one removal fails (`OneLoss`) or tasks are dropped | `NothingLeft` (a token that is over has left only what its own failed removals left), `BanKeepsOut` (ban, then kick-out: nobody is in but who was logging in meanwhile and whose revocation failed) |
| new_device_lockout, renew_logout, same_token_grace, session_deadlock, rocket_context | the smallest instance that shows it | a violation each, see below |

The properties of **services**:

| Service | Property | In words |
| --- | --- | --- |
| SameToken | `SecretNotSplit`, `HeldIsAccepted` | callers get secrets the cluster used; a secret held all along is not refused by a check that a rotation overtakes |
| Sso | `TicketOnce`, `SloEndsTickets`, `LogoutTellsAll` | a ticket logs in once, not after its session ended; a logout tells each service whose ticket was complete |
| OAuth2 | `OnePairPerGrant` | one credential of a grant that can become tokens; one access token between undisturbed calls |
| DistributedSessions | `IndexAgrees`, `DeletedStaysDeleted` | in memory, index and sessions agree whenever the lock is free; undisturbed deletions last |
| TempTokens | `IndexNamesLive` | what find_token returns can be parsed |
| Nonces | `ClaimedOnce` | a nonce that was claimed is refused as long as its claim is kept, whatever stalls |
| Presence | `OnlineIsListed` | a connection marked online is found by every way to look for it |
| Backends | `BackendsAgree` | each store answers as Redis does |
| Permissions | `GrantsWhatIsOwned` | one or many permissions, a check grants what the patterns mean |
| EventBus | `EveryListenerHears`, `HangingIsCut` | an event has reached all its listeners when publish returns; with the timeout set the bus never waits for a listener alone |
| Keys | `KeysApart` | no two things under one key, no scan finds another's |
| RequestContext | `GateIsExact`, `ActsAsItself` | on plain paths the gate guards what the patterns mean; a handler acts for its own request |

**Why the bounds are enough to be interesting.** Two logins suffice to race at the
commit point; with one drop or a compensation, one of them leaves stages behind for the
other. Two tokens suffice for one live and one newcomer; three for a limit of two to be
passed. A token is drawn once, so the number of tokens bounds the logins, which is why
runs other than renewals (where a renewal is always possible once a login has committed)
stop: their cfg turns the deadlock check off. In RefreshTokens four calls are a login with
two refreshes of its token in turn or at once beside a logout, or two logins, a refresh
and a revocation. In GrantCache a capacity of one makes the two keys of one account evict
each other, three calls are two loads beside a write, or a failed load, a waiter and a
newcomer, and four gates are more than three calls can take. Among the services two tasks
are enough for every race named in "hazards": a check against a rotation, a redemption
against a logout, a push against an emptiness test. Four calls put a third and a fourth
after them (three secrets in a row; a code, its exchange, a refresh and a revocation). Long calls
come in threes: two claims and a cleanup; a create, an update
and a deletion; two requests on one worker and what one of them asks. `MaxTime` is two windows, `LastSecond` past two TTLs; permissions
have at most two segments, and the bus's list two entries
(`MaxListed`). With one worker every two requests share it.
In logins three calls are two logins and a logout or a kick-out of one of them (a ban is no
call), and one failing removal is enough: the properties allow for exactly the part or the
token it costs, and what they deny is that it costs another. In events two listeners are one that
hangs and one that waits for it.

**Fairness and progress.** `DsFairSpec` (DistributedSessions, run session_deadlock) assumes
weak fairness of the steps of each started call: the runtime polls a woken task, and a lock
that is free is given. It assumes nothing of the start of a call, of failures or of drops.
The loops of the other modules run over lists that a task holds for itself, or end after a
number of attempts, and every call of theirs returns by the shape of the code, so no property
says so. The event bus waits for code that is not its own: `HangingIsCut` says that in every
state the bus has a step to take for an event under way. Each of its steps moves a listener or the
publisher forward and none moves one back, so where the runtime polls the bus's tasks and fires
its timers every publish comes to its end, whatever the listeners do.

**Mutants.** `PROJECT.json` names for each property a mutated definition, in the
component's module just before the one it stands in for and marked "Mutant": a CAS
that does not compare, a logout that keeps the body, an eviction off by one, and so on.
Each property fails under its mutant.

### What the code does otherwise than it says

- **new_device_lockout.** With `replaced_login_exit_mode = NewDevice`, a login is
  refused when any token is mapped, and only a plain logout deletes the mapping
  (`auth_service.rs:620`). After a kick-out the account has no live token and every
  login is refused. `RefusedOnlyWhenLoggedIn` states what `config.rs` says ("keep the
  old device").
- **renew_logout.** A renewal writes back the body it validated earlier
  (`auth_service.rs:791`, `token_repo.rs:354`). A logout in between has deleted body
  and reverse mapping, so the token authenticates again. Kick-outs and replacements
  are safe: their marker is checked first (`KickedOutForever`).
- **same_token_grace.** A refresh saves the value it read as the grace value before its
  CAS decides (`same_token.rs:89`). A slower refresh overwrites the grace value with an
  older secret, and the one just replaced is refused (`GraceAccepted`).
- **session_deadlock.** `get_sessions_by_login_id` locks the index and then the sessions,
  `save_session` the other way round (`distributed.rs:1051` and `:964`): both wait for
  ever (`SessionCallsReturn`).
- **rocket_context.** The Rocket layer puts a request's context into a thread-local of the
  worker (`layer.rs:44`), which the next request polled there overwrites and the next
  response clears: a handler asks who is calling and hears of another request
  (`ActsAsItself`). The eight other layers bind it to the task.

Other behaviours of the code that bound what the passing runs claim; TLC exhibits each of
those that a module models when the condition that excludes it is dropped:

Account tokens, refresh tokens and grants:

- two overlapping refreshes of one refresh token each create an access token; the record
  keeps one of them and the other stays live (`OneAccessPerLogin` speaks of calls made
  in turn), and so does the one a broken-off refresh has written;
- a refresh that overlaps a delete or a revocation writes the record back after it;
  `revoke_all_for_user` deletes the index together with what a login pushed onto it
  meanwhile, and may return while another revocation has unlisted but not yet deleted a
  record (`RevokedStaysRevoked` leaves these out through `contended`);
- `refresh_access_token` files the new access token under `LOGIN_TYPE_DEFAULT`
  (`refresh.rs:258`); the record does not keep the login's type. Refreshing a login of another
  type leaves that type's index and mapping on the access token just deleted, against the
  comment above it: with a second type in `LoginTypes`, `RefreshSynchronised` fails after
  one login and one refresh;
- a login whose push onto the user index fails leaves its refresh record stored, and so does an
  error of the deletion of that index in `revoke_all_for_user` (`refresh.rs:325`) the list;
- neither a logout nor a kick-out touches the refresh record: a refresh afterwards
  creates a live access token, and removes the marker of the one that was kicked out;
- single-flight does not outlive a disturbance: `release_flight` removes whatever gate
  the table names (`grant_cache.rs:243`). After a failed load, or an invalidation during
  one, a waiter of the old gate and a newcomer with a new one load the key together,
  although `config.rs:203` says "concurrent misses on the same key trigger only one
  underlying load" (`OneLoad` speaks of keys not disturbed);
- a load that a write and its invalidation overtake puts the old list into the cache,
  where it stays up to the TTL, and so does an entry whose writer was dropped before
  `after_write` (`CacheCurrent` and `ReadRecent` leave out exactly these);
- two racing `add_*` or `remove_*` of one list lose one of the changes;
- two racing first logins of an is_share account get a token each;
- two racing logins of one device type both stay live under `CurrDeviceType`, because
  `add_terminal` rewrites the session from an earlier read;
- a compensation restores the session it had read, and a racing `add_terminal` can
  write back the terminal of a login that was rolled back; `CleanRollback` therefore
  speaks of body, identity, index and mapping, not of terminals;
- `prune_index` removes the entry of a login in flight whose body is not yet stored;
  that token is then counted by no limit and, while another entry is alive, found by no
  account-wide call (the sequential run has one task);
- an eviction that goes through `logout()` with `logout_range = Account` ends the
  login that caused it; the configurations of the sequential run combine
  `logout_range = Account` only with other overflow modes;
- when deleting the body of a replaced token fails, `handle_replaced_on_login` logs the
  error and the login goes on beside the old token; and when a probe of `prune_index`
  fails, an account-wide call works on a token whose login has not stored its body
  yet. Both are excluded by `ExclusiveConfig`.

What a login stores beside the token:

- presence, distributed session, Token-Session and WebSocket entries stored after a
  racing revocation of their token stay behind (`excused`), and a failed stage of the
  refresh record leaves the record; a logout deletes neither refresh record nor safe keys;
- the pruning of a kick-out can unlist a login in progress; `refresh_access_token` does
  not look at the ban;
- `logout_internal` answers Ok with Token-Session, list entry, distributed session or presence
  left where their removal failed (`auth_service.rs:576`, `:601`, `:628`, `:634`), and an error at body
  or mapping ends it with all that was still to come; the rollback of a login passes over a
  compensation that fails (`compensate.rs:157`); nobody retries either (`lost`);
- `kick_out` and `logout_by_login_id` log a token whose revocation failed and answer Ok while it
  stays logged in (`auth_service.rs:736-746`), and so does one whose list holds but entries of
  which a probe failed (`missed`).

One-time credentials and secrets:

- `LocalTicketChecker` consumes a ticket without asking for its session, and a new login
  of the same user makes old tickets redeemable again (`SloEndsTickets` speaks of the
  server and of users without a new session); consuming for the wrong service burns the
  ticket there; a single logout whose token logout fails notifies nobody;
- the write-back of a failed refresh can bring back a revoked OAuth2 refresh token, and
  when deleting the old access token fails, the client never hears of the new pair;
- deleting an older temporary token removes the index of its value, also when that
  names a newer one; the value is then found by no one until it is created again;
- a request's nonce is consumed before its signature is compared, so a forged request
  uses it up. A timestamp is accepted up to `window_secs` away from now, in whole seconds and
  on either side (`sign.rs:109`), while the record of the nonce is kept for `window_secs` from
  the claim (`sign.rs:117-120`): in the last fraction of a second of the window, for up to
  another window where the signer's clock is ahead, and for a verification that stalls
  between the two, the same request is accepted again, though `sign.rs:46` says "nonce values
  can be consumed once". `ClaimedOnce` speaks of the time a claim is kept.

Presence, sessions, events:

- the set of users holds login ids without their type, so that the last connection of
  one type takes the id away from another's (`hidden`); the TTL of the index is not
  renewed by activity; a mark_online between the emptiness test of a mark_offline and its
  deletion is lost; `update_activity` can bring a record back;
- a request dropped between the two maps of the in-memory session store leaves them apart
  (`torn`); an update that races a deletion writes the session back; in the stored one a
  session pushed between the emptiness test and the deletion of the index is not listed;
- a dropped sequential publisher starts no further listener; events of a detached bus are
  not ordered.

Storages and keys:

- the purge of an expired entry can delete a value written since; deleting a list by its
  key works in memory and not on Redis, which stores lists under keys of their own; an
  emptied list in memory keeps its old expiry; `incr` drops the TTL in memory; on Redis a
  CAS that expects nothing matches `""`, and a TTL under a second means none; the database
  refuses atomic and list calls;
- under `JavaFourSegment` `session_by_ns` is an error and every login fails in that layout;
  ids of the default type are not escaped, and one with a `:` can equal a named type's key;
  an id that contains `%3A` collides with the escaped one, and the login id `index` with
  the presence index; under `JavaFourSegment` the session of `login:token:1` of type `a` and
  the login token of `1` of type `a:session` have one key; the category scans of refresh, online and distributed sessions also
  match their indexes.

Requests:

- in warp's `with_sa_token_scope` the inner filter has run before the scope is entered,
  so it sees no context, and `sa_token_layer` installs an empty one;
- `set_current` called inside a scope with that scope's own handle takes its lock twice
  and blocks;
- `match_path` compares the prefix of a pattern without its slash (`router.rs:41`, `:49`), so
  `/api/*` takes `/apix` and `/api/**` takes `/apix/y`, and a site that excludes `/api/*` opens
  `/apix`. `router.rs:24-25` says "starting with `/api/`" and "single-level paths under `/api/`",
  `path-auth.md:35` "One segment under `/api`"; `path-auth.md:34`, however, calls `/api/**` "Prefix
  `/api`". Both patterns take `/api` itself. `GateIsExact` speaks of requests on whose
  path no rule is stretched in this way (`plain`), and fails with that condition dropped;
- the first place that carries anything decides, also when it lacks the configured prefix.

## 4. The proofs

Eight modules hold theorems. Each proves `Spec => []Inv` for every value of the constants:
any number of tasks, tokens, keys, calls and values. The argument is the same throughout.
The property is not inductive; a conjunction of named parts is, and implies it; one lemma
says it holds at first, one that every step keeps it, with one step of the proof per action
and below it one per conjunct that the action disturbs; the theorem combines them. TLC
checked each of these invariants on the instance of a run before it was proved.

### The account

`AuthServiceProofs.tla`, `TypeCorrect`: `Spec => []TypeOK`. `TypeOK` is not inductive:
`Front` of an empty compensator, `Head` of an empty probe list or the index of an
eviction's limit would be ill-typed. `Holding` adds what a task holds at each label;
`TypeInv == TypeOK /\ Holding` is inductive.

`AuthExclusiveProofs.tla`, `ExclusiveCorrect`: under `ExclusiveConfig`,
`Spec => [](AtMostOneLive /\ LiveIsMapped)`, with logins, all kinds of logout and kick-out,
dropped futures, and errors in every call but the four named in `ExclusiveConfig`. The
argument, as conjuncts of `ExclusiveInv`:

1. `TokensInv`: a login's token is drawn from nowhere else and held by one task.
2. `ControlInv`: which labels a task with and without a token can be at.
3. `BornInv`: a token is *unborn* until its own login writes its body. Nobody lists,
   collects, replaces or logs out an unborn token; so a body once deleted by a logout
   that is past that step is never written again.
4. `ReplacedInv`: a login that may still commit over the token it found mapped has
   that token on its list of targets, or is logging it out, or it has no body any more.
5. `MappedInv`: every committed token with a body is the mapped one. A commit by CAS
   from `before` is safe by 4; one by CAS from absence is safe since then, by
   `MappedInv`, no committed token has a body.

`MappedInv` alone is not inductive: the commit needs 4, whose preservation by the other
tasks' logouts needs 3, which needs 1 and 2.

`AccountCorrect` goes on from there to two temporal statements about steps.
`RevokedForever`: only a commit and the writes of a login in flight make a token usable, and
they never work on a committed one. `ImplementsAccount`: a commit is a `Grant` of
`AccountTokens` (no other token is live then, by `MappedInv` and `ReplacedInv`); every other
step takes at most one token from `Live`, so it is a `Revoke` or a stutter.

`AuthServiceProofs.tla` also speaks of every configuration. `OwnedInv`: a token is drawn
once, belongs to one task, and is committed or given back but never both.

- `RollbackCorrect` (`CleanRollback`), where no compensation itself fails: `Compensated`
  says that each write of a login in flight has its inverse on the compensator's list, and
  `NoRepeats` that the index names a token once, so that one `list_remove` undoes one push.
- `KickOutCorrect` (`KickedOutForever`), under `MarkingConfig`: `MarkingInv` says that no
  task at a step that removes or marks a token-id does so on behalf of a plain logout, so a
  marker stays whatever bodies renewals write back.

`AuthSequentialProofs.tla` is about one task under `SequentialConfig`, for any number of
tokens, device types and any limit. `QuietAgreement` speaks of the moments between two calls
alone and says nothing of a step within one. `SequentialInv` says what holds at every label:

- Every token is *in* (body, token-id, index, Account-Session, committed) or *out* of all of
  them, but the one a task is changing (`Agreed`). Of that one, `Staged` says which parts each
  stage of a login has written, and `LoggedOut` which parts each step of `logout_internal`
  has taken away.
- `Listed`: `prune_index` finds every entry alive, and the newest is the login's own, which
  an eviction therefore spares. `Found`, `Replaced`: the token a login found mapped is mapped
  still, and every token it has to replace is on its list until it is out. `Swept`: an
  account-wide call has every stored body still before it.
- `Within`: what an eviction leaves (`Kept`) is no more than the limit. This counts: one lemma,
  `OldestEvicted`, says how many the entries are that `enforce_max_login_count` keeps of a list
  that names each token once, `KeptShrinks` that a step of the eviction adds none. `Shared`: a
  sharing account has the mapped token live at most.

`SequentialCorrect` (`QuietAgreement`, `LoginLimits`) reads these off at the label "idle";
`CallsCorrect` (`AccountCallComplete`, `LoginReturnsLive`) off the step that goes there.

### Refresh tokens and grants

`RefreshProofs.tla`, `RefreshCorrect` (types, `SupersededDead`). `RotationInv` adds that a
token being created has one creator (`OneCreator`), that a refresh only ever reads as its old
token one whose creator has finished (`Phases`, `ReadOnlyFinished`: a record names a token
only after the login or refresh that created it is done writing), and that a rotation past a
write has undone the old token's (`Unhooked`). So nobody writes a token again once it is
superseded.

`LoginsCorrect` (`OneAccessPerLogin`, `RevokedStaysRevoked`, `NoLateGrant`) and
`SynchronisedCorrect` (`RefreshSynchronised`) rest on `LoginInv`, which adds to `RotationInv`
what holds of refresh tokens on which calls did not overlap. `Apart`: of two calls on one
refresh token, and of two revocations, neither relies on it. From there:
`LiveInCall` and `OneLive` say which access tokens of a login are live at each write of a
rotation and that outside one there is the one its record names; `StillPushed` that a
record is in its user's index until the deletion that is at it, so that `StillToRevoke` has
each token a revocation answers for still before it, and `RevokedForGood` that no rotation is
left to write it back; `TooLate` that a call that began after the expiry gets no further than
deleting the record; `Written` and `RecordWorks` that body, identity and index entry
of a login stand until a logout or a refresh ends them.

`GrantProofs.tla` has three theorems. `OneLoadCorrect` (types, `OneLoad`)
follows from `GateInv`: a task that loads holds its gate (`LoaderHolds`), a locked gate
belongs to a task inside `get_or_load` (`LockLocated`), and until the
list of an undisturbed key is cached all its tasks are at the one gate the table names
(`OneGateOf`), so two loaders would hold one lock. `ReadsCorrect` (`CacheCurrent`,
`ReadRecent`, `ReadYourWrites`) follows from `DataInv`: a fetched list is the stored one
or its task is marked `stale` (`FetchedCurrent`), the stored list is always among those a
reader has seen (`SeenCurrent`), and what a request owns is stored and is what its
snapshot holds, except while its own write is being settled (`OwnStored`, `ScopeOwn`).
`BoundedCorrect` counts: `put` removes at least as many entries as it adds once the shard
is full.

### Credentials: `CredentialProofs.tla`

- `SameTokenCorrect` (types, `SecretNotSplit`, `HeldIsAccepted`). `Known`: a secret is
  minted before it is installed and installed before a caller is answered with it. `Asking`:
  once an `is_valid` has seen that its secret is not the current one, a secret held all along
  is the grace value, and stays so: only a rotation can overtake that check, and it installs
  a secret nobody could ask about yet.
- `SsoCorrect` (types, `TicketOnce`, `SloEndsTickets`, `LogoutTellsAll`). `Requested` says
  what a request carries at each label; `OneLife` that a ticket that was redeemed is gone for
  good, since a ticket is stored once, by its own creation; `Ended` that the user of a ticket
  voided by a logout has no session, so that a redemption at the server that is barred never
  gets past its look at the session; `Owed` that a logout, once it has taken the client list,
  still has in hand every service whose ticket was complete before.
- `OAuth2Correct` (types, `OnePairPerGrant`). `Working` says what a request holds at each
  label, `Granted` that every stored credential belongs to a grant that was given.
  `Undisturbed` is about grants no two requests have worked on at once and no failure has
  touched: one task at a time works on such a grant (`Alone`), it has at most one pair when
  nobody does (`Rested`), and `Worked` says what is left of the pair at each step of the
  exchange, refresh or revocation that does.
- `TempTokensCorrect` (types, `IndexNamesLive`). `Naming`: a create writes an index only
  for a token it has stored and that nobody can know of yet, so none deletes it. `Unnaming`: by
  the time a deletion removes the record, no index names the token.
- `NoncesCorrect` (`ClaimedOnce`). `KeptForTtl`: a claim is stored from the claim to the end
  of its time to live, whoever else claims, compares or cleans up; a second claim within that
  time finds it. It says nothing of the time after (section 3).

### Beside a login: `SessionProofs.tla`

- `SessionsCorrect` (types, `IndexAgrees`, `DeletedStaysDeleted`). In memory, the holder of
  the sessions lock is the one task between the two maps (`Locks`), and they agree but for the
  session it is at (`Agreement`). In either storage, on logins whose calls did not overlap
  (`Overlap`): a stored session is listed or about to be (`Findable`), an entry or a list
  about to go is not needed any more (`Unlisting`), and so a deletion has what it must delete
  still before it (`Remaining`).
- `PresenceCorrect` (types, `OnlineIsListed`). `Sound`: what a mark_online has written so far
  stands while no task is left that had decided to drop it; `Settled`: none is once it returns.
- `LoginPartsCorrect` (types, `NothingLeft`, `BanKeepsOut`). For `NothingLeft`: a login's
  token is known to nobody else before its body is written (`Early`), removal takes the body
  before the list entry (`BodyFirst`), a task that cleans a token has it for itself and what
  it cleaned stays clean (`CleanedParts`), a login has stored no more than its stage says
  (`StoredParts`); each up to the parts in `lost`. For `BanKeepsOut`: every token with a body is
  listed, but those logged in meanwhile and those a failure has cost (`AllListed`), so a
  kick-out under the ban has all that must go before it (`BeforeIt`).

### Services a request passes through: `ServiceProofs.tla`

- `ContextCorrect` (`GateIsExact`, `ActsAsItself`), under `Regular` and `Scoped`. The
  pattern matcher of `router.rs` is compared element by element with `Meant`, for patterns and
  paths of any length on which none is stretched (`Begins`, `GoesOn`, `PatternMeans`); `OwnContext` says that the context of a request inside its handler
  is its own and `Found` that an account looked up is that of the token.
- `PermissionsCorrect` (`GrantsWhatIsOwned`), for patterns and permissions of any length.
  `ant_segment_match` recurses over the segments; it is a recursive function in the model, and
  what it computes is shown without induction over its definition: `RestMatches` satisfies
  the same equations, and if another function that does differed from it there would be a
  largest segment at which it does (`LargestElement`).
- `EventBusCorrect` (types, `EveryListenerHears`). `InTurn` for the sequential bus, `Awaited`
  for a publisher that has returned, over `Snapshots`.
- `BackendsCorrect` (`BackendsAgree`) is a simulation: a key that is not set apart holds on
  both sides the same entry once the expired ones are gone (`ScalarsPaired`), a list the same
  members and, while it has any, the same expiry (`ListsPaired`); so each call answers alike.
- `KeysCorrect` (`KeysApart`), under `PlainAccounts`, for login types, ids and words of any
  number and length. A key is the prefix of its account system, then a category, then the
  rest; keys that are equal are equal part by part. The prefix ends where a category's
  word begins (`SystemsApart`). Where one category begins another (refresh and its user list,
  distributed session and online and their indexes), the number of segments or the segment
  `index` tells them apart (`Continues`). Of one category, the account part and the word
  beside it are read back from the rest. `FlattenSeq` of SequencesExt is recursive, so that
  escaping tells ids apart is a hypothesis; nothing else is used of it.

### What the theorems assume

`ConstantsAssumption`, `RefreshAssumption`, `GrantAssumption`, `RequestsAssumption`,
`SameTokenAssumption` and the like name what the proofs use of the constants: numbers are
natural numbers, the value that stands for "absent" is none of the values it stands beside,
keys of one kind are not keys of another. TLC evaluates them on every run. Eight hypotheses
are stated in the theorems themselves:

| Hypothesis | Theorem | Without it |
| --- | --- | --- |
| `ExclusiveConfig`: exclusive over all devices; no renewal; the body of a token being replaced does get deleted, and the reads before it and the probes answer | `ExclusiveCorrect`, `AccountCorrect` | the runs renew_logout and the entries on failing deletions and probes in section 3 |
| `MarkingConfig`: no plain logout, no eviction by logout | `KickOutCorrect` | a logout deletes the marker, and a renewal that read the body before the kick-out writes it back (renew_logout) |
| `"rollback" \notin MayFail` | `RollbackCorrect` | a compensation that fails is logged and leaves its write |
| `SequentialConfig`: one task; no renewal; storage answers, but perhaps not a probe; no dropped request; no `overflowMode` Logout with `logoutRange` Account | `SequentialCorrect`, `CallsCorrect` | racing tasks lose each other's changes to list and session, failures and drops leave a stage half done (section 3); an overflow that logs the whole account out takes the new token with it |
| `LoginTypes = {DefaultType}` | `SynchronisedCorrect` | a refresh files the token of another type under the default one (section 3) |
| `Scoped`: the layer binds the context to the task | `ContextCorrect` | the run rocket_context; the other eight layers are scoped |
| `Regular`: behind the prefix of a `/*` pattern, words and slashes alternate in a path | `ContextCorrect` | `Meant` counts the elements of a path; `path-auth.md` does not say what `/*` makes of `//` |
| `PlainAccounts`: escaping tells ids apart (none contains `%3A` itself), no id or login type begins with `index`, no login type has a category's word behind its first segment | `KeysCorrect` | the collisions listed in section 3, "Storages and keys" |

Each run that checks a property satisfies the hypotheses of its theorem.

### What is only model-checked

Every other invariant and action property a passing run checks is stated by a theorem. With
TLC alone remain:

- `HangingIsCut` (ENABLED) and absence of deadlock, which the prover cannot express, and the
  five violations.
- In `Backends`, the type of the lists' values: `list_remove` is `Remove` of SequencesExt, a
  `SelectSeq`, of which the provers know nothing. The simulation does not need it.

## 5. Plan

Next, in this order:

1. `CleanRollback` with terminals, on accounts whose logins do not overlap.
2. The check middlewares and the other warp filters (RequestContext), OAuth2 client
   registration, the SSO client, the in-process presence store, the service credentials of
   the distributed sessions, and the trait's default CAS, which is a get and a set.
3. One instance in which a refresh, a logout and a login of LoginParts share the keys of
   AuthService, if a bound is found under which it stays small.

## 6. Not modelled

- **Facade, manager, LoginBuilder, `util.rs`**: `StpUtil`, `SaLogic` and `SaTokenManager`
  forward to the services and build their arguments; they keep no state of their own.
- **Macros, request and response adapters, serializers**: code generation and conversion;
  where a conversion matters (keys, patterns, the time window) its module models it.
- **Token generation and JWT**: cryptography and random strings. A generated token is a
  fresh value in the models, and a signature is right or wrong.
- **Safe (secondary authentication)**: one key with a TTL, set, read and deleted by
  single calls.
- **Connections, pools, paging of scans, cleanup timers**: the models start at the storage
  call and treat a scan as one step, except for the nonce cleanup.
- **Parts of modelled components** named under "Plan" 2, and what each paragraph of
  section 2 lists as left out.

The definitions in `PROJECT.json` "map" stand for about an eighth of the implementation's
lines. Most of the others are the forwarding layers, builders, configuration fields, error
types, parsing, generated-code templates, unit tests inside the source files, and ten
framework plugins that repeat one another; there is no state machine in them to model.
