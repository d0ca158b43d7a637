# go-idento in TLA+

TLA+ models of go-idento, an identity library for Go with an embedded OAuth 2.1
authorization server: what its concurrent requests may do to the accounts,
sessions, codes, clients and grants they share, checked with TLC on small instances and
proved with TLAPS for every instance.

    tlc -config OAuthGrants.cfg MCOAuthGrants      # any run of the table below
    tlapm OAuthGrantsProofs.tla                    # any of the *Proofs modules

PROJECT.json lists the runs, the source lines behind every definition, the
mutants that show that a property can fail, the findings, the hazards and the
theorems.

## The system

The library has no lock of its own around a request. Every HTTP request or API
call runs on a goroutine, reads rows through a store interface, decides in
local variables, and writes through the store again. A single store call is
atomic (a mutex in memstore, one SQL statement elsewhere); a handler is not.
What the code relies on for correctness is a handful of conditional writes.

| Component | State | Operations | Hard because | Correct when |
|---|---|---|---|---|
| OAuth token, revocation and validation endpoints (`oauth/token.go`, `oauth/server.go`) | codes, grants | exchangeCode, refreshGrant, RevokeHandler, ValidateResourceToken, RevokeGrant, PurgeExpired | up to six store calls per request; replays, reuse, account changes and sweeps in between | one grant per code, no forked refresh chain, nothing revoked is served |
| OAuth authorize endpoint (`oauth/authorize.go`) | consents, codes | AuthorizeHandler, saveConsent, issueCode | the consent is read, merged and written back | no consent is remembered that was not given |
| Client authentication (`oauth/client_assertion.go`, `oauth/cimd.go`) | assertion ids, key and metadata caches | authenticateAssertion, fetches | expiry, leeway and sweep; caches filled outside their lock | no replay while an assertion is valid; withdrawn keys die, new ones are found |
| Client registration (`oauth/register.go`, `ipLimiter`) | clients, rate windows | RegisterHandler, allow, matchRedirectURI, authenticateClient, TouchClient, PurgeStaleClients | window edges; a purge between an exchange and its TouchClient | fewer than twice the limit per window; no client in use is purged |
| Token service (`identity/token_service.go`) | sessions, the legacy slot | IssuePair, Refresh, Revoke, RevokeSession, enforceMaxSessions | unconditional session updates, eviction from stale lists, migration | the cap, no session returns, no secret returns |
| Sign-in and accounts (`identity/signin_manager.go`, `user_manager.go`, `token_provider.go`, `external_login.go`) | the user row | sign-ins, lockout, every credential change | whole rows are written back from copies; errors are only logged | no lost update revives a credential; lockouts run and end |
| One-time codes (`identity/phone.go`, `twofactor.go`, `token_provider.go`, `email.go`) | token slots | SMS codes, recovery codes, authenticator key, confirmation and change links | read, judge, write back, with no stamp to compare; errors dropped | each code works once and in time, attempts are counted, confirmed means proven |
| User directory and guests (`identity/user_manager.go`, `guest.go`, `external_login.go`) | users, logins, everything an account owns | Create, SetUserName, SetEmail, ConvertToRegistered, Delete, purge | look-up before write; stores differ in what the write refuses | unique names, deleted is deleted, no converted guest purged |
| API keys (`identity/apikey.go`) | keys | issue, import, verify, revoke | two reads per verification | a revoked key is refused |
| Roles, claims (`identity/role_manager.go`) | roles, memberships, claims | Create, Update, Delete, AddToRole, RemoveFromRole | name resolved in one call, membership changed in another | a removal takes effect |
| HTTP middleware, policies, cookies (`auth/`) | none | authenticate, RequireRole, RequireClaim | three mechanisms tried in turn, each with several reads | a principal is given and refused for cause |
| Signing keys (`identity/signer.go`, `ecdsa_signer.go`) | key ring | Add, Remove, Keyfunc | rotation while tokens are out | a token works as long as its key is in the ring |
| Hashing, TOTP (`identity/hasher.go`, `totp.go`) | none | hash, verify | | |
| Stores (`stores/memstore`, `gormstore`, `pgxstore`, `pgxsqlc`) | all rows | the store interfaces | which call is conditional on what | they are interchangeable |

They interact through the rows: the account's security stamp is written by the
user manager and compared by both token services; deleting an account cascades
to codes, grants and sessions; a lockout is written by sign-in and read by the
authorization server. Nothing is passed by message and there are no callbacks
into the library, so a component is composed with the rest by letting the rows
that others write change at any time.

## Modules

| Module | What it is |
|---|---|
| `OAuthGrants` | the token side of the authorization server |
| `GrantLifecycle` | what that side promises, without requests and races |
| `MCOAuthGrants` | instances for TLC |
| `OAuthGrantsProofs` | the inductive invariant, the safety theorems, and that `OAuthGrants` implements `GrantLifecycle` |
| `RefreshSessions`, `MCRefreshSessions` | the first-party token service |
| `SessionLifecycle` | what that service promises of sessions and refresh secrets |
| `SignIn`, `MCSignIn` | sign-in, lockout and credential changes of one account |
| `ClientAssertions`, `MCClientAssertions` | authentication of a client by signed assertions |
| `ClientAssertionsProofs` | its inductive invariant and the safety theorems |
| `OAuthConsent` | the authorize endpoint and disconnecting a client |
| `OneTimeCodes`, `MCOneTimeCodes` | SMS and recovery codes, the authenticator key, e-mail links |
| `UserDirectory`, `MCUserDirectory` | accounts, guests, logins, deletion, over the four stores |
| `RoleDirectory` | roles, memberships, role claims, and what principals make of them |
| `RequestAuth`, `MCRequestAuth` | `RoleDirectory` composed with the middleware, signing keys and API keys |
| `RefreshSessionsProofs`, `SignInProofs`, `OneTimeCodesProofs`, `UserDirectoryProofs`, `RequestAuthProofs` | the inductive invariants and the theorems of these modules |
| `ClientRegistration` | registered clients from registration to purge |
| `MCOAuthClients` | instances of the two for TLC; they share no state, so a behaviour is about one of them |
| `OAuthClientProofs` | the inductive invariants and the theorems of `ClientRegistration` and `OAuthConsent` |

In all of them a request is a record in `req`, `flow` or `call`: a control point `pc`
between two store calls, and the locals that are used later. One action is one
store call with the code around it. A request that is refused before it has
changed anything is no step. `Abandon` ends a request anywhere: a store error,
a cancelled context, a crash of the process; what was stored stays.

### OAuthGrants

`codes` and `grants` are the two tables, a deleted grant being `NoGrant` and a
purged code keeping its other columns (history only: nothing reads them).

| Code | Actions |
|---|---|
| `exchangeCode` | `ExchangeGetCode`, `ExchangeFindUser`, `MarkCodeUsed`, then `CreateGrant` or `ExchangeLost`; `tokenResponse` |
| `refreshGrant` | `RefreshGetGrant` (rotation or reuse), `RefreshFindUser`, `RotateGrant`, `tokenResponse` |
| `RevokeHandler` | `RevokeRefreshToken` or `RevokeAccessToken`, then `DeleteGrant` |
| a replayed code, a reused secret | `DeleteGrant` |
| `ValidateResourceToken` | `ValidateFindUser`, `ValidateGetGrant`, `Serve` |
| `RevokeGrant`, `RevokeClient` | `RevokeGrant`, `DeleteUserClientGrants` |
| `PurgeExpired` | `DeleteExpiredCodes`, `DeleteExpiredGrants`, with a cutoff from any earlier moment |
| authorize, account, clock | `issueCode`, `RotateStamp`, `ToggleLockout`, `DeleteUser`, `Tick` |

Random values never repeat: grant ids are numbered, the secrets of a grant are
numbered in the order they are stored, a stamp is the number of rotations so
far. `held` and `tokens` are what clients have been given; a request may
present anything in them, at any time, as any client. PKCE, redirect URI and
resource checks only refuse a request before it changes anything and are left
out, so the model allows more than the code; `TouchClient` is left out because
nothing here reads it. SQL stores refuse to insert a grant of a deleted
user (foreign key), memstore does not: the model is the weaker memstore.

### RefreshSessions

`sessions` is the table of `WithSessionStore`, `slot` the single token a
service without one keeps; `WithSessionStore` is the restart that turns the one
into the other, after which slot tokens are migrated. A login is `LoadUser`,
`CreateRefreshToken`, `DeleteExpiredRefreshTokens`, `ListUserRefreshTokens`,
any number of `EvictSession`, `Respond`; a refresh is `LoadUser`,
`GetRefreshTokenBySession`, `UpdateRefreshToken`, `Respond`, or
`ValidateLegacySlot` followed by a login and `RetireSlot`. The sweep, the
listing and an eviction may fail, which the code logs or ignores; `cutShort` records that
the cap was not enforced to the end. `born` is the stamp of the sign-in a token
descends from. `Lifecycle` maps the table to `SessionLifecycle`: a row is live, or its id was
drawn and it is gone, or it is absent; the secrets drawn are those up to `nextSecret`. A refresh
whose row is gone when it updates it is `Waste`: it has drawn a secret that nothing answers to.

### SignIn

`row` is one row of the users table, `call[c].u` the copy a call works on. The
concurrency stamp is the flag `fresh`: an `Update` succeeds on a fresh copy and
makes every other copy stale. `PasswordSignIn` compares against the copy,
`Rehash`, `ResetAccessFailedCount` and `AccessFailed` write it back, and a failed
`Update` is ignored, whether it lost the comparison or the store failed
(`StoreError`). `ChangePassword`, `AddPassword`, `RemovePassword`,
`ResetPassword`, `SetTwoFactorEnabled`, `UpdateSecurityStamp` and
`ConfirmEmail` are the writers of credentials; SetUserName, SetEmail,
ChangeEmail and SetPhoneNumber differ from `UpdateSecurityStamp` only in
columns that this module leaves out. A lockout is the time it has left, for the
row and for every copy. Refusals by `CanSignIn` and wrong recovery codes change
nothing. A reset link is identified by the stamp it was made from, and its
expiry is left out, which allows more.

### ClientAssertions

One client. `published` is what its server answers at present, `cache` the
entry of `jwksCache` for its `jwks_uri`, or of the metadata cache when the keys
are `inline` in the document. `authenticateAssertion` and `RefreshKeys` consult
the cache; a miss is `Fetch` and then `FillCache`, with the clock read before the
fetch, and any other request may fill the cache in between. `Judge` is the clock
check of `jwt.Parse` and the cap on the lifetime, `UseClientAssertion` the
insert-or-ignore into the record of used assertions, and
`DeleteExpiredClientAssertions` its sweep with a cutoff from any earlier moment.
An assertion without a key id gets no second look. `DropCache` is the emptying
of a cache of more than a thousand entries, which other clients cause. A client
is taken to sign each jti once and to keep its `jwks_uri`; a client that
changes it has a new cache entry, which is `DropCache`. The other claims only
refuse an assertion before it is recorded and are left out.

Two things that the model makes visible and that no property forbids. An
assertion that was judged in time and is recorded only after it expired and
its record was swept is accepted again (`ReplayOnlyAfterExpiry` says exactly
that much); and the second look is limited to one per `JWKSMinRefresh` only when
the answers can be cached and do not overlap, as `jwks` notes nothing before
its fetch has ended.

### OAuthConsent

`consents` is the table, `forms` the consent pages on users' screens, each with
the token that `checkCSRF` accepts. A GET is `AuthorizeGet` and `GetConsent`, which
goes on to `issueCode` or renders a form. A POST is `SubmitConsent`,
`MergeConsent` and `SaveConsent` (`saveConsent`'s read and upsert), `issueCode`. A form
can be posted any number of times until it is too old (`ExpireForm`); a read
that fails in `saveConsent` counts as nothing remembered, as in the code. A denial
changes nothing and is no step. `RevokeClient` is `DeleteUserClientGrants` and
`DeleteConsent`. `exchangeCode` composes the module with the token endpoint at the
grain of one step (the code is spent, the pair has a grant); its checks and races are
in `OAuthGrants`, and only `DisconnectedHasNoGrant` below reads what it leaves. `standing` is what a
user has approved for a client since the last disconnection that no
authorization of the two overlapped. One that is overlapped promises less: a
`SaveConsent` that read the row before `DeleteConsent` writes the old scopes back.

### OneTimeCodes

A behaviour is about one row of the token table, or about the links; `kind` says
which. `slot` is that row, `row` the user's row (its address, whether it is
confirmed, its stamp). A code is made by `SendPhoneToken`,
`SendChangePhoneNumberToken`, `GenerateRecoveryCodes` or `NewKey` and may or may not
reach its owner. `Present` is the GetToken at the start of consumePhoneCode and
RedeemRecoveryCode; what follows it (`RemoveExpired`, `ConsumePhoneCode`,
`MissPhoneCode`, `RedeemRecoveryCode`) judges the value that was read, at the clock
of the judgement, and writes unconditionally. The writes of consumePhoneCode may
fail unnoticed (`ok`). `ConfirmPhoneNumber`, `ChangePhoneNumber`, `SetAddr`,
`ConfirmEmail` and `ChangeEmail` write the user's row under its concurrency stamp.

SECURITY.md:57-71 admits that overlapping redemptions can revive a code and
overlapping misses can lose a count. `disturbed` records exactly those codes: a
row written between another call's read and write of it, or a removal that
failed. `CodesWorkOnce` and `GuessesAreBounded` say that nothing else does it, and
that even a revived SMS code keeps its expiry.

### UserDirectory

`store` is the store of the deployment, and the differences between the stores are
part of the model: the unique index on the user name (all but memstore), foreign
keys (pgx and sqlc), the purge in one step or in two (GORM), whose login
`RemoveLogin` removes. A manager call is a look-up per identifier (`CheckName`,
`CheckEmail`) and then `Insert` or `Update`. `rows` says which of the tables has rows
of which account, so that the three cascades (the loops of memstore, the
transaction of GORM, the references of the schema) can be compared with what an
account can own. `raced` and `ghosts` record the interleavings that the stores
permit: an identifier that one call wrote after another had found it free, and a
row written from a copy after the account was deleted. The properties say that
nothing else leads to duplicates or remains. `full` remembers the accounts that were
ever stored as full ones, and `overlap` those stored so while a purge of GORM had
them on its list: those may be lost (the violated run), and `PurgeSparesSettledAccounts`
says that no other full account is, although calls go on writing back copies that
they read when the account was a guest. What keeps those out is the concurrency stamp.

### RoleDirectory and RequestAuth

`RoleDirectory` has the roles, the memberships of one user and the role-typed
claims, with the two-step look-ups of GORM and sqlc (`ResolveRole`, then
`AddToRole` or `RemoveFromRole` by id). `TokenPrincipals` and `KeyPrincipals` are what
signAccessToken with rolesFromClaims, and authenticateAPIKey, make of them, with the
reads whose failure the code ignores (`Read`); the form of the role claim (one string, a
decoded array, a Go slice) is kept because ClaimValue reads only the first two. A
removal may be overlapped by any other call; `stayed` exempts it only when the role
it resolved lost its name meanwhile, or two roles of memstore have the name.

`RequestAuth` extends it with the request. It is tried as a session token
(`ParseSession`, `SessionUser`), an OAuth access token (`ParseResourceToken`,
`ResourceUser`, `ResourceGrant`) and an API key (`LookUpKey`, `KeyUser`), while
`ChangeUser`, `AddKey`, `RemoveKey`, `Issue`, `Revoke` and `Tick` happen in between.
`held` and `always` record which conditions on the credential were true at some
time and at all times of the request: `CredentialsDecide` says that a principal is
given only if each condition held at some time, and refused only if one of them
failed at some time. That is the strongest statement several reads without a
transaction allow.

### ClientRegistration

`hits` is the table of ipLimiter, with the sweep of a crowded table as a choice
(`crowded`: other addresses filled it), `admitted` the history it is judged by:
the times at which an address got by.
`clients` has the columns that are read: creation, last use, whether there is a
secret, the redirect URIs. URIs are records, so that validateRedirectURI and
matchRedirectURI are what the code compares. A code exchange is
`authenticateClient`, `Redeem` (where the clock is read), `CreateGrant`,
`TouchClient`; a purge is `PurgeStaleClients`, or `ListStaleClients` and
`DeleteListed` under GORM. `disturbed` records the clients for which an exchange
overlapped a purge or another exchange, or whose TouchClient was lost.

## Runs

| Run | States | Shows |
|---|---|---|
| `oauth_grants` | 833,322 | one grant per code; no secret traded twice; tokens stay within their approval; nothing revoked before a request began is honoured by it; revocation is permanent; lifetimes slide forward; the table implements `GrantLifecycle` |
| `code_replay` | violated | a replay handled between `MarkCodeUsed` and `CreateGrant` deletes nothing, and the grant is created afterwards |
| `refresh_sessions` | 1.3 million | the cap holds when logins have finished; spent secrets stay spent; table and slot implement `SessionLifecycle`: a session keeps its owner and never comes back |
| `sign_out_everywhere` | violated | a refresh token from before a stamp rotation still works and buys the new stamp |
| `sign_in` | 673,164 | no write from a stale copy revives a credential or touches a lockout; a sign-in on replaced credentials carries a dead stamp; a reset link works once; lockouts end |
| `client_assertions` | 3.5 million | no assertion is accepted again while it is valid; a withdrawn key dies with the longest cache lifetime, even when a slow fetch fills the cache late; a new key is found before the cache expires |
| `oauth_clients` | 1.2 million | codes and remembered scopes stay within what the user approved and has not withdrawn, across double submissions, failing reads and overlapping merges; the limiter lets fewer than twice the limit by in any stretch as long as its window and refuses only at the limit; purges spare clients in use; codes leave for registered redirect URIs |
| `one_time_codes` | 2.2 million | without an overlap or a failed removal an SMS or recovery code works once and only the newest ones work; guesses are capped; no SMS code works after its time; what is confirmed was proven |
| `user_directory` | 2.8 million | names are unique under the SQL stores and otherwise only fail to be by a race; deleted accounts stay deleted and leave nothing behind that the schema can prevent; an account that became a full one before a purge listed it is never purged |
| `purge_converted_guest` | violated | GORM's purge deletes a guest that was converted after it was listed |
| `request_auth` | 2.1 million | each of the three credentials is accepted and refused for cause; a role that was removed is gone, unless it lost its name during the removal |
| `keys_and_tokens` | violated | a user with a role claim and no membership passes RequireRole with a token and not with an API key |

The violated runs are disagreements between the code and its own documentation;
the findings in PROJECT.json quote both sides.

### Known divergences

Besides the violated runs, the models show the following; each can be seen by
adding the named definition to the run of its module.

* A refresh token that was rotated away twice is unknown, and presenting it
  revokes nothing, while docs/oauth-server.md:128 says that an already-rotated
  token revokes the grant (`ReuseIsDetected`, `MaxSecrets = 3`).
* With `MaxSessions = 1` two concurrent logins evict each other, while
  identity/token_service.go:42 calls it the legacy behaviour (`LatestLoginRemains`).
* Two wrong passwords judged at once are counted once, as the Update of one is
  lost and only logged, while identity/user_manager.go:404 says that AccessFailed
  locks at the limit (`LocksAtThreshold`).
* RevokeClient deletes no codes: one that is outstanding is redeemed afterwards,
  while oauth/server.go:405 says that it disconnects the client
  (`DisconnectedHasNoGrant`).
* A loopback redirect URI may differ from the registered one in its userinfo, too
  (oauth/util.go:263 compares host, path and query), while oauth/util.go:241-244 and
  oauth/types.go:63-64 speak of the port alone (`RedirectsAreRegistered` with the
  `!.user = g.user` left out).
* The registration limit admits up to `2 * Limit - 1` requests in a minute around the
  edge of a window, while oauth/server.go:87 speaks of the limit per minute
  (`RegistrationRate` states the sharp bound).
* A session token of a locked-out user is accepted; OAuth tokens and API keys are
  not.
* ConfirmEmail keeps the security stamp, so a confirmation link works until it
  expires, while docs/architecture.md:96-98 says that consuming one rotates the
  stamp; confirming again changes nothing.
* An SMS code for the current number is bound to neither the number nor the stamp:
  it may confirm a number that was set after it was sent
  (`ConfirmedAddressWasProven` says what remains).
* memstore enforces neither the unique name nor ownership in RemoveLogin, and no
  store has a unique e-mail address.
* TouchClient stamps a time read before the exchange, so that of two exchanges the
  older time may remain, and its error is dropped. Refreshing does not touch the
  client; its grant keeps it from being purged.
* Remove of a key ring takes the active key, too; nothing can be signed then.

Deadlock is not checked: the models stop when their bounds are used up.

### Bounds

Every race of interest is between two requests and one row, so two requests,
one user and one code are used. `MaxGrants = 2` leaves room for a second grant
from one code if the code let it happen; `MaxSecrets = 3` allows two rotations,
one more than the grant remembers; `MaxStamp = 2` allows a rotation on either
side of a request; times to live of 1 and a clock to 2 make everything expire.
Two clients are needed for the wrong one to try. A code stands for one of two scopes
in the run: with every subset the instance has 5.2 million states, and
narrowing is covered by the theorem. `RefreshSessions` uses one user (5.7
million states with two), three sessions against a cap of one, and a stamp
rotation; `SignIn` two passwords, two rotations, a limit of two failures and a
lockout of two ticks, so that an attempt can fall before, into and after it.
`ClientAssertions` uses one jti and two keys; a cache lifetime of 2 is above
`JWKSMinRefresh = 1`, so that the second look matters, and the answer asks for
less or more than the limits allow; leeway and lifetime of 1 put the expiry on
either side of the end of the clock. `OAuthConsent` uses one user and one client, every set of two scopes, and two codes,
one for either side of a disconnection; that users and clients cannot be
confused is left to the theorem (two users make 10 million states and more).
`OneTimeCodes` has two batches of two codes, so that one of a batch can be spent,
revived or replaced; two addresses, one rotation of the stamp and two links, so
that a link can be from before or after a change; a time to live of 1 in a clock
to 2, and two attempts. `UserDirectory` has two accounts, one name and one address
to fight over, one login, one satellite table (the cascades are sets, and the
tables are alike), one row in the two of them at a time (with two, 6.5 million
states show nothing more) and a clock tick to make a guest old; sqlc has the guarantees
of pgx here. `RequestAuth` has two roles and two names, so that a name can move
between roles, two kids and three keys, so that a kid can be reused, and a lifetime
that ends within the clock. `ClientRegistration` has one client, whose id may be
registered once, a native and a web client and two invalid submissions, requests for
URIs that differ in port, userinfo, host or path, a limit
of 2 and a window of 1 in a clock of 2, so that a window can end and begin again.
What the limiter does over more windows and addresses is left to the theorem; its invariant was
checked by TLC for two addresses, a limit and a window of 2 and a clock to 7.
Symmetry is used over requests and over calls in the runs that only check safety.

### Fairness

`LockoutEnds` is the only liveness property. It assumes weak fairness of `Tick`
and nothing else: time passes, while no caller is owed any progress and new
attempts may go on for ever. Requests of the other modules are never promised
to finish (`Abandon` is always possible), so nothing is claimed about that.

## Proofs

`OAuthGrantsProofs` assumes only what `OAuthGrants` states of its constants:
bounds and times to live are natural numbers, the null values are distinct from
the values they stand for, approvals are sets of scopes. The sets of requests, users, clients, codes
and scopes are arbitrary.

None of the properties is inductive by itself. `IInv` adds, in this order:

* `CodesInv`, `OriginInv`: ids are drawn in order and the code of a grant is spent;
* `ExchangeInv`, `WinnerInv`: what a request redeeming a code remembers agrees
  with the code, and the request that won `MarkCodeUsed` is alone with its code
  and its id, which is what makes `OneGrantPerCode` inductive;
* `GrantInv`, `ResponseInv`, `TokenInv`: grants, requests in flight and tokens
  stay within the approval their code stands for (`TokenProvenance`);
* `ChainInv`: the hash of a live grant is the newest secret, and a request holds
  one no newer, so the comparison in `RotateGrant` admits one winner (`NoFork`);
* `StampInv`, `DeadInv`: nobody remembers a stamp from the future, and what was
  revoked when a request began still is when it is tested
  (`NoServiceAfterRevocation`, `RevocationPermanent`);
* `ClockInv`: a request that still holds the current secret read the clock after
  the last rotation did (`LifetimeSlidesForward`).

There is a lemma per action for the conjuncts it can disturb, and the theorems
`TypeCorrect`, `CodeOpensOneGrant`, `RefreshNeverForks`,
`TokensTraceToApprovals`, `RevokedIsNotServed`, `RevocationsArePermanent` and
`LifetimesSlideForward` follow. `ImplementsLifecycle` shows from `IInv` that
every step is a step or a stutter of `GrantLifecycle` under the mapping stated
at the end of `OAuthGrants`.

`ClientAssertionsProofs` assumes in addition that `MaxTTL` and `JWKSMinRefresh` are
positive, as the defaults are. Its `IInv` says that every set of keys around,
in the cache or in a request, was right at some moment since the time noted
with it (`AsOf`: a key on which it differs from what is published now has
changed since), that a cache entry is not trusted beyond `MaxTTL` after that
time, and that the record of an assertion that was accepted is there until a
sweep that began after its expiry and leeway. `NoReplayWhileValid`,
`WithdrawnKeysAreRefused`, `PublishedKeysAreFound` and `TypeCorrect` follow.

`OAuthClientProofs` extends `OAuthConsent` and `ClientRegistration`, whose names are
therefore apart (`ConsentSpec`, `ConsentTypeOK`, `flow`). Of `OAuthConsent` it assumes only that clients ask for sets of known scopes and
that the null values are apart. `ConsentInv` extends `DisconnectForgets` to every request
under way: what it is about to save or to issue is within `standing`. The step
that could break it is `DeleteConsent`, and it withdraws an approval only when
no request that relies on it is under way. `CodesWereApproved`,
`WithdrawnIsForgotten` and `ConsentTypesCorrect` follow.

Of `ClientRegistration` it assumes that the limit is positive, that submissions and requests name
URIs, and that there are finitely many token requests at a time, so that two requests of one client can be counted. Its `IInv` says of a
client that no overlap has `disturbed` that it was last used when its row says, or by an exchange
that has created its grant and is about to touch the row (`UseInv`), so that a purge that goes by
the row meets that exchange; that a client a purge has listed has no grant and was not used since the
cutoff (`PurgeInv`); that an exchange between its two clocks is the latest use of its client
(`RequestInv`); and that registered URIs are valid, so that a loopback redirect differs
from a registered one in no more than port and userinfo (`RowInv`, `CodeInv`).
`GrantsStandOnTheirClients` and `TypeCorrect` follow. `RegistrationsAreLimited` needs an
invariant of its own (`RateInv`): the last `n` admissions of an address are those its
window counts, which began with the first of them, and of the earlier ones only
`Limit - 1` can be as late as a window before that (`LongAgo`). A window that ends or is swept turns
its own admissions into earlier ones, and the first of them is more than a window old by then; so no
`2 * Limit` admissions fit into a stretch as long as the window. The bound is sharp: `2 * Limit - 1` do,
all but the first of one window at its end and all of the next at its start.

`RefreshSessionsProofs` is about any number of calls, users and sessions. The cap is a counting argument: a user above `MaxSessions` has a call
that is about to list the sessions, or one whose list `Reduces` them: the sessions
outside the list are at most the cap, and so is what will be left when the call has
evicted as many of the list as it found too many (`CapInv`). A second login only adds a call of
the first kind, and evictions by others only help. `CapHolds` and `TypeCorrect` follow. `EndedSessionsStayEnded` and `SpentSecretsAreSpent` are
action properties: `ServiceRowsAndSlots` says what a step may do to a row of the session
table and to the slot (`RowStep`), and new secrets and sids are beyond those drawn.
`ImplementsSessionLifecycle` sorts every step into one of six (`LifeStep`), each of which is a step
of `SessionLifecycle` under the mapping; it needs that a row that is gone holds nothing and
that no row is ahead of the ids drawn (`RowsInv`).

`SignInProofs` says of every copy of the row: a fresh copy has the row's stamp and
lockout, and any copy with the row's stamp agrees with it in the credentials
(`SameCredentials`), since every change of a credential rotates the stamp. From it
follow `SignInsAreCurrent`, `ResetLinksWorkOnce` (a link is bound to a stamp, and a stamp is
never used twice), `CredentialsOnlyAdvance` and `TypeCorrect`. `LockoutsRunTheirTime` has
`LockoutEnabled` (the option of the account) as its hypothesis, which the run's instance
satisfies: with lockout switched off an attempt is judged although the row says
that it is locked, and may lock it again.

`OneTimeCodesProofs` says of a call between its read and its write of the token row
that its copy is the row, or that the codes of the copy are `disturbed` (`JudgeInv`);
of the row, that its codes are of the newest batch and not yet accepted, unless disturbed, and that
its attempt counter is the number of misses (`SlotInv`); of the user's row, that a copy or a
link with the current stamp has the current address (`CopyInv`, `LinkInv`). One assumption on
constants was added to `OneTimeCodes` for it: `"confirm"`, the purpose of a confirmation link,
is no address; in the code the purposes are `EmailConfirmation` and `ChangeEmail:`
followed by the address. `CodesAreOneTime`, `GuessingIsBounded`, `ConfirmedMeansProven` and
`TypeCorrect` follow.

`UserDirectoryProofs` says of a call that has found a name or an address free that nobody else has it
or that it is in `raced` (`NameOK`, `EmailOK`), or, where the address was not looked up, that it is the
account's own (`OwnEmail`); and of ids that every one that a call, a login, a list or a
satellite row holds lives or is gone, but the one a Create has drawn (`Known`). The cascade of every
store is complete (`CascadeIsComplete`), so a removal leaves nothing, and an update from a
copy of a removed account finds no row. A full account is never a guest again, in its row or in
a copy that can still be written, and a purge that has it on its list listed it before (`FullInv`).
`IdentifiersStayUnique`, `DeletionIsFinal`, `SettledAccountsSurvivePurges` and `TypeCorrect` follow, for
every store.

`RequestAuthProofs` says of roles that a checked name is free or a twin (`AdminInv`),
hence `NamesUnique`: when the role that a removal resolved still has the name, no other
role has it; of a request, at each of its places, which conditions were seen to
hold and that every mechanism it has left did not fit the credential or saw a
condition fail (`At`). `RequestsAreJudgedForCause`, `RemovalsTakeEffect` and `TypeCorrect`
follow.

All inductive invariants were checked by TLC on the instances of the runs before
they were proved.

Only model-checked: `LockoutEnds`, since liveness under fairness is out of the prover's
reach, and the violated runs.

## Not modelled

Cryptography (hashing, TOTP, JWT signatures), HTML and JSON rendering, the
building of names and DDL strings, row scanning, listings, demos, and the network
side of metadata fetching: they are conversions or I/O whose outcome is an input
of the models. The validation of metadata documents only refuses. Claims attached
to roles are stored and listed and never read when a request is authorized.
RefreshSignIn, ValidateSecurityStamp and the remember-me token only read one row.

## Plan

The modules of the plan are written, and every safety property that a passing run checks is
proved. What the models do not cover is listed above.
