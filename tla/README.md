# bauth: TLA+ verification

bauth is an authentication server (Rust, axum, PostgreSQL) with a Rust library
for the APIs that accept its tokens (`bauth_client`) and a TypeScript SDK for
apps (`bauth_sdk`). This directory holds TLA+ models of its protocol logic, TLC
configurations that check them on small instances, and TLAPS proofs.
`PROJECT.json` lists components, runs, mutants, hazards and theorems, and maps
every definition to the source lines it models.

## 1. The system

Users log in by email only: an app opens a login flow, the server emails a link
and a 6-digit code, either completes the flow and yields an authorization code,
which the app exchanges for an access token (a JWT of 15 minutes) and a refresh
token. Several server instances share one PostgreSQL database. They hold no
lock between statements except row locks and advisory locks of PostgreSQL, all
transactions are READ COMMITTED, and every HTTP request may be dropped between
two statements (the transaction then rolls back).

| Component | State | Operations | What makes it correct |
|---|---|---|---|
| Sessions and refresh tokens (`routes/oauth.rs`, `sessions.rs`, `queries/sessions.rs`, `queries/refresh_tokens.rs`) | `sessions`, `refresh_tokens` | open, refresh, retry, theft detection, four ways to revoke | a replaced token never works again; tabs that share a token keep working; a stolen copy ends the session; marks are final |
| Authorization codes (`routes/oauth.rs`, `queries/authorization_codes.rs`) | `authorization_codes`, `sessions` | create, consume, check client, URI and PKCE, detect replay | one session per code; a wrong call costs the rightful app nothing; a replay ends the session |
| Login by email (`routes/login.rs`, `routes/magic_link.rs`, `login_flow.rs`, `queries/login_flows.rs`, `queries/magic_links.rs`) | `login_flows`, `magic_links`, `users` | create flow, ask for email, confirm link, confirm code, sign-up | budgets of wrong codes and emails; one completion; stale links fail |
| Account (`routes/me.rs`, `routes/email_change.rs`, `queries/confirmations.rs`, `queries/email_changes.rs`, `queries/users.rs`, `current_user.rs`) | `confirmations`, `email_changes`, `users`, `sessions` | ask for a code, use it, change address, delete | one act per emailed code; moves follow links; deletion leaves nothing |
| Signing keys (`signing_keys.rs`, `queries/signing_keys.rs`, `jobs/mod.rs`, `access_token.rs`, `routes/well_known.rs`) | `signing_keys`, one `SigningKeys` in memory per instance | start, hourly reload, daily rotation, retirement by hand | there is always a key; issued tokens verify everywhere; a leaked key dies |
| `bauth_client` verifier (`verifier.rs`) | the `KeyCache` | verify, refetch | accepts what the server signed, forgets what it retired |
| Purge (`jobs/purge.rs`, `jobs/mod.rs`) | rows past their life, an advisory lock | lock, delete in batches, unlock | removes nothing that is still useful, and in the end everything that is not; one instance at a time |
| Rate limiter (`rate_limit.rs`, and the routes that spend its budgets) | buckets in memory | check, clean | each user and mailbox gets its own budget, all of it and no more |
| `bauth_sdk` session (`session.ts`, `middleware.ts`, `stores.ts`) | tokens in a store that tabs share, a refresh in flight per tab | save, access token, refresh, fetch with replay, logout | no false theft alarm; only a dead session is forgotten; logout wins |
| `bauth_sdk` login client (`client.ts`, `pkce.ts`) | the flow on its way back | requests to bauth | not modelled |
| Mailer, configuration, clients, CORS, errors, OpenAPI | static or I/O | | not modelled |

How they interact. Login by email ends in an authorization code
(`MagicLogin.Complete`), which is where `CodeExchange` starts; an exchange ends
in an open session with its first refresh token, which is where `RefreshTokens`
starts. `Account` revokes sessions and moves or deletes accounts beneath the
others; `MagicLogin` sees a move as one step, `RefreshTokens` and `CodeExchange`
see revocations and disabled accounts, and `Account` in turn sees the rows of an
account that logins, exchanges and refreshes lock and add. `SdkSession` puts the browser in front of
the refresh: several tabs, the network in between, and the rotation of
`RefreshTokens` as one step per call. `Purge` deletes what the others leave
behind, and `RateLimits` decides which calls reach them. `SigningKeys` is
independent of the tables of the others.

What is hard: two requests on one row, with a value read before a wait for a
lock used after it; checks and writes in different statements; retries after a
lost answer; a timeout window (the grace of a refresh token) racing with a
revocation; several instances with key sets of different ages; crashes between
publishing and loading a key; answers that are lost after the server has acted
on the request; two tabs that write one store; a DELETE that names its rows
before it removes them. `PROJECT.json` lists these hazards at their lines.

## 2. Modules

| Module | Models |
|---|---|
| `RefreshTokens` | grant `refresh_token`, statement by statement, and every writer of a session |
| `TokenFamily` | what `RefreshTokens` promises, without transactions, locks or clock |
| `CodeExchange` | grant `authorization_code` and the replay of a code |
| `CodeGrant` | what `CodeExchange` promises, in the same way |
| `MagicLogin` | login flows, emails, links, codes, sign-up |
| `Account` | confirmation codes, change of address, deletion |
| `SigningKeys` | key rotation over several instances, and the verifier's cache |
| `SdkSession` | the SDK's session in several tabs, the network, and bauth behind it |
| `Purge` | the hourly purge of several instances, beside the writers of its tables |
| `RateLimits` | whose budget a request is charged to, and the buckets |
| `*Proofs` | for each of the eight components above, its inductive invariant and its theorems |
| `MC*` | the symmetry sets, and what TLC runs |

Conventions shared by the modules:

* One action is one SQL statement together with the Rust code up to the next
  statement. The last write of a transaction and its COMMIT are one action when
  no other transaction can see a difference. Uncommitted writes live in the
  record of the call (`rotates`, `supersedes`, `step`), so an abort, which may
  come at any step (`Abort`: a database error, a client that went away), just
  drops them. `SdkSession`, `Purge` and `RateLimits` are about other actors and
  say in their headers what one action is.
* Row locks are not a variable. A call holds the lock of a row from the
  statement that takes it to its last step, so `Holds`, `LinkLocked`,
  `AddressLocked`, `AccountLocked`, `ChangeLocked` read locks off the calls.
  A statement that waits re-evaluates its condition on the committed row when it
  gets the lock, except for the columns of joined tables, which keep the value
  of the statement's snapshot (`Request.session` in `RefreshTokens`): this is
  what `FOR UPDATE OF r` does in `find_for_update`.
* `now()` is the start of the transaction, `Utc::now()` the moment of the call;
  both are recorded where they matter. The clock of the database and of the
  servers is one clock.
* Tokens, codes and PKCE verifiers are identities: a hash matches exactly the
  value it was made from. Guessing a code right by luck is typing the code.
* The operator's `disabled_at` may be set at any time (`DisableUser`). Rate
  limits only refuse calls; in the other models any call may never be made.
* Definitions above which a comment says `Fault:` are faulty variants of the
  definition that follows; the mutants of `PROJECT.json` put them in its place
  to show that each property can fail.

### RefreshTokens

`Receive` takes a call (`Utc::now()`, the presented token, the client);
`FindForUpdate` begins the transaction, remembers the session as its snapshot
has it and waits; `Refuse`, `FindSuperseded`, `MarkRotated`, `FindRotated` are
the branches once the row is locked; `CheckSuccessors` is `has_used_successor`,
`SupersedeUnusedSuccessors` the UPDATE of unused successors, which waits for
their rows; `FindUser` reads the account; `Issue` inserts the new token and
commits; `Revoke` commits the revocation of a theft. `RevokeByRefreshToken`
(logout), `RevokeForUser` (`DELETE /me/sessions/{id}`) and
`RevokeByAuthorizationCode` (replay) are the other writers.

### CodeExchange

`CreateCode` stands for the end of a login. `Receive`, `Consume` (UPDATE ...
RETURNING, which waits for the row), `FindUnusable`, `FindUser`, `OpenSession`
are the exchange; `FindConsumed` and `RevokeByAuthorizationCode` are
`reject_unusable_code`, which runs outside the transaction. A mismatch of
client, URI or verifier returns before COMMIT, so the code stays usable.

### MagicLogin

`AskForEmail`, `CountRequest`, `FindRecipient`, `CreateLink` are the four
statements of a request for an email (no transaction). `ConfirmLink` and
`Consume`, or `SubmitCode`, `FindCodeCandidate` (which takes the advisory lock
of the address), `RecordCodeFailure` and `ConsumeById`, lead to `log_in`:
`FindUser`, or `CreateUser` (INSERT ... ON CONFLICT, which waits for an
uncommitted row with the same address) and, if the address was taken,
`FindByEmail`, which finds nobody when that account has moved on in between;
then `MarkEmailVerified` and `Complete`, which sets `completed_at` and issues the
authorization code. A flow counts the codes it issued (`codes`), whether or not
`UNIQUE` would let the table hold a second one. `spent` records whether a call
came too late; it is history, read by properties only.

### Account

`RequestConfirmation` and `CreateConfirmation` email a code. `UseCode`,
`FindCodeCandidate`, `RecordCodeFailure`, `ConsumeById` are `check_code`, shared
by the change of address (`FindByEmail`, `CreateChange`) and deletion (`Delete`,
`Cascade`). `CurrentUser` is read once per call, so a call may act on an account
that moved or went since. Foreign keys make an INSERT wait for a deletion under
way and fail after it.

Deletion takes the users row and then waits for the rows of the cascade. Four
other calls take a row of the account first and need the account, or a row that
the deletion has taken, afterwards: the confirmation of a change
(`ConsumeChange`, `FindUser`, `ChangeEmail`), a login (`ConsumeLink`,
`MarkEmailVerified`), the exchange of its code (`ConsumeCode`, `OpenSession`) and
a refresh (`FindForUpdate`, `InsertToken`). With each of them a deletion can end
up waiting in a circle. `Blocks` says which call holds a row that another one
needs, `WaitsFor` collects them, and `DetectDeadlock` is PostgreSQL ending one of
two calls that wait for one another. `logins` is what a login has added to
`magic_links`, `authorization_codes` and `sessions` for its account. Each account
logs in again once at most, and `Returning` bounds when: by which of its sessions
are live. One login is enough for every wait with a deletion.

### SigningKeys

Each instance has a key set in memory (`loaded`) and two jobs. `LoadKeys`,
`InsertKey`, `LoadAgain`, `StoreKeys` are `ensure_and_load` and the swap, which
are not a transaction; `StartRotation` and `Publish` are `rotate_if_due` under
its advisory lock; `Issue` signs with the key that the set in memory selects;
`FetchJwks` and `Accepts` are the verifier: a cache that is too old, or lacks the
key, is filled anew from whichever instance answers; when none does, the verifier
goes on with the keys it has, however old they are (`answer = None`). An instance
may stop at any step (`Stop`); a job may fail (`FailJob`). `Staleness` is the age a set in memory may
reach, from the hourly schedule; the clock does not pass it (`Tick`): a job that
fails for an hour is outside what the rotation promises.

### SdkSession

One action is what a tab runs between two events of the network; the memory and
localStorage stores answer at once, so reading the store and sending what it
held is one turn. `CallRefresh` is the start of `refresh()`: share the promise
of this tab (`Refreshing`), or read the store and ask. bauth answers in one step
(`HandleRefresh`, `RefuseRefresh`: the decision of `routes/oauth.rs` with rows
that commit at once). `StoreTokens`, `ForgetTokens` and `FailRefresh` are the
three ends of the request, and settle it for everybody who shares it
(`Settled`). The client may also give up on a request that is still on its way
(`Abandon`): its callers see an error, and bauth may handle the request later, or
never; the answer then reaches nobody. `Begin` is `accessToken()` in the fetcher and `onRequest` in the
middleware, `Unauthorized` the first 401, `Retry` what follows. They differ:
the middleware sends the old token when a refresh brought nothing, looks at the
answer of a request without a token, and never takes a newer token from the
store. `Logout` clears the store, `RevokeAtBauth` may or may not reach bauth.
`trouble` and `overlap` are history.

### Purge

A row is the instant its retention counts from, and the rows it goes with (`of`,
its foreign keys with ON DELETE CASCADE): links and codes go with their flow,
confirmations with their session, and all of them with their account, verified
or not. `TryLock`, the DELETEs of the
six tables and `Unlock` are `run`; a DELETE is `Select` (the sub-select, on a
snapshot) and `Delete` (the rows named, with their cascades): at READ COMMITTED
a row that changed in between is held against `id IN (...)` only. `Fail` is the
`?` of a DELETE, after which the lock is still given back; `LoseConnection`
breaks the connection that took the lock while the DELETEs go on over the pool;
`Crash` stops an instance. The rest of the server creates, extends, verifies and
ends rows (`Serve`); accounts that were imported, or left by older versions, are
not verified until somebody logs in to them (`LogIn`), and may have sessions,
changes and emails meanwhile.

### RateLimits

`Resolve` walks `X-Forwarded-For` from its end; `Arrivals` is what the server
may see of a caller: any of its addresses, any header it wrote itself
(`Headers`), and any chain of proxies, each of which added where it was
called from (`Routes`, `Traced`). A header value that is not visible ASCII is
dropped whole (`to_str().ok()`), with the hops that proxies joined to it: what is
left then leads to a proxy on the way, up to the one that faces the server
(`Untraced`). `from` says whose request it is by the trace that is left: the
caller, or that proxy. The proxies are assumed to add a line of their own or to
join everything they received into one value; one that appended to the last of
several lines only would leave readable, forged lines in front of an unreadable
one, and is not modelled. `OwnersAssumption` is the deployment that `IpKey` is made
for: all addresses of a caller have one key (an IPv4 address, or a /64 of IPv6),
and no two callers share one. `Checks` is
the order in which the handlers spend the limiters; a call may be refused
between two of them with the first already spent. The buckets are those of the
`governor` crate, by the instant each is full again. `used` records which user,
proxy or mailbox was let through when, whatever key it was charged to. The model
is one process: with several instances each enforces budgets of its own, as
`rate_limit.rs` says.

### Refinement

`RefinesTokenFamily` maps a token row to unissued, fresh (no mark), used
(`rotated_at`) or dead (`superseded_at`), a session to unopened, open or
revoked, and forgets the calls with what they have read, locked and staged.
`TokenFamily` has one step per refresh: mark, successor and the replacement of
the unused successors (all or none) together, never with a dead token. It leaves
open which refresh is a retry and when a session is revoked, since those depend
on the clock; the invariants of `RefreshTokens` are about that.
`RefinesCodeGrant` maps the rows of codes and sessions to sets: a code is
exchanged in the step that opens its session. TLC checks both as properties on
small instances, and both are proved.

## 3. Runs

Each run ends within four minutes with two workers, after up to about 1.4 million
states. `CHECK_DEADLOCK FALSE` everywhere: identifiers
and the clock are finite, so every instance may come to rest; that calls do not
block each other is checked as a property instead.

| Run | Bounds | Shows |
|---|---|---|
| `refresh_concurrent` | 2 calls, 4 tokens, clock to 3, grace 1 | `SupersededStaysDead`, `TabsKeepWorking`, `LateCallsAreRefused`, `OneRetryLives`, `MarksAreFinal`, `SomeCallCanGoOn`, `RefinesTokenFamily`, and the invariant of the proofs |
| `refresh_race` | as the first | a retry beside the first use of the successor is not seen as theft (finding) |
| `code_replay` | 2 calls, 1 code, 2 clients, 2 verifiers | `OneSessionPerCode`, `MismatchKeepsCode`, `ReplayRevokes`, `RefinesCodeGrant`, and the invariant of the proofs |
| `login_guesses` | 2 calls, 2 flows, 2 emails | `GuessBudget`, `EmailsAreCapped`, `SpentNeverLogsIn`, every call ends |
| `login_completion` | 2 calls, 1 flow, 2 accounts, 2 addresses, flows and emails live for 2, clock to 1 | `FlowOutlivesItsEmails`, `FlowCompletesOnce` |
| `keys_rotation` | 2 instances, 3 keys, clock to 4 | `AlwaysSigns`, `OnePending`, `RetiredNeverSigns` |
| `keys_emergency` | 2 instances, 1 API, 2 keys, clock to 3, a leak at 0 or 1 | `TokensVerify`, `LeakedKeyStopsSigning`, `LeakedKeyIsForgotten` |
| `account_confirmations` | 2 calls, 1 session, 3 addresses, 2 accounts, 2 codes, clock to 1, a day of 1, a login of an account whose session is over | `GuessBudget`, `OneActPerCode`, `MovesFollowLinks`, `DeletionIsComplete`, `OnlyDeletionsDeadlock` |
| `sdk_tabs` | 2 tabs, 2 calls at a time, 3 tokens, clock to 3, grace 2 | `NoFalseAlarm`, `OnlyDeadSessionsAreForgotten`, `UnauthorizedIsDeserved` |
| `sdk_logout` | 1 tab, 2 calls, 2 tokens | a logout during a refresh is undone (finding) |
| `purge_hourly` | 2 instances, one row of each table but the changes, 4 of them inserted, clock to 3, 1 fault | `OnePurger`, `UselessRowsOnly`, `PurgeKeepsBudget`, `StaleRowsGo` |
| `limits_forged` | an IPv4 user, an IPv6 user with 2 addresses, a proxy, 1 mailbox in 2 spellings, 1 forged hop, 2 proxies on the way, 4 requests, clock to 2 | `WindowBudget`, `RefusalIsDeserved`, `FullKeysAreForgotten` |

Why these bounds. Every race here is between two calls on one row, so two calls
suffice; the proofs cover any number of calls, in every module.
Four tokens are a parent, a first successor, a successor of a retry and a
grandchild. The clock reaches past each window once (the grace, an expiry, the
day), which is what the comparisons `<`, `<=` can tell apart. Two failures per
code and two per day, over two emails, let the day's budget end a code that is
not used up; `Account`, whose budget statement is the same, runs with one and one to make
room for three addresses, which two competing links need. Flows and emails live
equally long, as they do in the code (15 minutes), so that an email asked for
after the first instant has to extend its flow. Two calls make every circle of
two; that every longer one has such a pair in it is left to the proof. Two
instances and two jobs each are all the actors a key has; three keys are the one before, the one
that signs and the pending one. In the SDK a false alarm takes a token, the
successor a lost answer carried and the one a second tab got; two calls are two
tabs, two callers that share a refresh, or a tab beside a request it gave up on.
Email changes have the shape of sessions for the purge (owned by an account,
ended once), so the run leaves their table empty; a batch of one row makes every batch a full one.
Two proxies on the way make a hop trusted, one forged hop makes one garbage or
an address of somebody else.

`TypeOK` of each module states the shape of its variables. It is the first
conjunct of each `IInv` and proved in every module; the runs of `RefreshTokens`
and `CodeExchange` also check `IInv`, the others spend their time on the
properties.

Symmetry is used where identifiers are only compared, and never in a run of a
liveness property.

### Fairness

In `MagicLogin`, where calls wait for three kinds of locks, `FairSpec` assumes
strong fairness of `Handle(c)`, the next statement of a call in progress, and of
nothing else: no call has to arrive, no clock has to tick, no operator has to
act, no call has to abort. PostgreSQL queues the waiters of a row in order of
arrival, so a call that waits for a row which others take and give back gets it,
and tokio polls every live request. In `RefreshTokens` progress is checked as an
invariant: while calls are in progress, one of them has a statement that can run.
As each call passes its steps once, all calls end. In `Account` circles do form,
and the invariant says which (`OnlyDeletionsDeadlock`).

`Purge` assumes weak fairness of each undisturbed step of a purge that runs, and
of a purge being started somewhere when the lock is free: the scheduler fires on
every instance every hour. Nothing else is fair; faults are finitely many
(`MaxFaults`). `RateLimits` assumes weak fairness of the cleanup, a timer.

### Findings

1. `refresh_race`: `has_used_successor` reads committed rows without locking
   them. A retry past the grace, beside the first refresh of the successor,
   sees no used successor; the UPDATE then waits for that row, skips it, and the
   retry is served. Two live lines of tokens remain in one session, where
   `routes/oauth.rs:238` calls the token "a stolen copy".
2. `sdk_logout`: `refresh()` writes the tokens bauth answered into the store
   without a look at what it holds by then. A `logout()` of this or another tab
   that clears the store while the request is under way is undone: the store
   holds tokens again, contrary to `session.ts:43` and `session.ts:55`. The
   access token works until it expires; the refresh token dies with the session
   if the best-effort revocation arrives.

### Met while modelling

Windows that the models show and that the properties leave room for:

* A link sent to the old address logs in if the change of address commits
  between the check in `log_in` (`routes/magic_link.rs:301`) and the completion
  of the flow; `routes/email_change.rs:79` says such links "stop working on
  their own". A confirmation code (`routes/me.rs:251`) has the same window.
* `record_code_failure` (`queries/magic_links.rs:149`) writes NULL to
  `consumed_at` below the limit, so a wrong code that waited for the row of a
  link just confirmed clears its mark. `login_flows.completed_at` still refuses
  a second login, which `FlowCompletesOnce` shows.
* The day's wrong codes are counted by the creation of the email
  (`queries/magic_links.rs:124`), not by when they were typed, so a day that
  begins between two emails can hold more than the budget of `magic_code.rs:21`.
* The DELETE of accounts that were not verified in a week looks at nothing but
  the account, and takes every row of it along: also an email that its owner has
  just asked for, with the wrong codes counted on it, which gives those guesses
  back. `jobs/purge.rs:15` says of such an account that "nothing will use it".
  As the sub-select is not evaluated again, one that is verified between it and
  the DELETE goes, too. This is the exception `GoesWithAccount` in
  `UselessRowsOnly` and `PurgeKeepsBudget`; it takes an account that was imported
  or left by an older version, and the next email signs its owner up anew.
* A session that is revoked while a refresh waits for the row of its token is
  still refreshed once (`FOR UPDATE OF r` does not read the session again). The
  new token is refused at its first use; the access token lives its 15 minutes.
* `DELETE /me` and a change of address, a login, an exchange or a refresh of the
  same account can wait for one another. PostgreSQL ends one of the two after a
  second, and that call answers 500; nothing retries it.
* An API that cannot reach bauth goes on trusting the keys it has
  (`verifier.rs:227`), so it also trusts a leaked key for as long as that lasts:
  the exception in `LeakedKeyIsForgotten`.
* A caller behind a proxy can spend the budget of the proxy as well as its own,
  by a header value the server cannot read: such requests are all charged to one
  proxy on their way and share its budget. Requests that can be traced never pay
  for that (`RefusalIsDeserved`).
* If the connection that took the purge lock breaks, a second instance may purge
  beside the first: the exception in `OnePurger`. The DELETEs tolerate it, as
  `UselessRowsOnly` shows for overlapping purges.
* Two tabs do not share their refreshes, nor does a tab share one with a request
  it gave up on that bauth still handles. One that takes longer than half the
  grace period, or follows an answer that got lost, can then make bauth revoke
  the session as stolen: the exception in `NoFalseAlarm`.
* A refresh of an old session that is answered `invalid_grant` after a new login
  clears the tokens of the new one: `OnlyDeadSessionsAreForgotten` asks only
  that the session of the call be over.
* A trusted IPv4 proxy that reaches a dual-stack listener has an IPv4-mapped
  peer address, which `trusted_proxies` matches only if written so; all users
  behind it then share its budget.

## 4. Proofs

TLAPS proves the following for all values of the constants that satisfy the
`ASSUME`s of the module: any number of calls, tabs, instances, rows and
addresses, any budgets and windows, any clock. A run shows a property on a small
instance, the theorem in all of them. Every property of a passing run has a
theorem, but for the three named at the end of this section.

| Module | Theorem | States |
|---|---|---|
| `RefreshTokensProofs` | `ReplacedTokensStayDead` | `SupersededStaysDead` |
| | `GraceProtectsTabs` | `TabsKeepWorking` |
| | `TooLateMeansRefused` | `LateCallsAreRefused` |
| | `MarksNeverMove` | `MarksAreFinal` |
| | `NoCircularWait` | `SomeCallCanGoOn` |
| | `OneLateSuccessor` | `OneRetryLives` |
| | `RefreshImplementsFamily` | `RefinesTokenFamily` |
| `CodeExchangeProofs` | `CodeOpensOneSession` | `OneSessionPerCode` |
| | `MismatchNeverBurnsCode` | `MismatchKeepsCode` |
| | `ReplayEndsSession` | `ReplayRevokes` |
| | `ExchangeImplementsGrant` | `RefinesCodeGrant` |
| `MagicLoginProofs` | `GuessesAreLimited` | `GuessBudget` |
| | `EmailsAreLimited` | `EmailsAreCapped` |
| | `FlowsOutliveLinks` | `FlowOutlivesItsEmails` |
| | `FlowsLogInOnce` | `FlowCompletesOnce` |
| | `TooLateIsRefused` | `SpentNeverLogsIn` |
| `AccountProofs` | `GuessesAreLimited` | `GuessBudget` |
| | `NoCodeServesTwice` | `OneActPerCode` |
| | `LinksMoveAccounts` | `MovesFollowLinks` |
| | `NothingOutlivesItsAccount` | `DeletionIsComplete` |
| | `NoOtherCircles` | `OnlyDeletionsDeadlock` |
| `SigningKeysProofs` | `UnexpiredTokensVerify` | `TokensVerify` |
| | `AnInstanceAlwaysSigns` | `AlwaysSigns`, without an emergency |
| | `OneRotationAtATime` | `OnePending`, without an emergency |
| | `NoKeySignsPastItsEnd` | `RetiredNeverSigns`, without an emergency |
| | `EmergencyEndsSigning` | `LeakedKeyStopsSigning` |
| | `EmergencyEndsTrust` | `LeakedKeyIsForgotten` |
| `SdkSessionProofs` | `TabsRaiseNoFalseAlarm` | `NoFalseAlarm` |
| | `OnlyTheDeadAreForgotten` | `OnlyDeadSessionsAreForgotten` |
| | `ReportsAreDeserved` | `UnauthorizedIsDeserved` |
| `PurgeProofs` | `PurgersTakeTurns` | `OnePurger` |
| | `PurgeSparesUsefulRows` | `UselessRowsOnly` |
| | `PurgeGivesNoGuessesBack` | `PurgeKeepsBudget` |
| `RateLimitsProofs` | `NoMoreThanOwed` | `WindowBudget` |
| | `NoLessThanOwed` | `RefusalIsDeserved` |

Each module also proves `IInvHolds`, its inductive invariant, and `TypeCorrect`.

### Assumptions

The constants have their types and `None` is no identifier and no number.
Beyond that: `CodeExchange` has as many session identifiers as codes and
`MagicLogin` as many accounts as addresses, so that no call runs out of them;
`SigningKeys` takes the two "must exceed" comments of `signing_keys.rs` as
inequalities between its durations, with room for one refetch of a verifier;
`Purge` has no row in two tables (`TablesAssumption`), and codes and
confirmations that live no longer than the retention of what they go with (one
minute against a day, 15 minutes against a month); `RateLimits` has
`OwnersAssumption`, and trusts all addresses of a proxy or none of a user. TLC
evaluates all of them on every run.

### The inductive invariants

*RefreshTokens.* `SupersededStaysDead` is not inductive: it says nothing of a
transaction that is about to write. `IInv` adds that two transactions never hold
one row (`LocksExclude`), that what a transaction has read under its lock and
staged still agrees with the tables (`CallInv`: a token to be rotated is
unmarked, a successor to be replaced is unused and its parent past the grace
when the transaction began), that successors exist only below a rotated token
that was not replaced (`RowsInv`), and, for `LateCallsAreRefused`, that whatever
made a call hopeless when it arrived is still there for the check that is to
stop it (`HopelessInv`, `SnapshotInv`). `OneRetryLives` needs a second layer,
`RetriesInv`: a transaction replaces all unused successors of its token or none,
and between its UPDATE and its INSERT no other can add one. `SomeCallCanGoOn`
follows from `IInv` alone: a chain of waiting calls has two links at most.

*CodeExchange.* `ReplayRevokes` needs the reason of each refusal: either the
code was consumed, and then its sessions are revoked, or the account was
disabled and no other transaction is past the check of the account
(`RefusedInv`). `CallInv` records what a call has established of its code, and
`LocksExclude` that nobody can undo it before the call ends.

*The refinements.* From these invariants, the statement that commits maps to one
step of the abstract specification and every other statement to a stutter; the
staged marks are what the abstract step writes.

*MagicLogin.* `CallOk` is what a call has made sure of at each step, `SpentOk`
why one that came too late is still going to be refused, `LockInv` that one call
at a time checks a code of an address, `CreatesInv` that an account being
created is one call's. `Forward` says that the tables only move on (a link keeps
its flow, a flow stays completed); it carries the facts of the calls that stand
still. Two layers count. `EmailsInv`: emails sent, plus calls about to send one,
are at most the requests counted. `BudgetInv`: the wrong codes of the day are
within the budget, with room for one more while a call is about to count one.
Wrong codes are a set of pairs (`WrongCodes`: an email and the number of the
attempt), so that their sum is a cardinality; a sum over a table would need
induction, which the provers do not have.

*Account.* The same shape for confirmation codes (`BudgetInv`), with the lock of
the account. `ActsInv` counts: calls past `check_code` plus links sent are at
most the codes spent, per account and act, which is `OneActPerCode`. That a
deletion is complete is inductive once `CallOk` says that a call whose account
went has nothing left to write. `OnlyDeletionsDeadlock` follows from `IInv`: a
call that checks a code waits for nobody, so whoever waits for an account or a
row of it waits in the end for a deletion, and a deletion waits for a call that
holds a row of its account, which can only be waiting for it. The proof walks
this chain from any member of a set of calls that wait for one another; its
length is bounded, so no induction is needed.

*SigningKeys.* `SetInv` compares a key set in memory with the table now: what it
knows of a key is right, or the row changed after the set was read, and then
takes effect no earlier than `Prepublication` after it. `RotationInv` says that
the keys leave no gap (`Covers`) and that the advisory lock excludes a pending
key. `CacheInv` says what an API's cache can lack, and that a cache holds a leaked
key only if it was filled before the key sets of the time of the leak went out of
date. The theorems about signing
are stated up to an emergency: when the operator retires every key by hand,
there may be no key to sign with until the next reload makes one, and two keys
may be published at once; the theorems about leaked keys are about that time,
and `TokensVerify` covers both.

*SdkSession.* Two invariants carry `NoFalseAlarm`, one for each half of its
claim. `AloneInv`: while no two refreshes have been on the way at once, there is
one request at most (a tab's, or one it gave up on), the token it carries and the one in the store are neither
replaced nor have a used successor, and a store with another token holds another
session's. `PromptInv`: while no refresh was slow and no answer got lost,
nothing is replaced, and a rotated token in the store is about to be overwritten
by the call that had it rotated; so a tab that reads it does so within half the
grace period, and its own request takes at most the other half. `AnswerInv` says
that nobody has used the tokens of an answer on its way.

*Purge.* `SelectInv`: what a sub-select named is still past its retention when
the DELETE comes, or gone, or an account verified since; `RowsInv` is what makes
that stable (a flow or a session past its end gets no other end) and what says
that the rows a flow or a session takes along are over by then. `LockInv` ties
the advisory lock to the connection.

*RateLimits.* `ResolveFindsTheCaller`: whatever header and whatever chain of
trusted proxies, the address that is charged is one of those whom the request is
traced to: the caller's own, or, after a header that was dropped, the last
proxy's whose hop went with it.
`BucketInv` then relates the bucket to the record of what was let through: since
no instant has a subject used more than keeps its bucket busy (`Charged`), and
since some instant exactly that (`Exact`). The first is the budget, the second
that nobody pays for anybody else.

Each `IInv` was checked by TLC on the instance of a run before it was proved.

### Only model-checked

* Liveness: `CallsComplete`, `StaleRowsGo`, `FullKeysAreForgotten`. TLAPS has no
  rule for fairness.
* The two findings: TLC shows the counterexamples.

## 5. Left out, and next

Not modelled, and why: the mailer and the text of emails (I/O; a lost mail is a
link nobody uses); configuration, clients, CORS, errors, OpenAPI (no state that
changes); encryption of keys at rest and JWT encoding (library calls); the
extractors of `bauth_client` and its test helpers (glue); the login client of
the SDK (`client.ts`: requests, a PKCE pair and the flow kept for the way back)
and its generated schema; stores that answer later than at once (`keyValueStore`
over a keychain), where reading the store and sending a request are two turns;
`GET` routes, which only read.

The plan of modules and proofs is done. What a further round could add is
breadth: stores that answer later, and the login client of the SDK.
