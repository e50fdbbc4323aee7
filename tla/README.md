# Verification of Go-Gin-Template

TLA+ specifications of the stateful parts of this repository, the TLC runs that
check them on small instances, and TLAPS proofs of their most important
properties for every instance. All paths below are under `src/`. The map from
every definition to the lines it translates is in `PROJECT.json`.

## The system

A single Go process serves an HTTP API with Gin over PostgreSQL (GORM). `fx`
starts it: connect, migrate, seed, warm the permission registry up, listen.
Each request runs on its own goroutine through recovery, request ID, access
log, CORS, body limit, rate limit and timeout, then (in the authenticated group)
the JWT middleware, `Authorize`, and a handler that calls a service that calls
repositories. What makes it hard is that nearly every operation is several SQL
statements without a transaction around them, that authorization answers from
memory which is updated after the database, that the timeout middleware moves the
handler to a second goroutine, and that a deployment runs two processes against one
database.

| Component | State it keeps | Operations | Interacts with | What makes it correct |
|---|---|---|---|---|
| Accounts (`modules/auth`, `modules/users`) | `users` table | register, sign in, verify e-mail, request and complete a reset, change profile, password, status | links, registry, mail | a decision of an administrator stands; table and registry agree |
| Verification links (`verification_tokens`, `shared/crypt/token.go`) | one row per link | mint, claim, retire, expire | accounts | a link is redeemed at most once, for what it was minted for; one reset link works |
| Permission registry (`roles/domain/registry.go`) | grants, versions, levels, suspended set, in memory behind one RWMutex | Replace, SetRole, Suspend, Restore, reads | guard, sign-in, roles, accounts | agrees with the tables; suspension is immediate |
| Roles and grants (`modules/roles`) | `roles.perm_version`, `role_permissions` | replace a role's grants in one transaction, publish | registry, tokens | versions number the changes; a stale token stays refused |
| Seeders (`*/seeds`) | rows written at boot | insert with DoNothing | roles, accounts | idempotent; revocations survive |
| Timeout, recovery, access log (`shared/middleware`) | buffered writer, two channels, per request | write, flush, time out, panic | net/http, every handler | exactly one whole response; the log tells the truth |
| Rate limiter | buckets per caller | allow, sweep | every request, auth group twice | a caller never exceeds rate and burst but for what eviction gives it; who stays below is not refused |
| Boot, migrations, shutdown (`shared/database`, `cmd/api`) | `migration_records`, the pool | apply, seed, warm up, listen, drain, stop | all of the above | each migration once, in order, across crashes; nothing is served before it is there |
| Outbound mail (`shared/mail`, `messages/service/recording_mailer.go`) | a connection, `outbound_mail` | send, record | accounts, the request's context | a message that was sent leaves its record; nothing in the clear that was to be encrypted |
| Notifications (`modules/messages`) | `notifications` | send, list, mark read | accounts | one winner per MarkRead; nobody reads another's |
| Configuration (`config`) | the environment of a start | read, default, validate | every component | a bad start is refused, and says why; the middleware can rely on the rules |
| Gate (`cmd/api/routes.go`, `shared/middleware`) | where a request is in its chain | CORS, body limit, limiters, JWT, `Authorize` | configuration, limiter, handlers | the order of the chain decides who pays and who gets in |
| Health, logger, error translation | none between requests | | | not stateful |

## The modules

### Accounts

The `users` table (`row`), the `verification_tokens` table (`link`), the
registry's suspended set (`blocked`), the requests (`job`) and the process
(`up`, `boots`). A job is one HTTP request inside its handler. Its `pc` names the
next SQL statement or registry call and its `copy` is the handler's Go struct of
the row, because every write is GORM's `Save`, which writes every column of that
struct (`users/infra/user_repository.go:46`). So one action is one statement
and the statements of different jobs interleave:

| Action | Code |
|---|---|
| `Register`, `CreateAccount`, `IssueLink` | `AuthService.Register`, the insert, `issueLinkToken` |
| `Login`, then `SaveRow` | `AuthService.Login` up to the bookkeeping write |
| `PresentLink`, `ClaimLink`, then `VerifyEmail` or `ResetPassword`, then `SaveRow` | `consumeToken` (verify and find; conditional update), the rest of the handler |
| `RequestPasswordReset`, `RetireLinks`, `IssueLink` | the handler, `InvalidateOutstanding`, `issueLinkToken` |
| `ChangePassword`, `UpdateProfile`, `UpdateStatus`, then `SaveRow` | `UserService` |
| `PublishStatus` | `suspensions.Suspend` / `Restore` |
| `StatementFails`, `Crash`, `WarmUp`, `LinkExpires` | a failing statement, the process dying, `RoleService.WarmUp`, time |

A password stands for its hash, so re-hashing at sign-in changes nothing here.
Lookups that only improve an error message (e-mail and username taken) are one
step with the read before them: the unique indexes decide whatever they saw. The
field rules, the first and last names, the time stamps and the mails are left
out; a mail that is not delivered is a link nobody presents. A request bound to
fail before its first statement does not arrive. `Init` is any table of accounts
with unique names, with at most one unspent link for each user and purpose, and
a block list in step: what sequential requests leave behind. Requests may
overlap at every statement: nothing in the code keeps them apart.

`SingleUseLinks` is the abstract specification of links: minted, then redeemed by
one request or retired, for good. `LinksAreSingleUse` maps the links table and the
winners of `Consume` to it.

### RolePermissions

`role_permissions` and `perm_version` as committed (`grants`, `version`), the
registry, the changes in progress (`call`) and the tokens (`token`).
`ReplaceGrants` runs at READ COMMITTED, PostgreSQL's default, and its statements
are actions: `StartDelete` takes the snapshot of the DELETE, `FinishDelete` waits
for row locks and skips what is gone, `InsertGrants` waits for undecided keys and
may hit a duplicate, `BumpVersion` waits for the row lock, `CommitChange`. Rows
carry the transaction that inserted them, since two rows with one key, one
deleted and one new, must be told apart. `PublishRole` is `SetRole`, after the
commit. A sign-in is two reads of the registry (`ResolvePermissions`,
`ResolveVersion`), each under a lock of its own. `Accepts` is the version half of
`RegistryGuard.Check`. `Boot` is seeding and then the warm-up; `Crash` rolls open
transactions back.

A DELETE takes all its row locks in one step, so lock cycles between two DELETEs,
which PostgreSQL would break by failing one of them (`StatementFails`), do not
form. Roles are neither created nor deleted by this program.

Roles start with any grants. `InitialGrants` is what the seeder gives at a boot, so that one instance
can have permissions that are seeded and permissions that are not.

### AccountsHistory and RolePermissionsHistory

What a handler does to its own rows is easily right when nobody else is about. These two modules say
what is left of it when requests do overlap, fail and die. They extend Accounts and RolePermissions with history
variables, which look at each step and never restrain one, and the properties name by them the
crossing that is to blame for every departure. Nothing is assumed about how requests arrive.

| Variable | Records | So that one can say |
|---|---|---|
| `seen` | the row a job's copy was made from | a save that finds another row there loses an update (`LosesUpdate`), and that is the only harm saves do |
| `earlier` (accounts) | the reset links there were when a request for one arrived | those links die, whatever overlaps it |
| `astray` | accounts whose suspension a save changed with no publication of its own to follow (`Unannounced`) | block list and table otherwise agree; a restart empties the set |
| `earlier` (roles) | the rows there were when a change arrived | none of them survives the change |
| `crossed` | roles where a change was committed while another was to be published | otherwise the registry is in order, and answered changes govern |
| `unannounced` | roles with a commit that was reported as failed | otherwise the registry has the table's version |
| `mixed` | roles whose table holds more than the last change asked for | otherwise version and permissions go together |
| `doubtful` | sign-ins with a publication between their two reads, or of a role that a boot gave other grants | any other token that passes the guard carries the registry's permissions |

`crossed` and `unannounced` are mended by the next change that is served alone, and `mixed` by the next that
commits just what it asked for; a boot mends all three.

### RequestTimeout

One request: the handler's goroutine (`WriteHeader`, `Write`, `Return`, `Die`, the
two deferred calls), the middleware's (`SeeFinished`, `SeeExpired`, `SendTimeout`,
`AwaitHandler`), and the access log and recovery outside it. A body is a number
of pieces; `produced` is what the handler asked for and `buffer` what the
`timeoutWriter` holds, which is how a truncated or mixed response would show.
`wire` is what is written to the real writer. `Delivered` is net/http's part:
nothing in this repository calls `Flush`, so a response that fits its buffers
leaves when the goroutine serving the request returns. `REQUEST_TIMEOUT <= 0` only
calls `c.Next()` and is not modelled, and neither is the server's write timeout,
which ends the connection of a response that comes too late.

### MailDelivery

Extends `RequestTimeout` with what a handler that sends a mail does before it
answers (`Register`, `RequestPasswordReset`). `phase` is how far its call of `Send` has
got:

| Phase | Code |
|---|---|
| `compose`, `encode` | the composer, the rendering at the top of both drivers' `Send` |
| `dial`, `greeting`, `security` | `dial`, the banner and EHLO, `startTLS` |
| `login`, `password` | `authenticate`, `smtp.PlainAuth` |
| `envelope`, `body`, `commit`, `quit` | MAIL, RCPT, DATA; write and close; the answer to them; QUIT |
| `record`, `over` | `RecordingMailer.Send` after the driver; the handler goes on |

The server may refuse, hang up (`EndExchange`), fall silent (no step), announce any
extensions, or take the message and not be heard (`TakeMessage` without
`Acknowledged`). `policy` is the driver, `SMTP_TLS`, whether there are credentials and
whether the server is local. `inClear` is what has crossed an unencrypted connection.
`Insert` depends on the request's context, `expired` of `RequestTimeout`: the row is written
under it. How a message is composed and laid out is abstracted to whether it can be. The
dialer also gives up when the context is done, which is one of `EndExchange`'s reasons.

### RateLimiter

The stores (one per middleware), a bucket per caller, and where each request is inside
`allow`: `Lookup` is the critical section of the store's mutex, `Reserve` the call of
`limiter.Reserve` after it, `Cancel` that of `reservation.Cancel` and the 429, `Sweep`
one firing of the eviction ticker, `Tick` the clock. Time is in units of refill: a bucket
gains one per tick, a request costs `Cost`. What happens inside a bucket is
`golang.org/x/time/rate`, external: it is modelled from its documented arithmetic
(`NewLimiter`, `LevelAt`, `Reserved`, `Restored`, `Cancelled`), exact where the library uses
floating point, and reads the clock and takes its lock in one step. `Reserve` and `Delay`
are one step, although `Delay` reads the clock once more: a wait that runs out between the two lets the request in that
much later. `admitted`, `credit`, `disturbed` and `promise` are history: who was let through when, what a caller gained
when its bucket was forgotten, whether reservations of a bucket have overlapped, and until when a refused caller was
told to stay away.

That a bucket refills within `TTL` is not assumed: `validate.go` does not demand it, and the setting the comment on
`NewAuthRateLimitMiddleware` recommends does not have it. `Forgotten` is what a caller then gains, the difference between a
full bucket and what its limit leaves it, and `Clock`, a caller's own clock, runs ahead by it. So `NeverOverAdmits` says for every
configuration that is accepted what a caller may do at most, and `ForgettingIsFree` says when that is its limit. The one
assumption, `Stall <= TTL`, is that a call of `allow`, which does nothing but compute, takes less than ten minutes.

### Config

`Key` with its reader and default, `Misread` (what the reader refuses), `InForce` (values
after defaults), one operator for each `validate` function, and `Problems`, the list
`Load` refuses to start with. A value is what the rules tell apart. No state of its own.

### Gate

Extends `RateLimiter` and `Config`. First an operator mends an environment until the
service starts (`Reject`, `Start`): he sets every key that was reported (`Corrections`) and so that none of
these is reported again. Then requests go through the chain of middleware of
their route (`Chain`), which is what `registerRoutes` builds. `Arrive` runs a chain up to
the answer or the first limiter; `AskStore`, `ReserveToken` and `Refuse` are the limiter's
three steps, `ReserveToken` running the chain on when there was a token. Between two stores a
request shares nothing with another, so that part is one step. What a request carries (an
`Origin`, a length, a credential) is chosen when a middleware looks at it. Authentication is
abstracted to the ways a token can be refused; whether it is stale or its bearer suspended is
`RolePermissions` and `Accounts`. `Grants` and `HierarchyLevel` are the seeded ones.

### Boot

Processes that start, serve and stop against one database. `StartHooks` and `StopHooks` are
the lifecycle that `app/modules.go` composes; `at` is where a process is in it. The database
hook is `Connect`, `AutoMigrate`, `Validate`, `MigrateRecords`, `ReadVersions`, then
`Migrate`, `Record`, `Commit` for each missing version, then `RunSeeders` in any order (a value
group has none). A transaction's change is invisible until `Commit`; `Record` waits for
another process's uncommitted row with its key and fails when that commits. `Migrate` may find
the change made by another process and fail: which statement notices depends on the
migration. Then `WarmUp`, `Listen`; and on the way down `Stop`, `Drained` or `Deadline`,
`ClosePool`, `Exit`. `Die` is any failing statement, timeout or crash; `CommitUnacknowledged` a
COMMIT whose answer is lost. The orchestrator may start any release with any `ADMIN_*`,
`Invalid` ones included, with which every boot fails in the seeder. A start that cannot succeed (`Deployable`) counts as one of the
`faults`, like a crash: a service whose environment is never mended never comes up, and `ReachesService` does not say it does.

The template ships no migration (`migrationMap` is empty, which `{1}` applied already stands
for); what Boot models is the runner for those an adopter writes. The locks that a migration's own
statements take are not modelled: they could as well make the second process wait. The warm-up's three reads are one, since
while processes start rows are only added.

`MigrationLog` is the abstract specification: every change is made once, never before one
with a lower number. `MigrationsInOrder` maps the committed changes to it.

## The runs

All properties are safety properties unless marked (L). TLC explores each
instance completely.

| Run | Instance | Shows |
|---|---|---|
| `accounts` | 1 user, 2 links, 2 overlapping requests of any of the 8 kinds, a crash, failing statements, lost answers | `LinkRedeemedOnce`, `RedeemedAsMinted`, `AcknowledgedSuspensionHolds`, `RegistryAgreesWithRows`, `EarlierResetLinksDie`, `OnlyLostUpdatesHarm`, `WrittenSuspensionTakesEffect` (L); refinement `LinksAreSingleUse` |
| `accounts_unsuspend` | 1 user, verification and status change overlap | `SuspensionSticks` is violated |
| `accounts_two_links` | 1 user, 2 overlapping requests for a reset link | `OneLiveResetLink` is violated |
| `roles` | 1 role, 3 slugs of which 2 are permissions and 1 is seeded, 2 overlapping changes, 1 sign-in, every fault, a seeding boot | `VersionsDistinct`, `StaleStaysStale`, `ReplacementStands`, `RegistryFollowsTable`, `AnsweredChangeGoverns`, `AcceptedTokensAreCurrent`, `CommittedChangeTakesEffect` (L) |
| `roles_out_of_order` | 1 role, 2 overlapping changes, 1 sign-in | `OldVersionsRefused` is violated |
| `roles_seeder` | 1 role, 1 change, a restart | `RevocationsSurvive` is violated |
| `request_timeout` | a handler that sends mail: 13 mail policies, any server, 2 statuses, up to 2 pieces of body | `AnsweredOnce`, `ResponseIsWhole`, `LoggedStatusWasSent`, `ContextNotShared`, `NothingInTheClear`, `AttemptsAreRecorded`, `EventuallyAnswered` (L) |
| `request_timeout_late` | any handler, also one that never returns | `EventuallyAnswered` is violated |
| `rate_limit_refund` | 1 store, 1 caller, 2 requests | `EveryRefusalJustified` is violated |
| `rate_limit_forgotten` | the same, a bucket that refills in 2 ticks and is forgotten after less | `ForgettingIsFree` is violated |
| `gate` | environments with up to 2 of 20 keys wrong; 2 stores, 1 caller, 3 requests: one for anything, two for an auth route | `NeverOverAdmits`, `RefusalJustified`, `ComeBackLater`, `ThirdStartSucceeds`, `NoCredentialsForAnyone`, `TokensPayForHandlers`, `SeededAccess` |
| `boot` | 2 processes, releases `{1}`, `{1,2}` and the ill-numbered `{2}`, a seeded and a chosen password, half-set and invalid `ADMIN_*`, 1 request, 1 fault | `RecordsAreTrue`, `ServesWhatItStarted`, `ChosenPasswordStands`, `PoolOutlivesRequests`, `ReachesService` (L); refinement `MigrationsInOrder` |

Bounds. Requests are served once, so `Job`, `Call` and `Login` bound how many
arrive; `Link` bounds how many links are minted, `MaxBoots` how often the process
starts. `Init` starts from any state sequential requests leave, so a run of two
or three requests is a window into any history; every race found needs two.
A role of level 1, whose
every change is refused, would add nothing to `roles` but states. Symmetry is used for interchangeable values and never with a liveness
property. What lies beyond two requests of any kind, or two changes, is the proofs', which have no bound.

In `gate` a request costs 3 units, a bucket holds one request, idle buckets go after 1 tick, so before they have
refilled, and a request may stay in `allow` for 1 tick while the clock runs on (`Stall`); with 4 ticks (`MaxTime`) a bucket
is emptied and refilled, or forgotten before it is full and made anew. `NeverOverAdmits` and the two properties beside it speak of one caller at a time, and buckets of
different callers are different entries of the map, so one caller is enough; three requests
let a refusal fall between two others. The routes that only read are alike to every
definition, and so are those that change, so each kind is represented by one. Two keys wrong at once
are what it takes to hide one rule behind another; `ThirdStartSucceeds` then allows for one
more. In `boot` one fault together with two processes makes every pair of boots overlap at
every step, with either one dying; two versions are what order needs.

Fairness. A handler's steps are weakly fair in Accounts and RolePermissions: a
goroutine runs on and every statement returns or fails. A process that is down is
restarted (by an orchestrator), also in Boot, where what a process does by itself
(`Proceeds`) is fair and requests, signals and faults are not. In RequestTimeout the
deadline, the middleware and the deferred calls are fair; the handler's own code is
not, since nothing makes it return. In MailDelivery it is (`Proceed`, `Finish`), because
that handler waits for nothing after its mail, and so is `DeadlinePasses`: the dialer
has a timeout and the socket a deadline (`smtp_mailer.go`, `dial`), and the reader refuses an
`SMTP_TIMEOUT` that is not positive. Of the mail server nothing is assumed: that every such
request is answered in spite of it is what `EventuallyAnswered` shows. The arrival of requests
and faults is never assumed.

## Divergences between the code and its own words

Checked by a violation run:

- `accounts_unsuspend`: a verification link can un-suspend an account, against
  `auth_service.go:297`. The status is tested on a row read earlier and `Save`
  writes it back. The guard still refuses the account until the process restarts,
  and then admits it. Any handler that saves an account does the same to any column
  (`user_service.go:77` says "Only the fields present in the request are touched").
- `accounts_two_links`: two requests for a reset link both retire, then both mint
  (`auth_service.go:345-351`), and two links work, against `users/domain/verification_token_repository.go:29-30`.
  `EarlierResetLinksDie` says that only links asked for together work together.
- `roles_out_of_order`: `SetRole` is not ordered with the commits
  (`role_service.go:126`), so the registry can go back to an earlier version.
- `roles_seeder`: `DoNothing` cannot tell a revoked grant from one never given
  (`permission_seeder.go:28`).
- `request_timeout_late`: the client does not "already have its response"
  (`timeout.go:53`) while the middleware waits for the handler.
- `rate_limit_refund`: a cancelled reservation does not always "put the token back for
  whoever asks next" (`rate_limit.go:89-91`). When two refused requests of one caller overlap, the
  cancellations give back one token for two, and the caller is refused although it is
  below its limit. `RefusalJustified` shows that nothing else costs a caller a token.
- `rate_limit_forgotten`: that "a bucket that has been idle that long has refilled anyway" (`rate_limit.go:40-43`) is true
  only if the configuration makes it so, and nothing demands that it does. The "ten login attempts an hour" of line 154 refill one
  token in six minutes: with a burst of two or more an emptied bucket is forgotten before it is full, and the caller starts again with
  the whole burst. `NothingForgotten` proves the comment under `Full + Stall <= TTL`.

Seen in the same models. Each has a definition of its own, and TLC finds its counterexample when it takes the place of the
property in the configuration named:

- `SuspendedIsBlocked` in `accounts_unsuspend.cfg`: two status changes reach the table and the registry in opposite orders
  (`user_service.go:210-219`), which leaves an account that is suspended in the table and admitted by the guard,
  "not a suspension" by `users/domain/user_repository.go:80-81`. `RegistryAgreesWithRows` says what else can part the two.
- `LastWriteWins` in `roles_out_of_order.cfg`: two replacements of a role without grants commit their union
  (`role_repository.go:104-120`), where `role_dto.go:32-36` promises that the last write wins. `ReplacementStands` says what
  overlapping replacements do keep.
- `ComeBackOnTime` in `rate_limit_refund.cfg`: `Retry-After` is rounded down (`rate_limit.go:188`), so a client that obeys it
  to the second may be refused again. `ComeBackLater` allows a second more.
- `SentIsRecorded` in `request_timeout.cfg`: "a message sent and no record of it" (`recording_mailer.go:41-42`) is what comes of a
  deadline that passes, or a client that goes, between the server's answer and the insert, which runs under the
  request's context. `AttemptsAreRecorded` says that only this and a failing insert cost a record.

Seen while modelling, as assumptions, guards or weaker properties of the modules:

- "One boot reports everything at once" (`validate.go:12-13`) does not hold of a rule that
  needs another key's value: with `DATABASE_URL` unset, no other database key is looked at, and a
  wrong `RATE_LIMIT_ENABLED` or `MAIL_DRIVER` hides the keys it governs.
  `ThirdStartSucceeds` states what does hold, and `RefusedTwiceAtMost` proves it for any number of wrong keys:
  two refusals at most.
- `RATE_LIMIT_RPS=NaN` is accepted, since NaN is not `<= 0` (`validate.go:208`). The rule about an
  empty `JWT_ISSUER` cannot fire: its default is the application's name.
- A probe's path asked with another verb matches no probe, costs a token and is answered 405.
- The comment at `validate.go:47-48` says 503 where the timeout middleware answers 504.
- A panic leaves no line in the access log: the line is written after `c.Next()`, without a defer.
- "The whole exchange is bounded by SMTP_TIMEOUT" (`smtp_mailer.go:55`): dialing may take one
  `SMTP_TIMEOUT` and the rest another.
- A row of `outbound_mail` may say "failed" of a message the server took and could not acknowledge, and
  the log driver records "sent" for a message that nobody took
  (`outbound_mail_model.go:15-19`).
- A change of a role between the two reads of `Resolve` yields a token with the old permissions and the new version
  (`role_resolver.go:52-53`): `doubtful` in `AcceptedTokensAreCurrent`.

And with no interleaving at all: the second click on a verification link is answered
410 by `consumeToken` before the branch at `auth_service.go:290` that means to
answer it with success; and a repeated `MarkRead` is answered NOT_FOUND about a notification
that exists (`notification_service.go:149`).

## The proofs

| Module | Theorem | For every |
|---|---|---|
| `AccountsProofs` | `TypeCorrect`, `SingleUse`, `RedemptionIsAsMinted`, `SuspensionHolds`; refinement `ImplementsSingleUseLinks` | set of users, links, requests, kinds, faults, number of boots |
| `AccountsHistoryProofs` | `OnlyLostUpdatesDoHarm`, `EarlierLinksStayDead`, `BlockListAgrees` | the same |
| `RolePermissionsProofs` | `TypeCorrect`, `ChangesAreNumbered`, `StaleForever` | set of roles, slugs, changes, sign-ins, faults, number of boots |
| | `ReplacementsStand`, `RegistryFollows`, `AnsweredChangesGovern`, `AcceptedTokensCurrent` | the same |
| `RequestTimeoutProofs` | `TypeCorrect`, `OneResponse`, `WholeResponse`, `TruthfulLog`, `ContextHandedBack` | set of statuses, amount of body |
| `MailDeliveryProofs` | `AnyHandler`, `MailTypes`, `NoDowngrade`, `EveryAttempt` | set of statuses, amount of body; any policy and server |
| `RateLimiterProofs` | `LimiterTypeCorrect`, `NeverOverLimit`, `RefusalsAreJustified`, `ComeBackWorks` | set of stores, callers, requests, cost, burst |
| | `NothingForgotten` | the same, if a bucket refills within the idle time |
| `GateProofs` | refinement `GateLimits`; `GateNeverOverLimit`, `GateRefusalsAreJustified`, `GateComeBackWorks`, `GateTypes`, `RefusedTwiceAtMost`, `NoCredentials`, `AccessAsSeeded`, `HandlersArePaidFor` | set of callers, environments, origins, values an operator may set; finite set of requests |
| `BootProofs` | `BootTypeCorrect`, `RecordsTrue`, `InOrder`, `ServesStarted`, `ChosenStands`, `PoolOutlives` | set of processes, releases, passwords, requests, number of faults |

Every invariant, action property and refinement that a passing run checks is a theorem. Each module states an
inductive invariant, shows that `Init` implies it and that every step keeps it, and derives the properties. The
assumptions are the named ones on the constants (`AccountsAssumption`, `RolesAssumption`,
`TimeoutAssumption`, `MailAssumption`, `LimiterAssumption`, `NoBucketAssumption`,
`StoresAssumption`, `RequestsAssumption`, `EnvironmentAssumption`, `NotLoadedAssumption`, `RoutesAssumption`,
`AnswerAssumption`, `BootAssumption`), which TLC evaluates in every run of a module that extends theirs. All say
that sets and bounds are what they are meant to be and special values distinct, except `LimiterAssumption`, which
also says that a call of `allow` takes less than the ten minutes a bucket is kept, and `EnvironmentAssumption`: the text of a key is something that
key's reader can be given (only a number, a duration or a switch fails to parse as one, only a
float is NaN).

One theorem has a hypothesis of its own, `NothingForgotten`, whose property is false without it (`rate_limit_forgotten`). No
theorem assumes that requests, changes or boots keep out of each other's way. Where overlap does harm, the
property says which overlap, by a history variable, and everything else is covered.

The arguments:

- `AccountsProofs`. That no two requests won one link is not inductive: nothing says that a
  link somebody holds is a recorded one, for that request's account and purpose, and spent
  once it has been won. `IInv` adds that, that a job past its arrival works on an account
  that exists and a well-formed copy of its row, and that every recorded link belongs to an
  account. `OneJobMoves` then carries it over any step of one job that only lets the tables
  grow. For suspensions `SInv` adds that a request in flight was started by the process that
  is running, so a restart cannot be followed by a publish from before it. For the refinement `ClaimLink` is
  the step that redeems; a crash,
  like every step that is not about links, must leave the links' marks and the set of winners alone
  (`LinksStay`, `WinnersStay`).
- `AccountsHistoryProofs`. The steps of a request fall into three kinds: it arrives (`Arrived`), it makes a step
  (`Advanced`), or it saves. `HInv` says of each request that its copy differs from the row it read only in what the request is about
  (`Sound`, with `Keeps` of the property), so a save that finds the row it read changes no more; that every link in
  `earlier` is a reset link of the account, spent once they have been stamped, which stays so because links only grow
  (`LinksOnlyGrow`); and of each account that is not astray that the block list follows the row, or that the one publication to come
  carries its status (`Agree`). A process that is down has no request in flight, so a warm-up starts afresh.
- `RolePermissionsProofs`. Versions are distinct because a transaction that has bumped holds
  the row lock until it commits (`OneLockHolder`), so at its commit the version is the
  successor of the table's, and every committed version is at most the table's. A stale token
  stays stale because a version that is committed and not yet published is known neither to
  the registry nor to any token (`Unpublished`), which in turn needs versions to be distinct.
  For what overlapping changes leave behind `HInv` adds: rows carry the mark of a change that is committed or a boot that is past
  (`RowsSound`), so a change about to commit still holds all that is left of the rows it found (`Replaces`); where
  changes have not crossed, one at a time is to be published, and it is newer than the registry, which is as new as
  every answer (`Ordered`); where nothing was merged, whoever announces the last version announces the table
  (`Faithful`); and what a token without doubt says of its version is what registry and table say of it (`Current`). The last
  needs the table's version in its statement, because a boot fills the registry from the table.
- `RequestTimeoutProofs`. `IInv` says, for each place the middleware can be, what has been
  written, what the buffer holds, and whether the handler's goroutine has ended. The buffer
  is what the handler produced exactly as long as the middleware is in its select, which is
  why the response that is flushed is whole and the status that is logged is the one sent.
- `MailDeliveryProofs`. `StepMaps` shows that every step of a handler that sends mail is one of
  RequestTimeout's or leaves its state alone, so its `IInv` carries over (`AnyHandler`). `MInv` adds
  `Sealed` (past the upgrade a connection is as protected as `SMTP_TLS` asks) and `Accounted` (what has
  been handed over, taken and acknowledged at each phase).
- `RateLimiterProofs`. That admissions stay within the limit is inductive only together with what a bucket
  still owes: `Covered` bounds, for every admission so far, what has been admitted since plus what the bucket
  holds by a full bucket and the refill since then, on the caller's own clock. `Owed` is the same for a reservation that is yet to be
  cancelled, since its cancellation raises the level; `InDebt` and `Spaced` bound what `CancelAt` gives back by
  what was taken; `Present` says that the bucket of a request inside `allow` is not swept away under it, which
  needs `Stall` to be at most `TTL`. When a bucket is forgotten the clock goes forward by what the caller gains,
  or at least to where its last admission is a full bucket's refill ago, so nothing has to be assumed about how fast a bucket
  refills. `NothingForgotten` rests on `Dated`: a caller's last admission is no later than `Stall` after its
  bucket was last found, so at a sweep its limit has left it a full bucket anyway.
  That is a bound from above. `Exact` is the one from below, for a bucket whose reservations have not overlapped: it is
  full, or it holds precisely what the limit leaves its caller counted from some admission (`TightAt`); while one
  refused request waits, what is missing is what that request took (`RefusedAt`); and since a promise was made nobody
  has taken anything (`PromiseAt`). A refusal therefore names the window that was full.
- `GateProofs`. `GateLimits` is a refinement: under `InPlace` (a request inside `allow` waits in its chain for
  just that store) every step of the gate is one of RateLimiter or leaves its state alone, so its theorems carry
  over. `NoCredentials` needs that the configuration in force passed `ValidateCORS`; `AccessAsSeeded` that an
  answer agrees with the verdicts of the middleware before it (`Answered`). `RefusedTwiceAtMost` rests on how little
  the rules of `validate` look at each other: beside the key it reports, a rule looks at `Guards`, which no rule
  reports on account of anything but guards. So after the first correction everything can be read and the guards are right
  (`Settled`), and after the second nothing is left (`SecondCorrection`); the one rule that compares two keys
  that are both reported, that of the pool's sizes, needs an argument of its own (`PoolRule`).
  `HandlersArePaidFor` counts: the tokens a store has given out are as many as the requests that have passed it
  (`Counted`), whom `OnItsWay` finds between those that were handled and those that have to pay.
- `BootProofs`. `Local` says what a process at each step of its boot can rely on: what it found missing and has
  applied, which seeders are behind it. `Sole` says that no two processes hold the same version uncommitted, which is
  what the wait in `Record` is for; with it a commit adds a version that is not recorded yet, and, since
  a process applies the lowest it found missing and has seen the ones below, none before its turn (`InOrder`).

Model-checked only: the liveness properties, which are out of the prover's reach, and what a violation run alone speaks of.

## Not modelled, and why

- Notifications (`messages/service/notification_service.go`): each operation is one conditional
  statement on rows of one owner, and nothing is read before it is written. The page, the total and the unread
  count of a list are three queries; nothing promises that they agree.
- bcrypt, the layout of messages and the templates, wrapping and translation of errors: functions of one value.
  The modules keep the outcome.
- Health probes, logging and error tracking keep no state between requests. The request ID lets every
  request through.
- `Sign` and the signatures of tokens and links, which are taken as unforgeable. `RequireLevel`,
  `TouchLastLogin` and `DeleteExpired` have no caller.
- `loadEnvFiles`, which decides what the environment is before `Config` reads it.
- Field rules and JSON binding, page bounds, first and last names, time stamps: no property tells their
  outcomes apart.
- Two processes that serve for long, each with a registry of its own: the code's own documentation excludes it.
  Boot has two processes, as a rolling deployment does, and looks at what they do to the database.
- The guard as a whole: Accounts has its half about suspensions, RolePermissions the one about versions. It asks
  both and refuses when either does.

Worth adding next: the tiers of `loadEnvFiles`, and two long-lived processes side by side if the registry is ever shared.
