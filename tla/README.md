# TLA+ models of cgrates-ui

cgrates-ui puts three web portals (self-care, operator, admin) in front of a
CGRateS billing system. Three Go gateways share PostgreSQL and Redis, publish to
Pulsar, and six Go workers consume what they publish. Nothing in the repository
coordinates these processes beyond single SQL statements and Redis keys: there
is hardly a transaction, no lock, and the repository has no tests. The modules
here state what the code guarantees all the same, and where it does not.

Paths below are relative to the repository's root, `src/` in `PROJECT.json`.

## 1. Inventory

| Component | State it keeps | Operations | What makes it correct |
|---|---|---|---|
| Account lockout: `backend/pkg/auth/{selfcare,staff}.go`, audit trigger in `database/migrations/002` | `failed_login_attempts`, `locked_until`, `is_active` of one row | authenticate, count a failure, reset, block and unblock | enough wrong secrets lock the account however attempts overlap; the overshoot is bounded; counter and lock agree |
| Sessions: `pkg/auth`, `Login`, `RefreshToken`, `Logout`, `RevokeSession` handlers, `middleware/{jwt,blacklist}.go` | rows of `subscriber_sessions` / `portal_sessions`, keys `blacklist:<jti>` | create, rotate, revoke, put on the blacklist, test | what was ended stays ended; a refused token is not honoured again; exchanges of one refresh token are bounded |
| Idempotency: `middleware/idempotency.go` | `rpc_idempotency_keys`, keys `idempotency:<portal>:<key>` | look up, run the handler, store, replay | a retry does not run again; replays are responses of successes, to the same body |
| Batching workers: `workers/{audit-consumer,cdr-processor}` | one slice, shared by three goroutines | receive, append, acknowledge, flush, shut down | no acknowledged event disappears for an unknown reason; the topic is worked off |
| Rate limiter: `middleware/ratelimit.go`, `redis.go` | a sorted set per key | admit or refuse | what is admitted in a window is spread over a bounded number of seconds; users do not get in each other's way |
| Cached configuration: `pkg/branding`, `pkg/i18n`, the admin handlers that write, `workers/cache-invalidator` | Redis entries, the `config.changes` topic | cache-aside read, write and invalidate, invalidate on an event | readers see a write at the latest when the entry expires |
| Staff users and MFA: `Login`, `SetupMFA`, `VerifyMFA`, `DisableMFA` of the operator and admin gateways, `UpdateUser`, `DeleteUser`, `ResetUserMFA`, `ResetUserPassword` | one row of `users` | log in, set up, verify, disable, use up a backup code, deactivate | backup codes log in a bounded number of times; MFA is on only with a proved secret; deactivation reaches logins under way |
| Middleware chain: `*/cmd/main.go`, `middleware/*` | none of its own | JWT, limiter, idempotency, CSRF, blacklist, MFA, permissions, in this order | the order does not undermine what each of them promises |
| Balance adjustment, top-ups, bulk commands: `operator-gateway/handlers`, `selfcare-gateway/handlers`, `pkg/cgrates` | messages on topics, the balances in CGRateS | RPC with a fallback command, publications | an adjustment is applied, and as often as its causes allow |
| Tariffs, freeze: `operator-gateway/handlers` | `tariff_sandbox`, `balance_frozen_at` | status changes | |
| Audit publication: `middleware/audit.go`, `pkg/pulsar` | none | publish | every request is audited |
| Balance monitor, e-mail and SMS consumers | trigger presets, templates, message positions | act on an event, acknowledge | what is acknowledged was acted on; mails are rendered; topics are worked off |
| Administration of tenants, users, roles, API keys: `admin-gateway/handlers` | the tables | single statements | references between tables hold |
| Front ends: `frontend/*/src` | token pair in local storage, the queue of requests waiting for a refresh | call, refresh, retry | every call settles |
| Wrappers, configuration, infrastructure: `pkg/{db,cgrates,config,models,security,storage}`, `infra` | none | I/O | |

How they interact: gateways and workers share nothing but the three stores. A
handler is a goroutine per request; each of its statements is atomic on its own
and takes effect or fails on its own, and most errors after the first statement
are assigned to `_`. Redis entries disappear with time. Pulsar delivers again
what a consumer did not acknowledge before it went away.

What is hard to test in this code, at its lines, is listed in `PROJECT.json`
under `hazards`, each with the properties that cover it or the reason why none
does. The recurring kinds are: a test in one statement and the write in a
later one; a dropped error between two writes to two stores; clocks that run
out on one side; a Go slice used by several goroutines; acknowledging before
persisting.

## 2. Modules

| Module | Models | Proofs |
|---|---|---|
| `Lockout` | the lockout of one account with any number of concurrent attempts | `LockoutProofs` |
| `Sessions` | the sessions of one account, rotation, logout, the blacklist | `SessionsProofs` |
| `Idempotency` | the middleware for one key | in `GatewayProofs` |
| `TokenLife` | the abstract life of token pairs, implemented by `Sessions` | in `SessionsProofs` |
| `CacheAside` | one cached branding or locale, its readers, writers and the cache-invalidator | `CacheAsideProofs` |
| `BatchWorker` | audit-consumer and cdr-processor | `BatchWorkerProofs` |
| `StaffLogin` | the row of one member of staff, logins with a second factor at two gateways, MFA and user administration | `StaffLoginProofs` |
| `RateLimiter` | the sliding window in Redis, with overlapping pipelines | `RateLimiterProofs` |
| `Gateway` | the chain of middlewares around that of `Idempotency`, which it extends | `GatewayProofs` |
| `Billing` | adjustments, commands and top-ups, balance-monitor, email-consumer, and the topics between them | `BillingProofs` |
| `Template` | `replaceAll`, used by `Billing` | in `BillingProofs` |

`MC<Module>` extends a module with the symmetry its runs use. Definitions named
as "a slip to compare with" are variants of the definition below them with one
plausible mistake; they are not part of any specification and serve to see that
each property notices such a mistake (`mutants` in `PROJECT.json`).

### Lockout

One row and `Attempts` goroutines. `Admit` is `Authenticate` up to the bcrypt
comparison: the SELECT and the two tests. An attempt that is turned away changes
nothing and is not an action. `RecordFailure` and `ResetFailures` are the two
UPDATEs; their CASE expressions are `FailedAfter` and `LockAfter`. The UPDATEs
evaluate the row as it is then, not as it was read. `LoseWriteBack` is an UPDATE
whose error is dropped. `SetActive` is the operator's block and unblock.
`AuditAccepts` says whether the audit log's CHECK takes the row the UPDATE's
trigger inserts: the trigger writes portal type `system`, since no gateway sets
`app.current_portal`. Where it does not, every UPDATE of the row fails. `wrongs`,
`lost` and `rejected` only observe: they count the wrong secrets, the lost
write-backs and those the trigger took down since the last window began, which is
when a lock ran out or a login reset the counter. `CountedFailuresLock` is what
holds with either audit log: failures whose UPDATE took effect lock the account.
`LockAfterMaxFailures` is what the documents say, which excuses lost UPDATEs only.
Clocks of gateway and database are taken to be one.

### Sessions

A session's id is the `jti` of both of its tokens. Every statement of
`RefreshToken` (SELECT; UPDATE; INSERT; SET) and `Logout` (UPDATE; SET) is an
action, `req[r]` is the place of request r in its handler. The UPDATE may fail
(`LoseRevoke`) and the handler goes on; any later statement may fail or the
gateway stop (`GiveUp`). `RevokeOther` is `DELETE /profile/sessions/:id`.
`AccessHonoured` is what the two middlewares let through while Redis answers:
when it does not, `IsTokenBlacklisted` says "no", and `RevokeOther` is
therefore guarded by the token alone, as is `Logout`, which is registered
without the blacklist middleware. Signatures and token hashes are
taken to be right: what is modelled is what becomes of tokens that were issued.
`ExchangesBounded` bounds what rotation does not prevent: two refreshes that
overlap both pass the SELECT, and one refresh token yields two live sessions.
Blacklist keys leave Redis by their expiry only: that Redis evicts keys when it runs
out of memory, or comes back without them after a restart, is not modelled; either
would make a refused access token good again for the rest of its minutes.

`TokenLife` is what a user may rely on, without rows, keys and clocks: a pair is
issued once with both tokens good, and each token may be refused, for good.
`Sessions` maps to it by asking what the gateways would say of each token now
(`AccessJudged`, `RefreshJudged`); `ImplementsTokenLife` is the claim that every
step, in particular a tick at which a token, a blacklist key or both expire, is
a step of `TokenLife`.

### Idempotency

One key, with `Requests` that carry it; a body is its hash. `step[r]` walks through
the middleware: Redis, table, handler, table, Redis. A stored response is named
after the request that produced it. Each store may fail at each access: a failed
GET is `MissCache`, a failed SELECT is `MissTable` (the middleware does not tell
`ErrNoRows` from other errors), failed writes are the second disjuncts of
`Store`, `Cache` and `Recache`. The handler itself is a choice between a JSON
object, another 2xx and an error. A response written to the client but not stored
is an `Abort`, as is every other end of the request's goroutine.

### CacheAside

One entry of Redis and the rows it is made from, named by the number of UPDATEs
they reflect. A reader is `Select`, then `Fill`; a hit changes nothing and is no
action. `branding` reads one row; `i18n` reads many, skips those that do not scan and
does not ask whether the result set broke off, so that `Select` may yield a part
(`part`) and `Fill` make an `incomplete` entry of it.
`UpdateBranding` and `ImportTranslations` commit, delete the entry and publish; `UploadLogo` commits and publishes only. An import is one commit per
translation before its one DEL. `Publish` may fail to send, because its goroutine
uses the request's context. The worker processes an event and acknowledges it
in two steps, and may be restarted in between. `Expire` is the entry's lifetime
running out, at any time: nothing depends on how long it is. `late`, `cleared`
and `lost` observe why an entry may be out of date.

### BatchWorker

The array of the slice, its length, and three goroutines. `append` is two steps
(`Append` writes the element and has read the length, `Grow` writes the header),
`flushBatch` is the test, the reading of the header, one `Insert` per element,
and the truncation. `AppendFits` shows that the array is never exceeded, so that
there is only one array and only the length of a header varies; with that, the
races of this program have no outcomes other than the interleavings here.
`Signal` is `cancel()`; from then on each INSERT fails. `Exit` and `Crash` end
the process and start it again, with an empty slice; what was not acknowledged
is delivered again. `why[e]` records what may have cost e its row: its INSERT
`failed`, or ran after the cancellation (`cancelled`), the process `stopped`
with e in the batch, or a truncation `swept` it away.

### StaffLogin

The row of `users` that both gateways read and write, and `Requests` logins or
verifications. `AdminLogin` and `OperatorLogin` are `Login` up to the first write:
`Authenticate`, and, when this gateway asks for it, a code. A TOTP code leaves
nothing behind; a backup code `c` leaves `Remaining(c)` of the list that was read,
which `WriteBack` stores later, whatever has happened to the row since.
`CreatePortalSession` is the INSERT of the session. `VerifyMFA` and `EnableMFA`
are the two halves of the handler of that name. The row's other writers are one
action each. `Update` is an UPDATE that takes effect or whose error is dropped;
`UpdateUser` reports its error and then changed nothing. `accepted`, `proved`,
`stale` and `late` observe what the properties speak of. Codes are numbered, and
those of one set-up are a block of numbers; a password is the number of resets
before it, and a login carries the one it was compared with. Session rotation is
not here: it tests neither `is_active` nor the password (`Sessions`).

`AcceptancesBounded` answers how often "one-time" codes
(`docs/development/PHASE1_MFA_SPEC.md`) log in: with k requests at a time and n
codes at most `Uses[k, n]` times, a number of the kind of Pascal's triangle,
because a login that has read early may restore what others have used up.

### RateLimiter

`Begin` reads the clock, `Count` is `ZREMRANGEBYSCORE` and `ZCARD`, `Add` is `ZADD`
and `EXPIRE` (`Enter`) with the answer. A pipeline is sent in one piece but is not a
transaction, so that commands of others come in between. `FailOpen` is Redis not
answering: the client sends the pipeline `Again`, with the time of the first try,
or gives it up and the request passes unlimited; the commands may have taken
effect all the same. `Delay` bounds how long a pipeline is under way, as the
client's timeouts do, and is less than the window. The set is one of seconds,
because its members are. Clocks of gateways and Redis are taken to be one.

`Portal` says what a key is made from. `selfcare` has a window of a minute and one
key for all, since its tokens name no user; `operator` and `admin` have a key per
user and a window of a second; `login` is the limiter of the login routes of all
three, which has a key per address and a window of a minute. So windows fill in
self-care and at the logins.

Three things are visible in the model that its properties make precise. Requests
of one second count once: `AdmissionsSpread` bounds the seconds, and nothing
bounds the requests. A window of one second, as the two staff gateways
configure it for their API, therefore never fills with a limit above 1. And refused
requests count: `RefusalsAreDue` says that a refusal needs requests of the key in `Limit`
different seconds of the window, refused ones included. `LimitIsPerUser`, what the
documents promise, asks for as many of the refused user himself.

### Gateway

`Gateway` extends `Idempotency` and puts its actions into the chain, with the rest of
the chain for their handler; `ChainInit`, `ChainNext` and `ChainSpec` are the
chain's. `Arrive` is the JWT and the limiter, `Deduplicate` what the middleware does itself, `Pass` the
checks behind it, `Refuse` one of them refusing, `Handle` the handler. The
blacklist is tested where the code tests it: after the lookups of the idempotency
middleware, by a read of its own, which says "no" when Redis does not answer.
`ImplementsIdempotency` says that the chain implements `Idempotency`: what
holds there holds for every gateway, refusals included. `Plain` are requests the
middleware lets pass without looking at them. A retry with a revoked token is
answered with the stored response, because the middleware stands before the
blacklist: no property forbids it, and `RevokedRunsNothing` and
`RepliesWerePermitted` say what is left of it. `ChainTypeOK` besides relates the two
modules: while a handler runs the middleware is at its `next(c)`.

As the gateways are wired, `SetCSRFCookie` has no caller and `Claims.Permissions`
is never filled (`GetUserPermissions` returns an empty list), so that a
mutating request needs a cookie its client made, and `RequirePermission` lets the role
`root` through only. The model leaves each check a choice and does not
depend on that.

### Billing and Template

`kind[r]` says which handler a request is: `AdjustBalance`, one of the bulk commands, or
`TopUp`. `Call` is the RPC, which may be applied and report an error all the same,
as a timeout does; `Answer` sends 202 and may start a goroutine with a
publication. `Send` is that goroutine's end. `Cancel` is what ends a top-up's
goroutine: it has the request's context, which ends with the answer; the others
have `context.Background()`. `Monitor` loads the triggers and starts one
goroutine for each that matches. The SELECT may fail, a row may not scan, and nobody
asks whether the result set broke off: any subset of the triggers may be `loaded`,
and the charge is acknowledged with the others left out (`unloaded`).
`Execute` is the service that carries commands
out, which is not in the repository. `SendMail`, `FailMail` and `Crash` are the
outcomes of `sendEmail`. A consumer receives one message at a time; a failed mail
is neither acknowledged nor rejected and stays with the client (`Skip`) until
the consumer goes away. The SMTP server is taken to be configured; with the
default configuration mails are logged and acknowledged.

`Template` models what `replaceAll` does to a text of pieces as long as the
placeholder. Every iteration of its outer loop searches from the beginning, so that
a second iteration finds the first match again and slices from its end to its beginning:
the process panics whenever as much text as the placeholder follows the
first match, as in all three templates of `database/seeds`. The mail is delivered
again after the restart. `SentIsRendered` shows that what comes out otherwise is
right, and `EventuallyWorkedOff` what remains: such a mail blocks the topic.

## 3. Runs

| Run | Bounds | Shows |
|---|---|---|
| `lockout` | 3 attempts, limit 2, lock of 2 ticks, clock to 6, 1 lost write-back per window | `CounterMatchesLock`, `CountedFailuresLock`, `WrongsBounded` hold |
| `lockout_migration` | the same, audit log as the migrations make it | `LockAfterMaxFailures` fails |
| `sessions` | 4 sessions, 2 requests, access 2 and refresh 3 ticks, clock to 5, 1 lost revocation; with a third session the clock stands at 0 and nothing is lost | `EndedIsUnusable`, `ExchangesBounded`, `ImplementsTokenLife` hold |
| `idempotency` | 3 requests, 2 bodies, lifetime 1, clock to 2 | `SequentialOnce`, `ReplayIsOfSuccess`, `TableReplayMatchesBody` hold |
| `cache` | 2 readers, 2 writers of all kinds, 2 writes, 2 failures, fair | `StaleExplained`, `EventuallyCurrent` hold |
| `batch` | 3 events, batch of 2, 1 restart | `AppendFits`, `LossAccounted` hold |
| `batch_live` | the same, one malformed event, fair | `EventuallyAcked`, `PartialBatchFlushed` hold |
| `staff_login` | 2 requests, 2 set-ups of 2 codes, 2 roles, 1 password reset, 1 lost UPDATE | `AcceptancesBounded`, `EnabledIsProved`, `LateSessionsBounded`, `CodesGoForGood` hold |
| `rate_limiter` | self-care, 2 requests, 2 users, limit 2, window of 4 s, delay of 1 s, clock to 4 | `AdmissionsSpread`, `RefusalsAreDue` hold |
| `rate_limiter_users` | the same | `LimitIsPerUser` fails |
| `gateway` | 2 requests with a key, 1 without, 2 bodies, 1 token, lifetime 1, clock to 1 | `RevokedRunsNothing`, `RepliesWerePermitted`, `ImplementsIdempotency` hold |
| `billing` | any 2 of a request, a charge and two mails; 2 triggers, 3 texts, 1 stop; fair | `ApplicationsBounded`, `FiringsAccounted`, `AckedMailWasSent`, `SentIsRendered`, `EventuallyApplied`, `EventuallyWorkedOff` hold |

Every passing run but `batch_live` also checks the module's `TypeOK` (`ChainTypeOK` in `gateway`).

Why the bounds suffice. `lockout`: three attempts are one more than the limit,
so that attempts admitted together pass it; the clock sees two locks run out
and the instants of equality. `sessions`: the clock runs past the expiry of a
blacklist key set at any time of a session's life (2 and 3 ticks order them),
the second session is the successor of the first, and two requests contend for
either. `ExchangesBounded` needs no time but ids: one root, and three
successors of it would be one too many. `FewSessions` keeps the two apart, so
that four ids and five ticks do not multiply. `idempotency`: a first call, one that
overlaps it with the other body, and a retry of either, on both sides of an
expiry. `cache`: any two of an update, a logo and an import overlap, the second write
also follows while the event of the first is on its way, one reader is late while another is not, and
a SELECT breaks off next to a DEL that fails.
`batch`: a full batch, one event more that falls into a flush or opens
the next batch, and a restart after which messages are delivered again.
`staff_login`: one login overlaps another, or a verification, on a list of
codes that can run empty, with a second set-up in between. `rate_limiter`: two pipelines
overlap on one key, one is sent again, the window fills with requests of one user or of both, and
the first second leaves it. `gateway`: an original and
its retry with the same or another body, and a request beside them, on both sides of a
revocation and an expiry. `billing`: the charge matches both triggers, by either
condition, or none; the two mails share one consumer; each process is stopped at any point. Symmetry
is used where values are interchangeable and no liveness is checked; the bodies
of `Idempotency` are not, because Init picks one for the empty row.

Deadlock is checked where the system goes on for ever. `CHECK_DEADLOCK FALSE`
stands in the runs of `Idempotency` and `Gateway` (each request ends and the
clock is bounded), of `RateLimiter` (the clock is bounded), and in those of
`BatchWorker` and `Billing` (the topics run dry).

Fairness is assumed in three runs. In `cache`: weak fairness of the expiry,
which Redis sees to, and of a reader that has selected, which sets or fails; none
of writers and worker. In `batch_live`: weak fairness of the receiver, of each
goroutine inside `flushBatch`, of the ticker until the cancellation, and of
`main`'s return. The Go scheduler is fair to runnable goroutines, the ticker
ticks by the clock, and the calls to Pulsar and PostgreSQL return. None is
assumed for signals, crashes or the success of an INSERT. In `billing`: weak
fairness of a handler's answer, of the goroutines that publish, and of the
consumers' loops, for the same reasons. None is assumed for requests to come in, for stops,
for the outcome of the RPC or of `Send`, or for mails to be accepted.

## 4. Where code and documents differ

- The documents tick off that the audit log accepts portal type `system`
  (`docs/development/PHASE1_MFA_SPEC.md:150`); the migrations do not. With them a failed login is never
  counted and the account never locks. The run `lockout_migration` ends with
  the counterexample, and `findings` quotes the lines.
- `docs/SECURITY.md:157` limits the users of self-care one by one, to 30 requests a
  minute. The key is made from `UserID`, which their tokens leave zero: all
  subscribers share one key, and the run `rate_limiter_users` ends with one who is
  refused for the requests of another.

What else came up, and how the properties are stated to be true all the same:

- `README.md:136` promises protection against duplicates. It covers retries
  that follow the stored response (`SequentialOnce`), not those that overlap
  the first call or follow a store that failed.
- `docs/DATABASE.md:214` promises invalidation on every update. A reader may set
  what it read before the update after it, until the entry expires
  (`StaleExplained`, `EventuallyCurrent`).
- `docs/SECURITY.md:267` has events reach PostgreSQL through the audit-consumer. The last
  flush runs with a cancelled context, and a flush truncates what was appended while
  it inserted; `LossAccounted` names these as two of the four causes of a loss. The events
  the audit middleware publishes go to the gateways' default topics, which the audit-consumer does not read.
- `docs/development/PHASE1_MFA_SPEC.md:87` calls backup codes one-time; see `AcceptancesBounded`.
- `email-consumer/cmd/main.go:102` speaks of a retry or a dead-letter queue for
  mails that failed; there is neither, and they wait for the next restart.
- The history row of `AdjustBalance` has the operation `credit` or `debit`, which
  the CHECK of `balance_history` does not admit; its error is dropped.
- `CreateSubscriber` drops the error of `SetAccount`, `balance_frozen_at` is
  written and never read, and the idempotency middleware's recorder replaces the handler's
  status.
- In the front ends, a call that has done the refresh itself goes on to wait for
  its outcome after it has been announced (`services/api.js:88`).

## 5. Proofs

`tlapm` proves the following for all values of the constants that meet the
modules' assumptions (finite sets, positive limits, `AccessTTL <= RefreshTTL`).

| Module | Theorem | Argument |
|---|---|---|
| `LockoutProofs` | `TypeCorrect`, `CounterCoupled` | `TypeOK` and `CounterMatchesLock` are inductive together |
| | `LockFollowsFailures`, `OvershootBounded` | `WindowInv`: every wrong secret of the window is in the counter, lost or rejected; once a lock has run out only ones without effect have been seen; and the wrong secrets seen plus the attempts in flight stay below the bound |
| | `ShippedCheckNeverLocks` (assumes `"system" \notin AuditPortals`, as in `migrations/001`) | no UPDATE takes effect: the counter stays 0, and no lock is set |
| `SessionsProofs` | `TypeCorrect` | `RowInv`: types; a request past its first step works on a session that exists; ids not yet used are untouched |
| | `SessionsImplementTokenLife` | initial states map to initial states, an INSERT issues a pair, every other step refuses tokens or does nothing to them; from `BanInv`: no session was born in the future, and a blacklist key, once set, outlives the access token it is for, because `AccessTTL <= RefreshTTL` |
| | `EndedStayEnded` | `EndInv`: an ended session's row is revoked, and so is that of a clean request past its UPDATE |
| | `ExchangesAreBounded` | `ExchangeInv`: while the row is live only lost UPDATEs can have led to successors; once it is revoked no request joins those that are exchanging it, and successors plus these stay below the bound |
| `GatewayProofs`, of `Idempotency` | `TypeCorrect`, `RetriesRunOnce` | `PromiseInv`: the table's expiry is the latest promised one, so a lookup before it finds the row |
| | `ReplaysAreSuccesses`, `TableReplaysMatch` | `ReplayInv`: both stores, and requests about to write or send a response, name a request that ran with success, and the hash in the row is that of its body |
| `CacheAsideProofs` | `TypeCorrect`, `StalenessExplained` | `CacheInv`: the newest version has been cleared for, or is to be, or its invalidation is lost; an event in processing has had its effect or never will; an entry not set late is as new as the last DEL |
| `BatchWorkerProofs` | `TypeCorrect`, `AppendAlwaysFits` | `ArrayInv`: only the receiver makes the slice grow, and it is back at receiving only with room left; every slot a flush may still read holds an event |
| | `LossesAccounted` | `KeptInv`: what a flush has read has a row or a cause; what is acknowledged or about to be has one of them or is in the batch |
| `GatewayProofs`, of `Gateway` | `ChainImplementsIdempotency`, `ChainKeepsPromises` | a refusal behind the middleware and the handler are both its `next(c)`, a step `Run`; nothing else of the chain touches its stores |
| | `ChainTypeCorrect` | types of the middleware by its own steps, of the rest by those of the chain; a request that is inside moves through the middleware, one at its handler does not |
| | `RevokedAreStopped` | `RevokedInv`: a request that came too late and has passed the blacklist did so unchecked |
| | `RepliesArePermitted` | `PermittedInv`: both stores, and requests about to write or send a response, name a request whose handler has run |
| `StaffLoginProofs` | `TypeCorrect` | `Row` and `Entry` are the types of the row and of a login under way; every UPDATE writes a `Row` |
| | `CodesStayGone` | step by step: a write-back restores only codes of its own copy, and a set-up brings codes with new numbers |
| | `EnabledWasProved` | `ProvedInv`: a verification under way has proved the secret it read |
| | `LateSessionsAreBounded` | `LateInv`: the sessions counted plus the logins that are `Overtaken`, each of which may still add one, stay within the number of requests |
| | `AcceptancesAreBounded` | `AccountInv`: each set-up has an account, what its first n codes may still yield for every n, that stays within `Uses` together with what was accepted; see below |
| | `OneAtATime` (assumes one request) | `Uses[1, n] = n` |
| `RateLimiterProofs` | `TypeCorrect` | the seconds in the set are of the past, so they are finitely many |
| | `AdmissionsAreSpread` | `SpreadInv`: a pipeline ends within `Delay`; what was let through is in the set, and the key alive, for a window; who was let through, or is about to be, has at some time since its own second counted fewer than the limit of what it was sure to see then. The last of them in a window has seen all seconds but those within `Delay` |
| | `RefusalsComeLate` | `DueInv`: the set under a key holds only seconds of requests with this key, and so does a count on its way back |
| `BillingProofs` | `TypeCorrect` | `RunInv`: a message done with is held; a charge not held and not acknowledged has been delivered at most as often as the monitor was stopped |
| | `AdjustmentsAreBounded` | `QueueInv`: the service holds one command at most; each comes from a handler that has answered with its RPC failed, or from one delivery of a charge. `ApplyInv`: applications are at most the RPC's, plus the commands done with, plus the stops that made one of them forgotten. Commands about a charge are told apart by trigger and delivery, and so are no more than triggers times deliveries |
| | `FiringsAreAccounted` | `FireInv`: the same for the charge the monitor is done with and has not acknowledged; a message moves from its goroutine to its topic or is lost |
| | `AcknowledgedIsSent` | `MailInv`: the same for mails |
| | `SentMailsAreRendered`, `PlaceholderInFrontPanics` | `ReplaceAllRounds` solves the loop's recursion: after the first round it ends or panics; `FirstMatchFinds` by a least element |

Few of the properties are inductive by themselves, since each speaks of the state
at rest and not of handlers half done; the invariants add where those stand.
The theorems about `Lockout` hold with either audit log; what the migrations make
of it is `ShippedCheckNeverLocks`. `ChainKeepsPromises` follows from `ChainImplementsIdempotency`
and the theorems about the middleware alone. The theorems about `Billing` assume that
ids of requests, charges and letters differ, that there are finitely many triggers, with one
of the two actions `executeTrigger` knows, and that texts are sequences.

`AcceptancesAreBounded` counts who may still use which code. A request that will read the
row may use the first codes of it, one for each code the row holds; a login with a write-back before it
may use all it has copied but the first, since it must write first (`MayUse`). `Worth` is what the
(n+1)st code yields when that many requests may use it. A login takes one from the first code;
a write-back of n codes lets all the others that are free use the first n again and gives up the
writer's own right to the code after them, which is worth more by Pascal's rule and because the
worth of a code grows ever faster with the number of users (`ExtraConvex`). `CodesInv` keeps
set-ups apart: the codes in one place are of one set-up, a copy lacks one, and those of a
set-up to come are nowhere. The lost UPDATEs are left out because each may spare the codes of one more login.
Before any of this, `UsesEquation` proves that `Uses`, a recursive function of two arguments, is what
its definition says: there are functions that obey the equation up to any bound, and they agree.

Where a proof needs an induction over numbers, it takes the least element of a set of
them (`Least`, in three of the modules): the library's induction rules have an operator for a parameter,
which the provers cannot instantiate, and well-foundedness of the naturals does not.

Only model-checked: `EventuallyAcked`, `PartialBatchFlushed`, `EventuallyCurrent`,
`EventuallyApplied` and `EventuallyWorkedOff` (liveness under fairness is beyond
the prover), and the two counterexamples.

## 6. Not modelled, and what could follow

- Tariffs, tenants, roles, API keys, freeze, `CreateSubscriber`, `ChangePIN`: single
  statements on tables nothing else in the repository relates to; their WHERE clauses test
  little (`ActivateTariff` no status at all), and there is no promise they could break.
- The audit middleware: what it publishes reaches no consumer in the repository.
- The queue of calls behind a refresh in the front ends; with `Sessions`, what a user sees
  of rotation. `Sessions` composed with `Lockout` or `StaffLogin` would show how long a
  blocked account lives on refreshed tokens: without a bound, as `RotateSubscriberSession` and
  `RotatePortalSession` test no status.
- sms-consumer, which logs and acknowledges; the database functions, which no code calls.

Left out for good: the ports to SMTP, SMS and object storage, JSON and SQL text, bcrypt,
AES and TOTP as algorithms, CORS and sanitising, page rendering, container and cluster files.
