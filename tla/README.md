# A verification development of the LLM-Ranking platform

TLA+ modules that model the concurrent core of the platform, TLC configurations
that check them on small instances, and proofs, checked by TLAPS, of what
matters most for every value of the constants. Paths below are relative to
`src/` of the workspace, the root of the repository; `features/...` stands for
`src/features/...` in it.

The platform is a Next.js application (server actions and `/api/v1` routes)
over PostgreSQL, with one separate process type, the crawl worker, and
functions run by Inngest. Nothing shares memory across processes: what
interacts are transactions on the tables, and, inside one process, asynchronous
calls that interleave at each `await`.

## 1. Inventory

| Component | State it keeps | Operations | Hard behaviour | What makes it correct |
|---|---|---|---|---|
| Crawl job queue (`database/migrations/0004_crawl_acquisition.sql`, `features/acquisition/.../postgres`) | `crawl_jobs`: status, owner, lease, attempts, version | submit (insert by deduplication key), claim, heartbeat, recover, complete, cancel, retry | statements of many workers and requests in any order, expiring leases, late completions | one active job per key; attempts bounded; the version fences; terminal rows final; every statement a lawful move |
| Crawl worker and execution (`scripts/crawl-worker.ts`, `application/orchestrator.ts`) | batch, signals, `leaseVersion`, `stopping`; `crawl_results`, `crawl_cache` | poll, run a batch, fetch, store, cache, complete, heartbeat, stop | crash at each step, restart, heartbeats racing with the completion, stop racing with the claim | only the running attempt ends a job; a job succeeds with its own result; every job settles; a stopped process exits |
| Submission (`orchestrator.ts` submit, `api/v1/crawl/route.ts`) | transaction of each request | cache lookup, insert, select, retry | several requests for one page, racing with the job's life | nobody is given an ended job; a first crawl is not refused |
| Provider router and providers (`application/provider-router.ts`, `infrastructure/providers`, `infrastructure/http`) | attempts, provider index, signal; frontier, host chains, robots.txt of each execution | try, wait, fall back; start pages, wait for one's turn at a host, validate it, request, follow redirects and links | tasks that outlive the execution they belong to, an abort or a deadline at any point, waiters behind a failed one | bounded calls; turns at a host spaced; the crawl and all its tasks end |
| Credits (`features/billing/services/subscription-service.ts`) | `tenant_quotas`, `credit_transactions` | allocate, consume | concurrent transactions over one row, or over none | balance equals the ledger, is never negative |
| Payment webhook (`app/api/webhooks/payment/route.ts`) | `processed_webhook_events` | record the event, then allocate, in two transactions | repeated and overlapping deliveries, failure between the two | an event is credited at most once |
| Site audits (`app/actions/audit.ts`, `lib/inngest/functions/run-audit.ts`) | `audits`; Inngest's record of steps | request, charge, crawl, analyse, patch | steps run again, event sent before the commit | no audit is worked on unpaid; its status never goes back |
| Tenant context and pool (`core/database/tenant-context`) | AsyncLocalStorage scopes; `pg.Pool` of 20 connections | enter, nest, commit, roll back, release | a scope waits for a second connection while it holds one; failure at every statement | rows get their scope's tenant; no connection leaks; nothing waits for ever |
| Redis rate limiter (`lib/rate-limit.ts`) | a counter per window in Redis | increment, set expiry | round trips that outlive the window; death before the expiry is set | admissions within twice the limit (the limit itself does not hold), no refusal by another window's counter |
| Public API gateway (`features/public-api`) | sliding window per process, quota row | rate limit, quota, handler | check and update in two statements | bounded window and overshoot; no free call |
| Background jobs (`services/jobs`) | in-memory jobs, timers | create by key, execute, retry, cancel | read and write of a transition apart, cancellation in between | outcomes are final but for a late cancellation; every execution settles |
| Workspaces, sessions, authorization (`app/actions/workspace.ts`, `auth.ts`, `services/auth`) | organizations, members, invitations; a signed cookie with workspace and role | register, log in, invite, accept, remove, change role, switch | checks in transactions before the one that acts; roles that are stale in a cookie; acceptances that race | members were invited; only administrators change a workspace; a session's role was held |
| Admin persistence (`features/admin`) | unit of work of each handler; `PostgresClient` singleton with its transaction flag and queue; version columns | start, register, commit, save, roll back | a process-wide flag, three rollbacks of one failure with an await behind each, operations that join another's queue, version differences of 0 and 1 accepted | units come back; a transaction has an owner (that commands are atomic and versions keep writers apart does not hold, see 3) |
| Monitoring (`features/monitoring`) | snapshots, open alerts | compare, raise, resolve | runs that overlap on the alerts of one configuration | what a run reports is open, what it does not report is resolved |
| Recommendations (`features/recommendations`) | pending recommendations by key | diagnose, apply, dismiss | diagnoses that overlap each other, monitoring runs and users | one pending recommendation per open alert |
| Inngest: AI visibility and cron (`lib/inngest`) | visibility results | evaluate, save | steps run again | not modelled |
| Cache service, cost control (`services/cache`, `services/cost-control`) | in-memory maps | get, set, deduplicate, reserve | calls in flight | not modelled (but for the store the API gateway uses): nothing calls them |
| AI intelligence, diagnostic engine, analysers, site crawler, ingestion, knowledge graph, RAG, observability, UI | rows by single statements, or none | pure computation, network calls | little concurrency | not modelled: inputs of the models, where they occur |

How they interact: requests and server actions open a **tenant context**, which
leases a connection; inside it `POST /api/v1/crawl` runs a **submission**,
`triggerAuditAction` requests a **site audit**, the webhook **allocates
credits**, the **workspace** actions change members. The **worker** shares only
the tables with all of them: it claims what was submitted, asks the **provider
router** for the pages, and writes the cache the next submission reads. Site
audits and payments meet in the **credits** of a tenant; **monitoring** and
**recommendations** meet in its open alerts. The **admin** commands use a client
and connections of their own.

The complete list of hazards, each at its line, with the properties that would
catch it, is in `PROJECT.json`.

## 2. Modules

| Module | Models | Extends or instantiates |
|---|---|---|
| `CrawlLifecycle` | abstract: what the queue promises (`JOB_TRANSITIONS`, bounded starts, one active job per key) | |
| `CrawlJobTable` | every SQL statement on `crawl_jobs`; implements `CrawlLifecycle` | `CrawlLifecycle` |
| `CrawlWorker` | worker processes, executions, heartbeats, results and cache; implements `CrawlLifecycle` without reopening | `CrawlJobTable`, `CrawlLifecycle` |
| `CrawlSubmit` | the statements of a submission at READ COMMITTED | `CrawlJobTable` |
| `ProviderRouter` | attempts, delays and fallbacks of one crawl | |
| `HttpCrawl` | the internal provider under the router | `ProviderRouter` |
| `TenantCredits` | the quota rows and the ledger | |
| `PaymentWebhook`, `AuditRun` | the two users of the credits | `TenantCredits` |
| `Billing` | both together over the same credits | `PaymentWebhook`, `AuditRun` |
| `TenantContext` | nested scopes over a pool of connections | |
| `RateLimit`, `PublicApi`, `JobService` | the services of those names | |
| `Workspaces` | accounts, members, invitations, sessions and the checks before an action | |
| `AdminCommands` | handlers, units of work, the shared client and the versions of a tenant | |
| `Monitoring` | overlapping runs on one configuration | |
| `Recommendations` | diagnoses and users' decisions over the alerts | `Monitoring` |
| `CrawlJobTable_proofs`, `CrawlWorker_proofs`, `CrawlSubmit_proofs`, `TenantContext_proofs`, `Billing_proofs` | theorems about the module of the name | it, and `CrawlJobTable_proofs` for the two users of the table |
| `Administration_proofs` | theorems about workspaces, admin commands, monitoring and recommendations | `Workspaces`, `AdminCommands`, `Recommendations` |
| `Limits_proofs` | theorems about the two limiters | `RateLimit`, `PublicApi` |
| `Retries_proofs` | theorems about crawls and background jobs | `HttpCrawl`, `JobService` |
| `MCHttpRequests` | a crawl with a clock that each request sets, for the runs on the spacing of requests | `HttpCrawl` |
| `MC...` | instances for TLC | |

Three `MC` modules put parts side by side that share no state, so that one run
checks them all: `MCApi` (the Redis limiter, the gateway, the submissions),
`MCRetries` (a crawl, background jobs) and `MCTenantRows` (workspaces, admin
commands, monitoring, recommendations, credits). Their variables `part`,
`execution` and `actions` name the part whose behaviour this is and never
change; the others stay in their initial state. The state space is thus the sum
of the parts, not their product, and each property speaks of its own part as if
it were checked alone.

### Crawl acquisition

*State.* A row of `jobs` has the columns that decide anything: `status`,
`worker`, `attempts`, `version`, and `live`, whether `lease_expires_at` is in
the future. `LeaseExpires` makes it false at any time; a heartbeat or a claim
makes it true. `retries` is a history variable that counts `retry()`.

*Actions.* `Submit`, `Claim`, `RecoverExpired`, `Heartbeat`,
`CompleteIfLeaseOwner`, `Cancel`, `Retry`: one per statement, each atomic as the
database makes it. `Claim` takes any set of queued rows: priorities and `SKIP
LOCKED` only choose among them. A job appears as QUEUED because its insertion as
PENDING and its transition commit together. `retry()` has no caller in `src/`,
so it is part of the table's next-state relation and of what may happen beside
submissions, and not of the worker's.

`CrawlWorker` splits a call into statement and reply where the worker's state is
used in between. A heartbeat that has taken effect leaves its new version in
`hb` until `HeartbeatReply`; a completion carries the `leaseVersion` of the
moment it is sent (`sent`). The last step before a completion and its sending
are one step, because no `await` lies between them. A process is named by its
incarnation, `<<p, n>>`, as `worker_id` is drawn anew at every start; `Restart`
is a crash at any point as well as the supervisor's restart after an exit. The
provider's answer is success, failure, or cancellation once the signal is
aborted; `DbError` loses a transaction of the execution. A failure in `getById`
or in the completion a stopping worker makes ends the process's execution as a
crash would.

`CrawlSubmit` keeps what the table leaves out, the order of `created_at`
(`born`, the start of the inserting transaction), because the SELECT takes the
oldest row. Everything the worker's statements do to a row may happen between
any two statements of a request (`JobMoves`, `JobsRecovered`).

`ProviderRouter` is `execute` with its two nested loops: `stage` is the point in
it, `turn` the provider and `tries` the counter all of them share. Abort and
deadline come at any time and are seen where the code looks. `HttpCrawl` is what
`HttpCrawlProvider.execute` does while the router waits for it. Every execution
`e` has its queue, its set of visited pages, its promise chain per host and its
`robots.txt`. What runs between two awaits is one step: `Quiet` keeps timers and
responses out while the main loop can still start a page. A failed task rejects
the execution and nothing cancels the others, so their steps go on after the
router has left, with effects on nobody but the host. Time is counted in ticks:
`age` since the last turn at a host (`lastRequestAt`), `left` of a delay.
`TakesTurn` sets `lastRequestAt` and lets the next waiter go on; `safeFetch`
validates the host first, so the request is a later step (`Request`), and a
redirect is validated and sent without a turn of its own (`Redirect`).
`MCHttpRequests` adds the time since the requests themselves (`since`).

### Billing

`TenantCredits` has the rows of `tenant_quotas` of one tenant, as a sequence,
since `tenant_id` is not unique there, and the ledger as the number of
transactions per reference. An UPDATE that finds rows holds their locks until
the commit, so it is atomic with its transaction; one that finds none is
followed by an INSERT, and the two are separate steps. `PaymentWebhook` has one
process per delivery; the provider repeats a delivery whenever. `AuditRun` has
the transaction of the request, which sends the event before it commits, and
the steps of the Inngest function. Inngest, external code, runs a step at least
once: `Lost` is the death of the process between the effect of a step and the
record of its result. A function whose step has used up its retries is
abandoned. `BillingNext` interleaves both.

### Tenant context

`stack[t]` is the AsyncLocalStorage of a task: its scopes, each with its mode (a
tenant or the system), its connection, whether it owns the transaction or
reuses the enclosing one, and the savepoint's mark. `tx[c]` is what PostgreSQL
knows of a connection; `acked`, `undone` and `visible` are history. BEGIN and
`set_config` are one step (`Open`), and so are COMMIT or ROLLBACK and the
release, since nobody else can see the connection between them. A statement may
fail at any time, or the connection be lost, and the work may swallow the error;
`CommitFails` includes the COMMIT that took effect and whose reply was lost.
The queue of `pg.Pool` and its replacement of broken connections are external.

### Services

`RateLimit`: each request reads the clock, increments, and, when first, sets the
expiry, three separate steps; Redis drops a key when its time has come.
`PublicApi`: the sliding window lives in a store of the process and is read and
written without a real suspension, so it is one step; the quota's SELECT and
UPDATE are two. `JobService`: the read and the write of `transitionStatus` are
awaited separately, so a cancellation may come in between; timers are a status
of the execution. The repository and the timers are in memory.

### Administration

`Workspaces`: `member`, `invite` and `founder` are the tables, `cookie[u]` the
signed session in a browser, which nothing on the server can take back, and
`req[r]` a server action between its transactions. The session is read when the
action begins; membership, role and the act itself are transactions of their
own, so `CheckMembership`, `CheckRole` and the act (`InviteUser`, `RemoveMember`,
`UpdateRole`) are steps of their own, between which roles and members change.
A super administrator's session passes the checks by the role in the cookie. The
unique indexes of members and pending invitations are guards of the INSERTs;
where one is violated the action fails as a whole (`ActionFails`). An invitation
whose time has passed is refused without effect, because its mark as expired is
in the transaction that the exception behind it rolls back.

`AdminCommands`: `active` and `leased` are the state of the units of work, `inTx`
and `queue` that of the one `PostgresClient`, `loop[c]` the operations a client
is running. Every `await` is the border of a step. `Start` sets the unit's flag
before `Connected` or `ConnectFails` find out whether there is a connection, and
`Begins` whether another unit is in the transaction. A command then awaits its
SELECT (`Select`) and registers its save and its audit record (`Save`,
`AppendAudit`). `EnterCommit` executes the queue in order, each operation by
statements of its own (`ReadRow`, `WriteRow`, `SaveAudit`, `NextOperation`), as
the repositories are not given the unit's client. A failure rolls back three
times, in the catch and in the finally of `commit` and in `UnitOfWork.rollback`
(`Unwinds`), before the unit is returned (`Return`); each of the three ends
whatever transaction the client is in by then. A loop over an array goes on with
it when the client gets a new one (`NewArray`). A client whose await has settled
goes on before a new request or a reply of the database is taken (`Quiet`), but
in any order with the others of which the same is true: turns of the microtask
queue are not counted. A saver (`SaverReads`, `SaverSaves`) calls the repository
outside any unit; while a transaction is open its save joins that queue.
`memory` is `NODE_ENV` being `test`, the only setting in which the in-memory
stores of the constructor are enabled; both settings are initial states.

`Monitoring`: a run is a transaction around a crawl. `BeginRun` reads the last
snapshot, `Capture` is the crawl and the new one, `FindOpen` and `CreateAlert`
are `findOpenByFingerprint` and the INSERT behind it, `SelectOpen` and `Resolve`
the resolution of what has not been reported, `CommitRun` makes all of it
visible. At READ COMMITTED a statement sees what is committed when it starts;
the unique index on open fingerprints makes an INSERT wait for, and then fail
after, one that committed. Pages are fine with an old or a new content, bad, or
absent. `Recommendations` adds `runDiagnosisForTenant`, one transaction that
reads the open alerts once and calls `createOrUpdate` for each of them and for
each finding, and the users, who decide on any pending recommendation at any
time. The UPDATE of `createOrUpdate` names the row by its id, whatever has
become of it.

## 3. Runs

| Run | Question and result | States |
|---|---|---|
| `api` | What a request to the API meets. Submissions: three requests for one page and every statement of the worker, in any order: `OneActivePerKey`, `VersionFences`, the table implements `CrawlLifecycle` (`ImplementsLifecycle`); `AnswersActiveJob`: nobody is given an ended job; `FirstCrawlNeverRefused`. Redis limiter: `TwiceTheLimit`, `RefusedOnlyWhenFull`. Gateway: `WindowBounded`, `OvershootBounded`, `NoFreeCalls`. | 2,541,976 |
| `submit_refusal` | Violation (`RefusedOnlyAfterRaces`): a submission is refused for races that did not happen. | |
| `limits_window` | Violation (`LimitHolds`): more requests of a window pass than its limit. | |
| `worker` | Do crashing, stopping and slow workers over one job? `OwnResult`, `OnlyCurrentAttemptCompletes`, the worker implements the queue (`ImplementsQueue`); every job settles (`JobsSettle`) and a stopping process exits (`StopEnds`). | 228,261 |
| `worker_refusal` | Violation (`RefusedOnlyWhenLeaseLost`): a completion is refused although the lease is held. | |
| `retries` | The two executions that retry. A crawl: `TriesBounded`, `TurnsAreSpaced`, and it ends with all its tasks (`CrawlEnds`), whatever fails, is aborted or runs out of time. Background jobs: `OutcomeFinal`, `JobSettles`. | 117,447 |
| `crawl_spacing` | Violation (`HostIsSpaced`): two executions of one crawl send requests to one host within the spacing. | |
| `jobs_cancelled` | Violation (`CancellationIsGuarded`): a cancelled job is active again, or one that has ended becomes cancelled. | |
| `tenant_context` | `OwnTenantOnly`, `NoConnectionLeaks`, `CommitsWithOwner`, `UndoesItsOwn`, and `EveryFlowEnds` although tasks wait for connections they hold themselves. | 158,684 |
| `tenant_rows` | Transactions that overlap on a tenant's rows. Workspaces: `MembersWereInvited`, `UsedOncePerMembership`, `SessionRoleWasHeld`, `ChangedByAdmin`. Admin commands: `UnitsAreReturned`, `TransactionIsOwned`. Monitoring: `ReportedIsOpen`, `UnreportedIsResolved`. Recommendations: `AdviceIsCurrent`. Payments and audits over the same credits: `CreditedOnce`, `BalanceIsLedger`, `NoUnpaidAudit`, `NeverOverdrawn`, `StatusNeverRegresses`. | 2,100,490 |
| `payment_repeat` | Violation (`RepeatIsHandled`): a payment acknowledged as handled is never applied. | |
| `alert_recovery` | Violation (`ResolvedIsRecovered`): an alert about a page that is still worse is resolved. | |

Each property of a passing run has a mutant in `PROJECT.json`: a plausible bug
of the code, as an operator `Mut...` next to the definition it replaces, under
which the run fails.

### Findings

1. **A finished crawl is marked FAILED by the worker's own heartbeat**
   (`worker_refusal`). The completion carries the version read when it is sent
   (`orchestrator.ts:210`); a heartbeat that commits in between bumps it; the
   database refuses, `execute` throws "Crawl lease is no longer owned", and the
   catch block fails the job, whose result and page are already stored.
2. **A submission is refused without a race** (`submit_refusal`). After a
   conflict, `createOrGetByDedup` selects the oldest row of the key, of any
   status. When an ended row exists beside the active one, all three tries find
   the ended one and the request throws "Could not establish a crawl job
   identity after concurrent deduplication races".
3. **A payment can be lost** (`payment_repeat`). The event id is committed
   before, and apart from, the allocation; when the allocation fails, the
   redelivery is acknowledged as handled.
4. **The request rate of a host is exceeded by a retried crawl**
   (`crawl_spacing`). Locks and timestamps of hosts belong to one call of
   `execute`. When one page fails, the other tasks go on while the router
   starts the next attempt, and both request the same host.
5. **An alert lives for one run** (`alert_recovery`). Regressions are differences
   to the snapshot before. A page that has become worse and stays so differs
   from nothing, so the next run does not report it and resolves its alert, as
   "Alert Recovery".
6. **The Redis limiter lets through more than its limit** (`limits_window`). A
   key expires a window's length after its first INCR, and the window is chosen
   before the round trip, so a late INCR starts the count of its window again.
   `rate-limit.ts:22-23` calls the limit the "Maximum number of allowed requests
   inside the window"; `TwiceTheLimit` is what remains true.
7. **Cancellation is not guarded** (`jobs_cancelled`). `transitionStatus` refuses
   to take a cancelled job back to active, but writes the copy it has read
   before, over a cancellation that has come in between; and `cancelJob` refuses
   a job that has ended, in a check a step before its write. The run's trace
   shows the first; `OutcomeFinal` is what remains true of both.

### Disagreements with the repository's sentences that no run states

The models have this behaviour, and no property asks for less than the sentence
as if it were the sentence: where something weaker holds and is checked, it is
named here.

- **Requests of one execution are not spaced either.** `requestHost` spaces the
  calls of `safeFetch`. The host is validated between the turn and the request,
  and a redirect is requested at once (`safe-fetcher.ts:61-119`), so what
  `CRAWL_ACQUISITION.md:65-66` says of requests holds of turns
  (`TurnsAreSpaced`).
- **The quota is exceeded by concurrent calls.** `enforceAndConsumeQuota` "Throws
  if quota is exceeded" (`api-quota-service.ts:17`), but the usage is read
  without a lock and raised without a condition. `OvershootBounded` is what
  remains: less than one call per handler.
- **An admin command can succeed without having written anything.** `commit`
  "commits all pending operations" (`unit-of-work/index.ts:14-16`), but the three
  rollbacks of one failed command have an await behind each, and by then the
  shared client may be in another unit's transaction, whose flag and operations
  they clear. The awaits are on promises that settle at once, and the model
  does not count the turns of the microtask queue: this is what no guard of the
  code rules out, not how often it can happen. `TransactionIsOwned` and
  `UnitsAreReturned` hold nonetheless.
- **A failed admin command leaves rows written.** No BEGIN or ROLLBACK is sent:
  operations are statements of their own, and `rollback`, which "rolls back all
  operations" (`unit-of-work/index.ts:19-21`), only empties the array.
- **An update overwrites a version nobody has compared.** The aggregate raises
  the version of the copy it was given, and `save` accepts a difference of one
  as well as none (`postgres/index.ts:569-583`), where `PERSISTENCE_MODEL.md:13-15`
  aborts any update whose version differs. A caller that raised the version of
  a stale copy thus overwrites what another has written since, and no property
  about versions is claimed.

### Other behaviour seen in the models

No sentence we found in the repository says otherwise.

Crawl acquisition:

- A worker that crashes after storing a result and before completing leaves a
  `crawl_results` row that every later attempt's INSERT violates, so the job can
  only end FAILED (`StoreResult`).
- A batch claimed while `stop()` runs gets fresh signals, which nobody aborts,
  and crawls to its end before the process exits (`crawl-worker.ts:42`).
- One page that fails fails the whole crawl, and so does a `robots.txt` that
  answers 404 (`TaskFails`). Links that do not fit because the queue, with its
  duplicates, is full are dropped and `partial` stays false (`Fitting`).
- `maxAttempts` is counted across providers: when Firecrawl has used it up, the
  internal provider gets one try, and each further fallback one more. A retry
  delay is cut to what remains of the duration, so it ends in TIMEOUT and never
  in a fallback (`Transient`, `Waited`).

Billing:

- Two first allocations of a tenant insert two quota rows, and from then on no
  row holds the balance; `BalanceIsLedger` and `NeverOverdrawn` speak of one row.
- A charge whose step is run again after a lost result is made twice; an audit
  whose request aborts after the send is charged and run without a row; a failed
  audit is not refunded.

Services and tenant context:

- The sliding window is kept per process. The idempotency key finds the oldest
  job of a key, so after a failure every call creates another job.
- A scope whose work swallows a failed statement resolves although its COMMIT
  applies nothing, and the writes of a failed nested scope without a savepoint
  are committed with the outer one when the outer one catches the error.

Administration:

- The UPDATE that marks an invitation expired is rolled back by the exception
  behind it (`workspace.ts:134`): the invitation stays pending, is refused for
  ever, and its address cannot be invited to that workspace again.
- A unit of work whose `startTransaction` fails midway stays active and refuses
  every later command of its handler.
- A save outside any unit resolves at once when a transaction is open, and is
  dropped with the queue when that transaction rolls back.
- Outside `NODE_ENV=test` the in-memory stores refuse, and with them the
  operations that end in one.
- `create` of an alert is a plain INSERT, so of two runs that find the same
  regression at once the later one fails as a whole. A run may resolve an alert
  that an overlapping one has just found open and therefore did not create.
  A page that disappears and comes back worse is not reported as a page.
- A recommendation that was dismissed is made again by the next diagnosis while
  its alert is open, and that of a resolved alert stays pending. The nightly
  diagnosis (`lib/inngest/functions.ts:36`) asks for the database client outside
  a tenant context and fails before it starts; `RunMonitoring` has no caller.

Seen while reading what is not modelled: a visibility run whose `save` step is
repeated inserts its results twice (`ai-visibility.ts:73`), and the keys of
`services/cache/service.ts:47` ignore nested fields.

### Bounds, and why they are enough

- `api`, submissions: three requests and two rows of one page, one worker: an ended and an
  active row exist together, and three requests give one that is overtaken
  twice. `MaxAttempts = 2`, so that a job is recovered both to the queue and to
  FAILED; `MaxRetries = 1`; `MaxVersion = 4` bounds only heartbeats. Rows of
  different keys meet in no statement but the claim, which takes any set of them.
- `worker`: one job, two processes, one restart each, which gives up to four
  worker identities and covers a job taken again by another process, by the next
  incarnation of the same, and by the same process after a lost lease.
  `MaxVersion = 4` again bounds heartbeats alone: one, in the first attempt,
  whose reply may come at any time later. `worker_refusal` runs with 6, where
  later attempts have heartbeats as well, and the safety properties are proved
  for every bound.
- `retries`: four pages on two hosts, one disallowed, links back to pages that
  have been visited and a depth of two; two tasks at once, so that one waits for
  the other at a host and for its `robots.txt`; two tries and one fallback, that
  is up to three executions; one redirect per fetch. Two jobs of one key with two
  attempts each, also in `jobs_cancelled`. `crawl_spacing` has three tasks at
  once and no redirects.
- `tenant_context`: one task that nests up to three scopes of its tenant and the
  system, which can hold both connections and wait for a third, and one task of
  another tenant that uses the connections after it or competes for them. Modes
  are only compared for equality.
- `api`, limiters: a limit of one and three requests, so that twice the limit can
  be passed; two windows; `MaxDelay` is a window, the largest for which the bound
  holds. `limits_window` has a limit of two, five requests and half a window's
  delay. Three handlers in two processes; costs and limit chosen so that the
  limit is no multiple of the cost.
- `tenant_rows`: two users who found a workspace each, one invitation, two
  server actions at once, one removal (a member can come back once). The calls
  are to invite and remove the second user, to make that one a super
  administrator, and to switch. Three commands on one tenant, two of which
  create it, two of them in one handler, and a saver, over two connections and
  up to version 5, which no behaviour of these clients passes. Three monitoring
  runs of a page, so that one overlaps another and a third sees what both have
  left; two of them beside two diagnoses and a finding. Two crediting events and
  three deliveries, two of them of one event, with two audits, one retry of each
  step; `payment_repeat` has the same.

Runs with `CHECK_DEADLOCK FALSE` model finite work: when all requests have been
answered or all versions used, the system stops. Symmetry is used only in runs
without liveness properties.

### Fairness

- `CrawlWorker`: weak fairness of each loop step and each execution step (an
  event loop that runs; the HTTP provider ends by `maxDurationMs`, and of
  Firecrawl's client, whose answer the adapter awaits without a limit of its
  own, it is an assumption that it answers), of the supervisor's restart of an exited process, and of the expiry of a lease nobody renews.
  No fairness of heartbeats, submissions, cancellations, stops or crashes.
- `HttpCrawl`: weak fairness of the crawl's steps taken together (promises are
  settled, timers fire, a request ends by its timeouts) and of the clock. None
  of the abort and the deadline. Each task takes finitely many steps, so
  fairness of all of them together is enough.
- `JobService`: weak fairness of the steps of each execution, timers included;
  none of clients and cancellations.
- `TenantContext`: weak fairness of the next-state relation: while a statement,
  a timer or a waiting call can go on, something does. With bounded work that is
  weaker than fairness of each task, and enough.
- The others have only safety properties: their actions may all fail, and
  nothing in the code repeats them.

## 4. Proofs

| Theorem | Says | Argument |
|---|---|---|
| `TableTypeCorrect`, `OneActivePerKeyHolds`, `AttemptsBoundedHolds` | invariants of the table, for any jobs, keys and workers | type correctness first. One active job per key is inductive with it, because `KeyFree` guards both ways a row becomes active. Attempts need a stronger bound: a queued row has an attempt left for itself, since recovery puts a row at its limit into FAILED and each retry pays for one more claim |
| `VersionFencesHolds`, `TerminalIsFinalHolds` | action properties of the table | statement by statement over the type invariant; the first also needs that an absent row is new (`AbsentIsNewHolds`) |
| `ImplementsLifecycleHolds` | the table implements `CrawlLifecycle` | every statement maps to a move of each row that the domain's state machine allows, or to a stutter; `OneActivePerKey` and `AttemptsBounded` are the guards the abstract moves ask for |
| `WorkersUseTable`, `SubmissionsUseTable` | the worker's and the submissions' specifications imply the table's | step by step: each of their actions is one statement or leaves the rows. Whatever is proved of the table then holds of both |
| `ImplementsQueueHolds` | the worker implements the queue, in which no ended job is reopened | as above, with the statements the worker sends: all but `retry()` |
| `OnlyCurrentAttemptCompletesHolds` | a completion ends the attempt it belongs to | `WorkerInv`: an execution knows no version its row has not reached, and none that is current once the row is in another attempt (`Fenced`), because every claim raises the version (`VersionFences`); a completion that passes the version check therefore belongs to the attempt that runs |
| `OwnResultHolds` | a delivered result is that of the attempt that completed | `ResultInv`: a result is stored once and an execution behind the store step has stored its own; only a completion of the current attempt delivers |
| `AnswersActiveJobHolds`, `FirstCrawlNeverRefusedHolds` | the answers of submissions, for any number of them | the row an INSERT makes and the row a SELECT finds active are active in that step. A request gives up only in a SELECT that finds an ended row of its page (`GivesUp`), and a row that has ended shows it for ever, since `retry()` leaves a count (`EndedStays`) |
| `CreditedOnceHolds`, `NoUnpaidAuditHolds`, `NeverOverdrawnHolds` | properties of the credits in `tenant_rows`, for any events, deliveries, audits and retries | `BillingInv`: an event at the credit point is recorded, not yet credited, and only one delivery of it is there (`Creditor`); an audit behind the charge has its transaction in the ledger; allocations are not negative. Deliveries keep the audits' part and audits the deliveries' |
| `StatusNeverRegressesHolds` | the status of an audit only moves forward | `StatusInv`: what a user can be shown at each step of the function. An earlier patch may have found no row, and the patch of this step may have been written and its answer lost, so each step allows a set of statuses, none behind the one it writes |
| `BalanceIsLedgerHolds` | the balance of a single row is the sum of the ledger | `LedgerInv`: before the first row there is nothing in the ledger. An update of the row and its ledger entry add the same to both sides; that an entry adds its value to the sum is `PostingAdds`, see below |
| `OwnTenantOnlyHolds`, `NoConnectionLeaksHolds` | properties of the tenant context, for any tasks, tenants, connections and depth of nesting | one invariant for both. A scope with a connection has it from itself or from an enclosing scope of its mode (`Based`); a connection outside the pool has exactly one owning scope (`Single`, `Covered`, `Outside`) and one inside is idle (`PoolIdle`); so the tenant set in a transaction is the mode of every scope that uses it (`Scoped`), also after the stack has shrunk. The queue of the pool holds waiting tasks only, each once (`Queued`) |
| `CommitsWithOwnerHolds`, `UndoesItsOwnHolds` | what nested scopes write commits with their owner, and a rejected savepoint undoes its own writes alone, for any tasks, connections and nesting | `Journal`, on top of the invariant above. A transaction holds the acknowledged writes outside its undone savepoints (`Remains`). An open savepoint has not been undone and remembers what undoing it would leave (`mark`), and whoever is inside it is inside those around it (`Held`). The scopes of a task are numbered in the order they open (`Numbered`), so a write is in the transaction of its scope and in no other, and in none once it is visible (`Placed`) |
| `TwiceTheLimitHolds`, `RefusedOnlyWhenFullHolds` | the Redis limiter, for any requests, limit and window | `LimitInv`. A counter cannot expire before its window is over, so until then it has let through no more than it has counted. It may be started again by late increments, but only once: the expiry it then gets lies behind every increment of the window, since a round trip takes no longer than a window (`Epochs`). It never counts more than the requests of its own window (`CountsRequests`) |
| `WindowBoundedHolds` | no stretch of a window's length sees more passes of a process than the limit | `WindowInv`: the stored list is the end of the list of all passes, and what the store has lost is older than a window (`Lost`); so a pass and the one `MaxRequests` later are a window apart (`Apart`) |
| `OvershootBoundedHolds`, `NoFreeCallsHolds` | the quota overshoots by less than one call per handler; served calls are in the usage | `QuotaInv`: usage plus what the handlers that have checked will add stays within the bound; checked handlers are counted with the library's cardinality theorems. The second is inductive by itself |
| `TriesBoundedHolds` | a crawl calls its providers a bounded number of times, for any list of providers | `RouterInv`: an attempt is behind every fallback, so `tries` is at most `MaxTries + turn - 1`, and one less when another is to be started |
| `TurnsAreSpacedHolds` | the turns of one execution at a host are a spacing apart, for any pages, links, hosts, redirects and concurrency | `CrawlInv`: who is in its delay is the first of the host's line, and what is left of the delay is what is missing of the spacing (`FirstDelays`). A page joins a line when it is visited (`TasksVisited`), behind everybody who is there |
| `OutcomeFinalHolds` | an outcome stays but for a late cancellation | an execution that has written an outcome has ended (`EndsFirst`), and only executions write one |
| `UnitsAreReturnedHolds` | units of work come back, for any number of commands, units and savers | a command in use has its unit active and shares it with no other (`OwnUnit`) |
| `TransactionIsOwnedHolds` | the shared client is never left in a transaction nobody will end, for any number of commands, units and savers | `AdminInv`: a command that runs operations does so in its commit or outside any transaction, and goes on to a place where it still owns one or has ended it (`GoesOn`). No step of a command leaves the places of an owner while the flag is set, and savers never set it (`Moves`) |
| `MembersWereInvitedHolds`, `UsedOncePerMembershipHolds` | members were invited, and an invitation makes one member per removal, for any users, workspaces, invitations and actions | who is about to join is the invited one (`Invited`); an invitation that has been used once more than its member was removed has its member in the workspace (`UsesAccounted`), and then the insert meets the unique index |
| `SessionRoleWasHeldHolds` | sessions carry roles that were held | `RolesHeld`: so do the answers on their way, and the members' roles enter `held` in the step that gives them |
| `ChangedByAdminHolds` | a workspace is changed on behalf of someone who has administered it since the action began | `ActsAsAdmin`: an action about to take effect has passed its check of this workspace, or its session is a super administrator's |
| `ReportedIsOpenHolds`, `UnreportedIsResolvedHolds` | what a monitoring run reports is open, what it does not report is resolved, for any overlapping runs | `MonitoringInv`: whatever a run has dealt with is among its own alerts or still open, or somebody has resolved it meanwhile (`Accounted`); it resolves nothing that it reports (`ResolvesOthers`) and has met every alert it found (`Resolving`). Open alerts come from committed runs (`FromCommitted`), so nobody resolves one that is not there |
| `AdviceIsCurrentHolds` | a diagnosis leaves one pending recommendation per signal, for any diagnoses, runs and decisions | `AdviceInv`: no key is pending twice (`OneEach`) and no two diagnoses have inserted the same one (`Apart`), as the unique index blocks the second; what a diagnosis has dealt with is pending, inserted or decided (`Settled`) |

`LedgerTotal` is a sum over a set, that is a recursive function on its subsets.
The induction it needs is done without the library's induction theorems: a set
of subsets that contains the empty one, and every set of which it contains one
with an element less, contains all (`AllSubsets`), because among the sizes of
those it leaves out there would be a least one. From this follows that the
recursive function exists (`SummedIs`), and that raising one entry raises the
sum by its value (`PostingAdds`).

The assumptions used are the named ASSUMEs of the modules, which every run of a
module evaluates. The theorems about the table, the workers, the submissions and
the commands hold with the bounds of the models (`MaxVersion` and the like) at
any value.

Three of them are there for the proofs, and true of every run of the program: a
crawl configuration names at least one provider, and the pages of one crawl, the
requests to the limiter and the references of the ledger are finitely many.

Only model-checked: liveness under fairness (`JobsSettle`, `StopEnds`,
`CrawlEnds`, `JobSettles`, `EveryFlowEnds`), which is out of the prover's reach.
Every invariant and every action property of the passing runs is stated by one
of the theorems above. The invariants they rest on were checked by TLC on the
instances of the runs before they were proved; they are not among the runs'
properties, since the proofs contain them.

## 5. Not modelled

Components marked `not_modelled` in `PROJECT.json`, each with its reason. In
short: most of the repository is user interface, documentation data, scoring and
analysis of pages and texts, and repositories of single statements. They compute
on what they are given, share nothing that another actor changes in between, and
would make models that restate them. They are inputs of the modules here (an
analysis succeeds or fails, a crawl finds a page fine or worse). The cache
service, the deduplication and the cost control are called by nobody. The AI
visibility function is executed step by step like the site audit, and nothing
the repository says decides what a repeated step may leave behind.

In the modelled components: the content of pages, results and errors,
priorities, logging, published events (the handlers only log), the signature
check of the webhook and the authentication of API requests (guards before any
state changes), the in-process fallback of the rate limiter in development,
statements issued in parallel inside one scope of a tenant context, URL
normalisation and address checks of the crawler, passwords and the password
reset, and the admin repositories of users, flags and providers, which have the
shape of the one for tenants.
