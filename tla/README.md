# Formal model of the URL shortener platform

TLA+ modules that model the platform's state-changing parts, TLC
configurations that check them on small instances, and TLAPS proofs of the
core properties for every value of the constants. Source paths are relative to
the repository (`src/`). `PROJECT.json` maps every definition to the lines it
models.

## 1. The system

Two Go services share PostgreSQL (a primary and, when `DB_REPLICA_DSN` is set,
a read replica that lags) and Redis. Several pods of each run at once.

* **API** (`cmd/api`): creates, changes, deletes and lists links; workspaces,
  members, API keys, webhooks, exports, analytics queries, live streams. Runs
  the webhook and export workers and the audit drainer.
* **Redirector** (`cmd/redirector`): resolves short codes through Redis, then
  the replica; captures click events into an analytics drainer.

| Component | State it keeps | Operations | What makes it hard |
|---|---|---|---|
| URL core (`application/{shorten,url,resolve}`, `postgres/url_repository.go`, `redis/url_cache.go`) | rows of `urls`; a positive and a negative key per code in Redis; the replica; entities in handlers' and goroutines' memory | shorten with collision loop and pre-warm, PATCH (read-modify-write), soft delete, cache delete, resolve, asynchronous fills | fills that land late, replica reads, lost cache deletes, ambiguous INSERTs, crashes between commit and delete |
| Listing (`URLRepository.List`, `handler/url.go`) | none; cursor at the client | pages by id cursor from the replica | rows change between pages; ids are committed out of order; limit parsing |
| Webhooks (`application/webhook`, `postgres/webhook_repository.go`) | webhooks, deliveries with claims and attempts | register under a limit, delete, dispatch, claim, POST, mark, back-off, stale take-over | crashes in mid-claim, slow workers overtaken, lost statements, a dispatch cut short, limit checks on a lagging replica |
| Analytics ingestion (`application/analytics/ingestion_service.go`) | bounded channel, batch, counters | capture, drain, flush (INSERT, then UPDATE per code), shutdown | full channel, partial flush, shutdown racing the drainer |
| Audit (`application/audit`, `middleware/audit.go`) | bounded channel, batch, dropped counter | capture after a 2xx, drain, batch INSERT, shutdown, closing the pools | shutdown does not wait for the drainer; one deadline for all of it; Close waits for connections |
| Exports (`application/export`, `storage/local.go`, `pkg/signedurl`) | job rows, files on each pod, signing secrets, readers' connections | create, claim, stream rows to a file, complete or fail, download | pod restarts, cancelled contexts, partial files, readers left with nobody to receive |
| Analytics queries (`handler/analytics.go`, `application/analytics`, `postgres/analytics_query_repository.go`, `pkg/iphasher`) | none; rows on the replica | summary, time series, breakdown of a window | bucket and window edges, midnight between stamp and hash, lag between and after reads |
| Rate limiter (`redis/ratelimit.go`, `domain/ratelimit`) | one hash per identity, with TTL | stamp, Lua script, fail open | stamps that arrive out of order, key expiry |
| Workspaces (`application/workspace`, `middleware/workspace.go`) | workspaces and members | create under a limit, invite, middleware check, get | all checks read the replica |
| Credentials (`middleware/{auth,apikey}.go`, `auth/denylist.go`, `postgres/apikey_repository.go`) | key rows, deny list with TTL | look-up, verify, revoke, logout, `UpdateLastUsed` goroutine | goroutines that write after a revocation, expiry edges, Redis failing open |
| Click streams (`redis/clickpub.go`, `redis/clicksub.go`, stream handler) | subscription, decoder goroutine, small channel | publish, decode, deliver, fail to write, end | decoder blocked on a channel nobody reads |

What makes each correct is in section 3, by the names of the properties, and
what could go wrong, line by line, under `hazards` in `PROJECT.json`.

Interactions: the API's writes invalidate the keys the redirector fills;
redirects feed analytics and click streams; API writes feed audit and webhook
dispatch; every API request passes authentication, the rate limiter and the
workspace check first. The components meet only through tables, Redis keys and
bounded channels, so each is a module whose environment (lag, errors, clock,
other requests) is part of its next-state relation.

## 2. Modules

| Module | Models |
|---|---|
| `UrlEntity` | the `URL` entity: rows, `IsExpired`, `CanRedirect`, answers of a redirect |
| `UrlLifecycle` | URL core; one action per database or Redis call of each handler |
| `UrlDirectory` | abstract specification: a directory of links changed by atomic steps, with redirects answered from states it has been in |
| `UrlListing` | a client's walk through `GET /urls` |
| `WebhookDelivery`, `AnalyticsIngestion`, `AuditPipeline`, `ExportJobs`, `RateLimiter`, `Workspaces`, `Credentials`, `ClickStream` | the components of these names |
| `AnalyticsReports` | the analytics queries, over clicks from their stamp to their row |
| `RateLimiterProofs`, `WebhookDeliveryProofs`, `AuditPipelineProofs`, `WorkspacesProofs`, `CredentialsProofs` | theorems and proofs about the module of that name |
| `UrlProofs` | theorems and proofs about `UrlLifecycle` and `UrlListing` |
| `AnalyticsProofs` | theorems and proofs about `AnalyticsIngestion` and `ClickStream` |
| `ReportingProofs` | theorems and proofs about `AnalyticsReports` and `ExportJobs` |
| `MC*` | symmetry sets and constant functions for TLC |

Conventions. A process variable such as `wpc` says which call a request makes
next; between two calls any other process may move, as between pods.
Variables under the heading *History* are read by properties only and never
guard an action. Operators introduced by a comment `Mutant:` are deliberately
wrong versions of the definition that follows; nothing refers to them. The
properties are tested by putting them in that definition's place (list
`mutants` of `PROJECT.json`). The names of `UrlListing`, `ClickStream` and
`AnalyticsReports` that every module has (`Init`, `TypeOK`, ...) carry a prefix,
so that they can be extended together with another module.

### UrlLifecycle in detail

* `primary`, `replica`: the row per code. `Replicate(c)` copies the latest row;
  the replica may skip intermediate versions of a row but never goes back.
* `pos`, `neg`: `url:v1:{code}` and `url:v1:notfound:{code}`; they may expire at
  any moment (TTL or eviction).
* An API request goes `create → prewarm` (shorten, with up to `MaxRetries`
  attempts), or `fetch → update | softdelete → invalidate`. `Fetch` reads the
  replica pool; `Write` carries the repository's `WHERE` clause; `Invalidate` is
  the Redis `DEL` and the answer to the client.
* A redirect goes `get → negative → db` and answers at its last look-up; what
  follows (`fill`, `fillneg`) is the goroutine of `asyncSetCache` or
  `asyncSetNotFound`, with the row it was given.
* `Faults`: `"redis"` (any call fails), `"db"` (a statement fails before or after
  it took effect), `"crash"` (the process of a request stops).
* `ver` counts the writes of a row. The code has no such column; it tells an
  old row from a new one with equal contents.

### The other modules

* `WebhookDelivery`: time is left out, so a retry falls due and a claim goes
  stale at any moment; a slow worker is one whose claim goes stale while it works.
  Crashes, lost statements and slow batches are counted by `MaxSlips`. `Dispatch`
  finds the hooks and inserts one row after another; the first error ends it
  (`CreateError`). A registration is its limit check on the read pool and, later,
  its INSERT.
* `AnalyticsIngestion`, `AuditPipeline`: channels are sets (no property depends
  on order); `spc` walks through `main`'s shutdown in its order, and each wait
  may end by timeout when `MayTimeOut`. A statement that fails may have taken
  effect. In `AuditPipeline` handlers and the drainer acquire a connection and
  give it back, `expired` is the one deadline that `srv.Shutdown` and the audit
  service's `Shutdown` share, and `Exit` needs every connection returned.
* `ExportJobs`: a file is its number of rows; each pod has a disk, and a secret
  of its own unless `SharedSecret`. `leaked` counts replica connections whose
  reader waits for a receiver that has returned (`WriteError`). A download
  changes nothing, so it is the predicate `Downloadable`.
* `AnalyticsReports`: one link, time in the microseconds of a TIMESTAMPTZ (a
  minute has two, a day four). A click is stamped, enriched (the hash takes its
  day from the clock again) and stored; a report finds the link and takes its
  present, then reads. The three SQL statements are operators over the prefix of
  the log that the replica shows.
* `RateLimiter`: tokens in units of 1/Window, so that the script's arithmetic
  is exact on integers; stamps are read before the script runs.
* `Workspaces`: no handler changes a row, so the database is the log of its
  transactions and the replica a prefix of it.
* `UrlListing`: a link is its id and whether the walk's filter selects it. The
  limit parameter is parsed digit by digit in an int that goes from `-Half` to `Half - 1`.
* `ClickStream`: the subscription's buffer, the decoder's hand and the events
  channel are sequences; a message may be lost before the subscription. A click
  whose write fails (`WriteFails`) is out of the channel and not sent: it goes to
  the history variable `lost`, and the handler returns.
* `Credentials`: keys and tokens are names. Cryptography is taken as given.

## 3. Runs

All runs finish in under three minutes on two cores. Deadlock checking is off
everywhere: clients need not send requests and all counters are bounded, so
every model may come to rest.

| Run | Instance | Shows |
|---|---|---|
| `url_core` | 1 code, 2 API requests at once (2 of any kind, then a delete that overtakes an update), 1 redirect, replica, Redis and database faults, crashes | `ServedWasStored`, `LagIsExplained`, `NegativeIsExplained`, the refinement `ImplementsDirectory`, and `EventuallyCoherent` |
| `url_delete_race` | 1 code, no replica, no fault | `DeletedNotServed` is **violated** (section 5) |
| `webhooks` | 2 webhooks, limit 1, 2 registrations at once, 1 event, 2 workers, 2 attempts, replica, 1 slip | `SettledForAReason`, `ClaimsHold`, `LimitExplained`, `DeliveredIsFinal`, `EventuallySettled` |
| `analytics` | 3 events of 2 codes, bots or not, channel of 1, batches of 2, 1 fault, shutdown with timeouts | `CountsAreExact` (conservation of events, counts backed by rows), `GracefulLosesNothing`, `EventuallyCounted` |
| `audit` | 4 operations, channel and batch of 2, 2 faults, shutdown whose context may expire | `TrailIsExact` (no double insert, exact drop counter, what a stopped pod may lose), `EventuallyAudited`, `EventuallyStops` |
| `exports` | 2 pods with secrets of their own, 2 jobs, 2 rows, 1 replica connection each, 2 slips | `ExportIsWhole`, `JobsAttended`, `EventuallyFinished` |
| `reports` | 2 clicks of 2 visitors with ports, or a bot, 5 ticks around a minute's and a day's boundary, breakdowns of 1 row, lagging replica, deletion | `ReportsAddUp` (series, breakdown and summary of a window agree), `SummaryIsSound` (unique visitors, all-time totals) |
| `limiter` | limit 2 per 2 ticks, burst factor 2, clock to 6, 2 overlapping requests | `RateBounded` from every instant on |
| `workspaces` | 2 workspaces, 3 users, limit 1, 4 requests of which 2 at once, replica | `MembershipIsSound` (one owner each, invitations only by managers, member sees workspace), `LimitExplained` |
| `listing` | 4 ids, pages of 1 to 3, up to 2 changes of lag | `WalkIsExact`: no link twice, none that stays is skipped |
| `streams` | 3 clicks and a bot's, 2 streams with overlapping subscriptions, channel of 1 | order and completeness, but for the one click whose failed write ends the stream; no goroutine left behind within the channel's capacity, clicks are shown |
| `credentials` | 1 key, 1 token, 2 requests at once, clock to 3, skew 1 | `RevokedIsRefused`: revoked keys and logged-out tokens are refused, one revoker |

Why the bounds are enough for the questions asked: codes do not interact except
through the collision loop, so one code and two writers show every pairwise race
of writers, and a third process (the redirect and its goroutine) the races with
a fill; the proofs of section 4 remove the bound for the safety properties of
the core. Channels and batches of one and two with more events than fit reach
*empty*, *partial*, *full* and *dropped*. Two workers, pods or requests
are what a claim, a limit or a revocation has to exclude. One slip of `webhooks`
is a crash, a lost statement or a claim that goes stale under its worker; with one
webhook, three attempts and three slips (a delivery lost, taken over and lost
again) the same properties hold. Two webhooks are what a dispatch cut short, and a
limit of one exceeded, need. One connection per pod is leaked by the first failed
write that has rows left, which takes two rows. Two clicks on either side of, or
on, a boundary are what a series can lose, and two values in a breakdown of one
row what a LIMIT leaves out. The limiter's clock runs past the
time to live of a key (4 ticks) and past a full refill. Four ids and pages of one
to three give walks of several pages, with a partial last page and a page that
is exactly full.

**Fairness.** Handlers, goroutines and tickers that run are scheduled (Go's
scheduler; every handler has a deadline and the workers' loops end only with
their context); the replica catches up; TTLs run out; a terminated pod is
replaced. All of this is weak fairness on those steps alone. Requests, faults,
shutdowns and clock ticks are never fair: nothing makes them happen.
In `url_core` and `webhooks` a fair step may be the faulty variant of a call; the
number of commands or slips is bounded, so faults end. Most liveness
properties are of the form `<>[]`: requests are finite in number, so "when no
more requests come" is every behaviour of the instance.

## 4. Proofs

Proved with TLAPS for all values of the constants that satisfy the named
assumptions. None of these bounds a number of codes, requests, workers, pods,
attempts or ticks. They say that counts are natural numbers, that a capacity or a
batch is not zero, that a null is none of the values it stands beside
(`NoRowIsNoRow`, `NoDeliveryIsNoRow`), that keys and tokens are told apart, and,
where a property counts, that the sets counted are finite. `WebhookConstants` also
wants one registration to exist, without which "the limit, plus the racing
registrations, less one" would be below the limit, and `ReportConstants` that the
longest window of a granularity is a whole number of its buckets, as 24h of 1m,
30d of 1h and 365d of 1d are (`domain/analytics/query.go`): otherwise a window across
one more boundary has one more point.

For each component there is an inductive invariant (`IInv`; `StreamInv`,
`ListingInv` and `ReportInv` where a module has two; in the core
`TypeOK /\ Stored`). Its module proves that it holds
initially (`InitInv`) and that each action preserves it (`NextInv` and the
lemmas before it, one per action or per conjunct), and derives the properties of
section 3 from it. TLC checked every one of them on the instance of the
component's run (with the processes of a pod of `ExportJobs` numbered 0 to 9 and
the days of `AnalyticsReports` 0 to 10, for TLC cannot enumerate `Nat`). The
invariants have to say more than the properties in these ways:

* **URL core** (`UrlProofs`).
  `TypeCorrect`: `TypeOK` is inductive because it ties the kind of a request's
  command and entity to the call it is at.
  `ServedCorrect`: a redirect can be answered from the cache, the replica or
  memory, so `ServedWasStored` is not inductive. `Stored` is: everything in the
  replica, in a positive key, in the hands of a pre-warm and of an answered
  redirect is a row its code has had (`StoredRows`, `StoredApi`,
  `StoredAnswers`), and status and deleted_at agree in every row.
  `LagCorrect`, `NegativeCorrect`: the two coherence invariants, inductive
  relative to `Stored`. The proof sorts every step, code by code, into three
  cases: it leaves the code `Undisturbed`, it leaves a reason behind
  (`ExcusedFine`: a delete is pending or lost), or it sets a key (`CreatedFine`
  and the fill steps, where `late` records an old row).
  `DirectoryCorrect`: `Spec => ImplementsDirectory`. Each action is mapped to a
  step of `UrlDirectory` or to a stutter; `Stored` gives the witnesses (the row
  an answer was made from is in `ever`).
* **URL listing** (`UrlProofs`). `ListingTypeCorrect`, `WalkCorrect`. A page is
  what comes first of what remains, and its cursor parts the two (`PageIsFirst`);
  so whatever a walk has seen is at or before its cursor (`WalkSound`), and a link
  the replica went on showing is seen or still to come. Both facts need a limit of
  at least one, which the parser promises for all digits (`NumberType`,
  `LimitType`), overflow included.
* **Rate limiter** (`RateLimiterProofs`). `LimiterTypeCorrect`, and `RateCorrect`,
  which assumes `Factor * Window <= Ttl`: a bucket fills within the key's time to
  live. The code's TTL is two windows, so the assumption holds for burst factors up
  to 2; with 3 the expiry of a key hands out a full bucket too early and the bound
  fails. The invariant adds `Account` (what has passed and what is left come out of
  one bucket, its refill up to `last`, and `back`) and `Clocks`.
* **Webhooks** (`WebhookDeliveryProofs`). `TypeCorrect`,
  `SettledForAReasonCorrect`, `ClaimsHoldCorrect`, `LimitCorrect` and the action
  property `DeliveredIsFinalCorrect`. Who may touch a delivery is said by `Held`:
  a worker's attempt number is at most the row's, no two workers with an outcome to
  write have the same one, and unless a claim went stale the row is in
  `delivering` for its one holder. That endpoints are not called too often needs
  a count, `CountedAt`: the attempts still open (`Open`, `Unposted`) and the posts
  made stay within the row's attempts and the stale claims; a late failure may
  set a row back to pending, but closes the number it was claimed under.
  `AbandonedIsExplained` needs that deliveries go with their hook
  (`HooksSound`) and that a worker which found the hook undeliverable found it failing
  or deleted (`OutSound`). `StepKinds` sorts the steps once for all conjuncts: to each
  delivery a step does nothing, or inserts, claims, posts or settles it.
* **Audit pipeline** (`AuditPipelineProofs`). `TypeCorrect`,
  `TrailIsExactCorrect`. Where each event is: in one place on its way, and neither
  stored nor counted before it leaves it (`Placed`), and a committed operation's
  event is never nowhere (`Accounted`). What main's steps leave behind
  (`Stopping`) decides which of these places can be occupied at the exit.
* **Analytics ingestion** (`AnalyticsProofs`). `TypeCorrect`,
  `CountsCorrect`, `GracefulCorrect`. `Placed` and `Accounted` as above, with two
  flushes that may be half way. For the click counts, `Backed` names the stored
  redirects that a count can stand for already: those that no flush under way is
  still going to count (`Countable`). An UPDATE adds exactly the
  redirects that become countable with it, so neither a statement that fails after
  taking effect nor a loop that ends early counts one twice. `Control` is what main and the
  drainer can still be holding at each step of the shutdown.
* **Live click streams** (`AnalyticsProofs`). `StreamTypeCorrect`, `OrderCorrect`.
  Each step moves a click over one of the cuts in the line of `shown` and `lost`,
  `events`, `hand` and `inbox` (`Line`), which associativity leaves as it is.
  `lost` is empty while the stream runs, so that a click written never comes after
  one whose write failed (`HandlerTakes`). What is not obvious is that the
  handler's own test for bots drops none: none is ever published (`NoBots`).
* **Exports** (`ReportingProofs`). `TypeCorrect`, `ExportsAreWhole`,
  `JobsAreAttended`. `Attended`: whoever holds a job finds it in processing, and
  only pending jobs are claimed. `FilesKept`: the rows a worker has counted are
  those in its file, no other pod has a file of a job being worked on, and the
  statement that publishes the file runs only if nothing was cancelled.
* **Analytics queries** (`ReportingProofs`). `ReportsTyped`, `SummariesAreSound`,
  `ReportsAgree`, for any number of clicks, any clock, windows, bucket sizes and
  `TopN`. The invariant (`ReportInv`) says little of the reports and much of what they
  read: rows are stored clicks with the hash their `Capture` made of the address and its
  day (`HashesExplained`), and what was shown is at most what a report now being
  made will count (`ShownIsStored`), because the replica goes on showing what it
  showed (`RowsGrow`, proved of every step). The rest is about one answer. Each
  click of the window is in exactly one bucket between the start's and that of the
  last microsecond (`BucketOfClick`, `BucketsDiffer`), so the points' counts
  are sizes of disjoint sets whose union is the summary's (`SumOfDisjoint`), and
  the points' unique visitors cover the summary's (`SumCovers`). In a breakdown,
  which may be any order that ties allow, what is cut off comes after what is
  listed (`Descending`). Unique visitors are bounded from below because the IP can
  be read off a hash (`IpOfHash`), from above because a hash is of its click's day
  unless the click is late (`HashOfDayOrLate`).
* **Workspaces** (`WorkspacesProofs`). `TypeCorrect`, `MembershipCorrect`,
  `LimitCorrect`. The replica shows a prefix of the log, so `TablesSound` speaks
  of every prefix; `Checked` is what a request has read, and stays true because
  the tables and the prefix only grow (`TablesGrow`).
* **Credentials** (`CredentialsProofs`). `TypeCorrect`, `RevokedCorrect`, and the
  action property `RevocationIsFinal`. `RevocationKept`: a key that was answered to
  be revoked has a revoked row, and a token an entry as long as itself, or has
  expired. `RequestSound`: what a request found between its start and now. No step
  undoes the first (`Kept`), whichever goroutine writes to the row.

Only model-checked is liveness (`EventuallyCoherent` and the other `Eventually...`
properties, and `LeavesNoGoroutine`): the prover has no support for fairness and
ENABLED. Every invariant and every safety property that a run checks is
proved, except `DeletedNotServed`, which is false (section 5).

The library's induction theorems take an operator as a parameter, which the
provers cannot instantiate. Where a proof goes by induction over data, it takes
the smallest counterexample instead: `Smallest` follows from the library's
`NatLessThanWellFounded` and `WFMin`, which take none. So `NumberExists` shows that the
recursive function of `Number` has values, `PageIsFirst` finds the last link of
a page, and `SumIs` shows that the fold behind `Sum` is the one function that adds
up a row at a time.

## 5. Divergences

What the code does against what it says, met while modelling. The first is a
run of its own; the others follow from the actions named and need no
interleaving that the model does not have.

1. **A deleted link is served** (`url_delete_race`).
   `application/url/delete_handler.go:35` says that "after soft-delete, the
   redirect service must not serve the old target". A redirect reads the row,
   the delete commits and removes the keys, then the redirect's goroutine
   (`application/resolve/handler.go:113`) stores the old row for its TTL. The
   same happens when the `DEL` fails (`delete_handler.go:95`), though lines
   37 to 40 say that the next redirect will hit PostgreSQL. `LagIsExplained`
   and `EventuallyCoherent` say what holds instead.
2. **An expired link turns from 410 to 404.** `shorten/command.go:60` says 410;
   `resolve/handler.go:109` sets the negative key, and the next redirect
   answers from it (`ResolveDb`, `ResolveNegative`).
3. **Concurrent PATCHes undo each other.** `update_handler.go:97` says "only
   mutate fields where the command provides a non-nil value", but
   `repo.Update` writes every column of a snapshot read from the replica
   (`Fetch`, `UpdatedRow`). `UrlDirectory` leaves the values of a change free, so
   no run speaks of it.
4. **`expires_at: null` is ignored.** `handler/url.go:63` says that it removes the
   expiry; `hasExpiresAtField` (line 434) always returns false (`ApplyPatch`).
5. **Generated codes may be reserved paths.** `shorten/handler.go:299`; only
   custom codes pass `validateCustomCode` (`healthz` and `metrics` have seven
   base-62 characters).
6. **One failed counter update skips the others.**
   `postgres/analytics_repository.go:156` says "log but continue"; line 158
   returns (`FlushStep`).
7. **Audit events are lost in an orderly shutdown.** `audit/service.go:159` says
   that Shutdown writes any remaining buffered events; it does not wait for
   the drainer's batch, and has only what `srv.Shutdown` left of one deadline:
   `API_WRITE_TIMEOUT_S` and `API_SHUTDOWN_TIMEOUT_S` are both 30 s by default, so
   one slow request can use it up. `LossIsExplained` is what holds.
8. **The limits of webhooks and workspaces can be exceeded** by concurrent
   requests and through the replica's lag (`webhook/register_handler.go:73`,
   `workspace/create_handler.go:103`). Both count on the replica, so requests one
   after the other can exceed them too; `LimitExplained` is the exact price.
9. **The sustained rate can be exceeded.** The script stores an earlier stamp over a later
   one (`redis/ratelimit.go:82`), so an interval is refilled twice; the term
   `back` of `RateBounded` is the exact price. `policy.go:72` ("maximum number of
   requests allowed per Window") does not hold of any token bucket.
10. **A member may be told that they are none.** `middleware/workspace.go:77`
    after a read from the lagging replica.
11. **The limit parameter wraps around** (`handler/url.go:418`): 2^64 + 1 gives
    pages of one.
12. **Unique visitors may be connections.** `handler/redirect.go:135` passes
    `RemoteAddr`, which has the peer's port unless a proxy header replaced it;
    each connection then counts as a visitor. `UniquesExplained` bounds the number
    either way, with one more for each click stamped before midnight and hashed
    after.
13. **A breakdown's total is that of the 50 rows it lists**
    (`postgres/analytics_query_repository.go:244`), and so are its percentages.
14. **A replica that cannot be reached stops the start.** `postgres/client.go:68`
    calls that non-fatal; line 73 returns an error.
15. **An export leaks a connection** when a row cannot be written
    (`export/worker.go:130`): the reader goroutine keeps it until the pod stops,
    and once all are held no job of that pod gets past its query (`Starved`).
16. **Exports and reports differ at the end of a window**: exports select up to and
    including `date_to` (`export_repository.go`), reports exclude it.

## 6. Not modelled

* Wiring, configuration and health checks of `main`, and which middleware a route
  is given: `POST .../urls` is registered outside the authenticated group
  (`cmd/api/main.go:308`). The order of shutdown is in the pipelines' modules.
* Cryptography and conversions (bcrypt, JWT signatures, user agents, geoip,
  code generation): results are values; a fresh code may collide.
* Migrations, mock issuer, telemetry, front end, deployment files. The migrations
  create the monthly partitions of `redirect_events` and `audit_logs` around their
  own date only; once these have passed, every INSERT fails, which the pipelines'
  models know as a failed statement.
* Within modelled parts: payloads, titles, formats. `AnalyticsReports` takes
  the pods' clocks as one and the client's reports as one after another, and
  leaves out the cut to seconds of printed window bounds. `ExportJobs` leaves out
  the expiry of a download link, which only refuses. A logout with an API
  key (`cmd/api/main.go:571`) is in `Credentials`, but no document says what it
  should do and no property speaks of it.
* Code without a caller: `UpdateRole`, `RemoveMember`, `RevokeAll`,
  `ClassifyDevice`, `HashWithDate`.

## 7. Plan

Done: the core with its refinement, every other component with state or
reports, and proofs of all their safety properties.

Next: `RateLimiter` and `Credentials` composed with a request's path through
the middleware; the start of a service and its readiness checks.
