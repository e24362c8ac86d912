# A TLA+ verification of penshort

Penshort is a URL shortener: a Go HTTP server with PostgreSQL as its store and
Redis as its cache, its stream and its rate limiter. Several instances may run
behind a load balancer (`docs/deployment.md`), each with one analytics worker and
one webhook worker (`cmd/api/main.go`). These modules model the parts in which
processes, messages and failures interact, check them with TLC on small
instances and prove the most important properties with TLAPS for all instances.

## The system

| Part | State | Operations | Interacts with |
|---|---|---|---|
| Redirects (`service.ResolveRedirect`, `cache/link.go`) | Redis hash `link:{code}`, marker `link:{code}:neg`, both with TTLs | look up, backfill, mark as missing, evict, answer | reads `links`; emits a click event |
| Link writes (`service/link.go`, `repository/link.go`) | table `links` | create, update, delete; each a read, a commit and an invalidation | invalidates the hash and the marker |
| Alias allocation and listing (`service/link.go`, `repository/link.go`) | table `links`, its unique index; the client's cursor | draw, look up, insert; list a page, filter it | beside all other writes |
| Click ingestion (`analytics/`, `repository/click_event.go`) | stream, consumer group, dead-letter stream; tables `click_events`, `daily_link_stats` | publish, read, claim, parse, insert, aggregate, acknowledge | fed by redirects; calls the webhook publisher |
| Analytics queries (`handler/analytics.go`, `repository/click_event.go`) | none of its own | choose the period, read the summary, read the daily rows | beside the analytics workers |
| Webhooks (`webhook/`) | table `webhook_deliveries` | publish, fetch, POST, record, retry | fed by click ingestion; calls receivers |
| Endpoints (`handler/webhook.go`, `webhook/repository.go`) | table `webhook_endpoints` | create, update, delete, rotate the secret | read by the publisher and by the worker before each POST |
| API keys (`middleware/auth.go`, `cache/auth.go`, `handler/apikey.go`) | table `api_keys`, Redis auth contexts | authenticate, create, revoke, rotate | in front of every `/api/v1` route |
| Rate limiter (`cache/ratelimit.go`) | one Redis hash per key or IP | the Lua script, expiry | after Auth; before redirects |
| Server life cycle (`cmd/api/main.go`, `server/server.go`) | shutdown functions, one deadline, the open stores | connect, start, take a signal, stop in order, close | ends handlers and workers |
| Config, metrics, health, admin, signatures, key hashing, other middleware | | | not modelled: no shared state, or pure computation |

What is hard in this code is listed in `PROJECT.json` under `hazards`, each at
its line: cache-aside races, merging hashes, lost invalidations, batches worked
on from old snapshots, at-least-once delivery, read-then-write aggregates,
check-then-act on keys, aliases and endpoints, pages cut while rows come and go,
a deadline shared by everything that must stop, clocks of several machines.

What makes each part correct:

- redirects: what is served was committed, enabled and has not expired; a stale
  cache has a known cause and heals;
- link writes: a deleted row is never rewritten or revived;
- aliases: the unique index keeps a code to one link; an alias found free is lost to
  a race alone;
- listing: pages neither repeat nor miss a link;
- click ingestion: what is acknowledged was stored or dead-lettered, nothing is
  forgotten or counted twice, statistics are exact at rest;
- analytics queries: a report has what had been acknowledged, and its two halves
  agree in one direction;
- webhooks: the status and count of a delivery follow its life cycle, a recorded
  success was real, the number of POSTs is bounded;
- endpoints: a replaced secret never returns, fields are lost for a known reason
  only, a deleted endpoint is not written, only the owner writes;
- life cycle: handlers, workers and stores stop in this order, within one
  deadline, and the process ends;
- keys: a context is what the row says, a revocation takes effect within the
  TTL, only the owner's admins revoke, a rotation keeps the grant;
- rate limiter: admissions are bounded over every span; Retry-After suffices.

## Modules

Every Redis command, Lua script, SQL statement and POST is one step; between two
of them any other process may move. Failures are a disjunct of the step that
fails, bounded by `MaxFaults`. Time is relative (what remains of a TTL or until an
expiry) wherever behaviours must be able to go on for ever. Definitions named in
a comment *A mutant, used to test the properties* are not part of the model: each
is a plausible bug of the definition below it, used to see that the properties
notice it.

**LinkRedirect** is one short code: `rows` (the rows that ever carried it),
`entry` and `neg` (its two Redis keys), the redirect requests (`rpc`, `rlink`,
`rttl`) and the API calls (`wpc`, `wlink`). `GetLink`, `IsNegativelyCached`,
`GetLinkByShortCode`, `SetNegativeCache`, `SetLink*`, `Validate` and `Evict*` are
the steps of `ResolveRedirect`; `CreateLink`, `Update*`, `Delete*` and
`Invalidate*` those of the writes. `ToUnix` and `FormatSec` are what becomes of a
time on its way through the hash and through EXPIRE. `TornPipelines` says whether
a pipeline may be cut between its commands. `history` and `raced` are history
variables. The pair (destination, redirect type) is the number of the write that
set it. `UpdateLinkInput.ClearExpiry` has no caller and is left out, as is the
click counter in Redis, which nothing reads.

**LinkTable** is the table `links` without its cache: POST calls (`call`) that draw
an alias, look it up (`ShortCodeExists`) and insert (`InsertLink`, `RefuseLink`),
deletions and changes of status, and one client that lists page by page (`list`).
`Selected`, `Top` and `AfterCursor` are the SELECT with its keyset cursor; `HasMore`
is the extra row it fetches; `Shown` is the status filter, which runs after the page
was cut. created_at is any time: it is read on some machine before the INSERT
commits. `raced`, `listed` and `steady` are history.

**DeliveryLifecycle** is the abstract specification of a delivery: queued once,
attempted while it waits, exhausted by the last failing attempt, success final,
reopened only by hand. **WebhookDelivery** is the outbox that is to implement it:
`PublishClickEvent` and `CreateDelivery` (the publisher), `GetPendingDeliveries`,
`GetEndpoint`, `Post`, `UpdateDeliverySuccess`, `HandleDeliveryError`,
`CloseDelivery` (the worker, which works on snapshots `batch` and `cur`), `Stop`
(a crash or a cancelled context), and the management API with its reads and
writes as separate steps. `posts`, `accepted` and `late` are what receivers saw.
Here an endpoint is only active, disabled or deleted. `Scannable` is the scan of
`last_error` into a Go string. `ScansNull` says whether database/sql accepts a NULL
there. It does not: FALSE is the code as it stands, in which a poll that finds a row
never attempted ends in an error and changes nothing, and TRUE is the code with a
scan that accepts the NULL. The safety properties and their proofs are for both.

**WebhookEndpoints** is the table the handlers write: an endpoint with an owner, a
URL (for all fields that PATCH treats alike), a flag and a secret. Each of
`UpdateEndpoint`, `UpdateEndpointSecret` and `DeleteEndpoint` is the second statement
of a handler whose first, `Begin*`, read the row and checked its owner. Workers read
the endpoint (`GetEndpoint`) and sign with what they read (`Post`). A failing second
statement may have taken effect. `asked`, `overtaken`, `retired` and `late` are
history.

**ClickPipeline** is the stream (`stream`, `unread`, `pel`, `acked`), the tables
(`stored`, `stats`, `hooks`) and the workers. `PublishAsync` may trim the stream;
`MaybeClaimPending` may claim what another worker is still processing, because a
batch (with its back-off) may take longer than `claimIdle`; `published` is the set
of events whose delivery carries the click id of the current parse, which is what
the unique index recognises. Clicks are counted by link and date (`KeyOf`); of the
aggregates only total_clicks is kept, as all of them come from the same SELECT.

**AnalyticsReport** extends it with GET /links/{id}/analytics: `ParseTimeRange`,
`GetAnalyticsSummary` and `GetDailyStats` beside the workers. Which breakdowns a
response includes and how they are sorted is left out.

**APIKeys** is the table, the cache and requests that authenticate and then use,
create, revoke or rotate a key. A key and its plaintext are one element of
`Keys`; `PrefixOf` may map several of them to one prefix. `rotated` and
`quiet` are history. last_used_at is left out. A caller's API requests
go through Auth (cache, lookup, store), RequireAdmin and the handler, each store
access a step. An INSERT or UPDATE that is answered by an error may have been
committed (`Committed`): a rotation answered 500 may leave a new key that nobody
knows.

**RateLimit** is one bucket. The time a call carries is taken before the call is
sent, on the caller's machine: it is up to `Skew` seconds behind and not in order.
Rates are whole tokens per second, which those of all tiers (60 and 600 per
minute) and of RATE_LIMIT_REDIRECT_RPS are.

**ServerLifecycle** is one process: main (`pc`) connects to the stores, starts the
workers (`hooks`, `stats`) and the listener, takes a signal, waits for the handlers,
calls the shutdown functions in reverse order under one deadline, and runs its
deferred Close calls. A goroutine with a running statement holds a connection
(`holds`), and the Close of a database waits for it. The time of a tick passes only
while main waits for somebody. The workers' batches are spans here; what is in them
is in WebhookDelivery and ClickPipeline, where a stop is an action of its own.
PublishAsync goroutines, which nobody waits for, are the failing disjunct of
publishing in ClickPipeline.

`MC*` modules give small sets and symmetries; `*Proofs` modules hold the proofs.
AnalyticsReport is composed with ClickPipeline; the other modules share no state and
are checked one by one. Where one calls another, the caller has the callee's interface as one step (`PublishWebhook` in
ClickPipeline is `PublishClickEvent` followed by the inserts).

## Runs

Ten runs pass:

| Run | Shows |
|---|---|
| LinkRedirectRaces | redirects against two API callers, two rows, three writes, a failing step, torn pipelines: `ServedWasCommitted`, `StaleHasCause`, `DeletedIsFinal` |
| LinkRedirectLive | seconds of two ticks, so that expiries lose a fraction: `EntryWasCommitted` and `EventuallyConsistent`: TTLs heal what a failed invalidation or a race left |
| LinkTable | two creators with two tries each, three rows of equal and late created_at, deletions, status changes, pages of one link: `ConflictIsRace`, `ListedOnce`, `ListingComplete` |
| WebhookOneWorker | a batch of two, an endpoint that changes, a manual retry, a failure; rows that can be scanned: `SnapshotFresh`, `PostsBounded`, `InactiveIsQuiet`, `SuccessWasAccepted`, `PostsAreCounted`, `ImplementsLifecycle` |
| Endpoints | two concurrent calls of two users, a worker, three secrets, a failing statement: `RetiredStaysRetired`, `RetiredSignsOnce`, `LostUpdateHasCause`, `ChangedByOwner` |
| ClicksOneWorker | three clicks (one poison) on two dates, MAXLEN 2, two failures, and a client that asks for reports: `EntryIsTracked`, `AckedIsKept`, `AggregatesAccurate`, `HooksBounded`, `PeriodHonoured`, `ReportAgrees` |
| ClicksWorkers | two workers that claim from each other, MAXLEN 1, two failures: `NeverOvercounted`, `EventuallyAcked` |
| KeysRaces | one user with two keys or two users that share a prefix, a failure, TTL 2: `ContextMatchesKey`, `RevokedWithinTTL`, `RotationKeepsGrant`, `RevokedByOwner`, `RevocationTakesEffect` |
| Lifecycle | two requests, both workers, a signal or a listener error at any moment, everything but main and the databases may hang: `PhasesInOrder`, `StoresOutliveWorkers`, `DeadlineKept`, `EventuallyExits` |
| RateSkew | skew 1, expiry, a lost reply: `AdmissionBounded`, `RetryIsEnough` |

ClicksOneWorker and Lifecycle also check the types of their modules; the types of
all modules are proved.

Two runs end in a violation, each a bug of the code. `PROJECT.json` quotes the
sentences that they break.

- LinkRedirectClicks, `ClickIsRecordable`: clicks on cached links have no link id and
  are refused by the worker.
- WebhookNewRow, `EventuallySettled`: `CreateDelivery` leaves `last_error` NULL and
  `scanDeliveries` (`webhook/repository.go:536`) cannot read a NULL into a string. A
  poll that finds a delivery never attempted is an error, which `Run` logs, and the
  other deliveries of the batch are not sent either. As every delivery begins like
  this, none is ever sent. `GetDeliveryWithEndpoint` and `ListDeliveriesByEndpoint` scan
  the column in the same way. The tests that would show it are built with the tag
  `integration` and skipped without a `DATABASE_URL`.

WebhookOneWorker therefore has `ScansNull = TRUE`: with FALSE its worker would never get
a batch, and there would be nothing to check. What it shows of the steps after the
fetch does not depend on the scan, which only decides whether they are reached. With
`ScansNull = TRUE` the instance of WebhookNewRow, with its two workers, satisfies
`EventuallySettled`: the scan is the only thing that keeps a delivery waiting.

Bounds. Two processes are what every race here needs: one holds a value it
read, the other changes it; LinkRedirect has three, a redirect and two writers. Two rows of a code are needed for a
row created after another was deleted; three writes let a row be created,
deleted and followed by another. LinkTTL 2 leaves a tick in which a key is
neither fresh nor gone. MaxAttempts 2 has a first, a retried and a last attempt;
BatchSize 2 lets a snapshot grow old while the other delivery is POSTed. MaxFaults
1 or 2 puts a failure at any step and, for clicks, exhausts the two tries. Three
rows and a page of one make a listing with a first, a middle and a last page; a
fourth row adds a second middle page and no new case, as a page depends on its
cursor alone. Two creators and three codes let both draw the same free alias, draw
a taken one twice, or miss each other. Three secrets are a created one and two
rotations, the least for a rotation that overtakes another. One worker suffices for
`RetiredSignsOnce`: workers touch nothing that another reads. SHUTDOWN_TIMEOUT 2
lets the deadline pass in every stage or between two. TTL 2
with a failure covers an entry written back after the revocation. In RateLimit
six seconds are more than the TTL of four, and a burst of three at rate two needs
two seconds to refill. CHECK_DEADLOCK is off where the system does stop: in
ClickPipeline once every click has been sent and acknowledged, in ServerLifecycle
once the process has ended, and in WebhookEndpoints once the only endpoint is
deleted.

Fairness. A goroutine that has begun a request, a batch or a call goes on (the
Go scheduler; every call has a timeout); workers poll again and again (`Run`
loops); time passes. Clients, publishers of new clicks and failures owe nothing.
ClickPipeline assumes strong fairness of reading, and of claiming each message:
a worker is busy again and again, reads are in stream order, and XAUTOCLAIM's
cursor goes round the pending list. ServerLifecycle assumes less: main runs, time
passes and the databases end every statement; handlers, workers and the listener may
hang for ever. Liveness of the link cache assumes that no
pipeline is cut (`TornPipelines = FALSE`); see the list below.

### Further disagreements

The models also contain the following behaviours, met while they were written.
No run is spent on them; each can be seen by stating the quoted sentence as a
property.

- `docs/PRD.md:43`: "Soft delete (set `deleted_at`), redirect returns 410 Gone".
  Rows are read under `deleted_at IS NULL`, so a deleted link is a 404
  (`service/link.go:348`).
- `docs/links.md:120`: "`expired` | Past `expires_at`". `SetLink` omits expires_at
  for a link without one and HSET keeps the field of an older hash
  (`cache/link.go:84`): a link that never had an expiry may answer 410.
- `docs/links.md:135`: "Cannot update expired link". The expiry is checked on the
  row read, not in the UPDATE (`service/link.go:236`).
- `service/link.go:278`: "eventual consistency is acceptable". HSET and EXPIRE are a
  pipeline, not a transaction (`cache/link.go:91`): cut between them, a stale hash
  stays until the next write. With `TornPipelines = TRUE` TLC finds
  `EventuallyConsistent` violated.
- `docs/webhooks.md:103`: "After 5 failed attempts, the delivery moves to
  `exhausted` state." The decision uses the count of the snapshot, the UPDATE
  increments the row's (`webhook/worker.go:171`): with two workers a delivery stays
  failed at the maximum.
- `docs/webhooks.md:95-101` has 1 minute as the first delay; `retry.go:28` counts
  attempts from 0, `worker.go:189` passes them from 1: the first delay is skipped.
- `docs/rate-limiting.md:99`: "Respect `Retry-After` header". It is computed against the
  clock of the machine that refused: `RetryIsEnough` is about a retry whose time stamp
  is no earlier than that. A retry served by a machine whose clock is up to `Skew`
  seconds behind may be refused again.
- `docs/webhooks.md:111`: "`failed` | Last attempt failed, will retry". Deliveries
  of deleted or disabled endpoints are not fetched (`webhook/repository.go:312`) and
  therefore never closed by `worker.go:111`.
- `migrations/000006_webhooks.up.sql:89`: "Outbox pattern for reliable webhook
  delivery". A failed INSERT is logged and skipped (`webhook/publisher.go:82`).
- `migrations/000006_webhooks.up.sql:77`: "Index for event lookup (prevent
  duplicates)". The event id is generated at each parse (`analytics/worker.go:367`):
  a reclaimed click is queued again under another id. `HooksBounded` bounds this.
- `analytics/worker.go:342`: "Malformed or invalid messages are moved to the
  dead-letter queue." A failed XADD is only logged (line 409) and the message is
  acknowledged.
- `docs/adr/0002-api-auth-rate-limiting.md:826`: "Revoked keys cannot authenticate".
  `DeleteAuthContext` (`cache/auth.go:74`) has no caller; the cache answers until its
  TTL is over. `RevokedWithinTTL` bounds this.
- `docs/adr/0002-api-auth-rate-limiting.md:827`: "Rotation atomically creates new +
  revokes old". They are two statements (`handler/apikey.go:248`): two concurrent
  rotations both answer 201.
- `docs/rate-limiting.md:108-109`: "Tokens refill continuously". An absent hash is a
  full bucket: where burst exceeds TTL times rate, its expiry refills faster than
  the rate does (`cache/ratelimit.go:20`). With Rate 1, Burst 3, TTL 2 TLC finds
  `AdmissionBounded` violated; the proof assumes `TTLCoversBurst`.
- `docs/rate-limiting.md:27`: X-RateLimit-Remaining is "Requests left in window". A
  time stamp behind last_update takes tokens away (`cache/ratelimit.go:46`) and the
  header may be negative.

- `model/webhook.go:88` and `migrations/000006_webhooks.up.sql:90` have success and
  exhausted as terminal. Two workers may hold one delivery; the one that fails last
  writes failed over success (`webhook/repository.go`, UpdateDeliveryFailure). The
  proof of the life cycle therefore assumes one worker.
- `docs/adr/0003-click-event-ingestion.md:33` and `:38`: with two workers on one link the
  SELECT of one and the UPSERT of the other cross, and the older count is written
  last. `AggregatesAccurate` is checked for one worker, `NeverOvercounted` for two.
- `RUNBOOK.md:298`: "Analytics worker drains current batch"; the comment at
  `analytics/worker.go:151` says the same. Shutdown cancels the context first, and the
  batch's next statement fails; its messages stay pending until they are claimed.
- Shutdown of an analytics worker whose Run has not been entered returns at once and
  stops nothing: the stores may be closed under a worker that then starts. That is
  the exception in `StoresOutliveWorkers`.
- SHUTDOWN_TIMEOUT ends `gracefulShutdown`, not the process: the deferred Close of a
  database waits for statements that still run, without a limit.
- `docs/webhooks.md:66-86`: the example for receivers uses the bytes of the SHA-256 of
  the secret as key; the worker signs with their hexadecimal form
  (`webhook/worker.go:124`, `signer.go:50`).
- `handler/analytics.go:88-95`: the period is cut to its maximum before its end is
  moved back to now: with an end far in the future it starts after it ends, and the
  report is empty. `PeriodHonoured` says what does hold.
- A cursor that does not decode, and an update of a deleted endpoint, are answered
  500 (ErrInvalidCursor and ErrEndpointNotFound are not mapped).
- POST /links without an alias may be answered 409, "alias already taken", when
  another call inserted the drawn alias after the lookup: the INSERT is not tried
  again (`service/link.go:431`). `ConflictIsRace` says that this is the only way.
- Two overlapping PATCHes of an endpoint both answer 200 and one loses its fields; a
  rotation answered 500 may have replaced the secret (`handler/webhook.go:321`).

## Proofs

For all constants that satisfy the ASSUMEs of the modules:

| Theorem | Along which argument |
|---|---|
| LinkRedirectProofs: `TypeCorrect`, `ServedCorrect`, `EntryCorrect` | `HistoryInv`: every live row, the hash and every link in hand are, up to an earlier expiry, in the history. `HSetCommitted` is the step where a merge could go wrong, `ToUnixEarlier` the one where truncation could |
| LinkRedirectProofs: `StaleCorrect`, `DeletedCorrect` | `StaleHasCause` is inductive with the types; the WHERE clauses give the other |
| WebhookDeliveryProofs: `TypeCorrect`, `SuccessCorrect` | any number of workers; `SuccessInv`: one that is to record a success has seen the 2xx |
| WebhookDeliveryProofs: `SnapshotCorrect`, `LifecycleCorrect`, `PostsCorrect` | for one worker; `FreshInv` gives the step-by-step refinement, `CountInv` relates POSTs, counts, retries and failures |
| APIKeysProofs: `TypeCorrect`, `ContextCorrect`, `RevocationCorrect` | `KeysInv`: the time an entry of a revoked key has left and the time since its revocation add up to at most the TTL |
| APIKeysProofs: `RotationCorrect`, `OwnerCorrect` | `ManageInv`: what `ReadTarget` checked still holds, as grants never change |
| LinkTableProofs: `TypeCorrect`, `ConflictCorrect` | `ConflictIsRace` is inductive with the types: the lookup saw the code free, and an INSERT marks the calls it overtakes |
| LinkTableProofs: `ListedOnceCorrect`, `CompleteCorrect` | `ListInv`: everything live that was shown is at or above the cursor, and everything steady at or above it was shown. `PageIsPrefix` and `LastPage` are what ORDER BY, LIMIT and the extra row give; the latter takes a row beyond the page with the fewest rows before it |
| WebhookEndpointsProofs: `TypeCorrect`, `RetiredCorrect`, `SignedOnceCorrect` | `SecretInv`: rows, rotations under way and retired secrets are disjoint; `SignInv`: who holds a secret has not signed late with it |
| WebhookEndpointsProofs: `LostUpdateCorrect`, `ChangedByOwnerCorrect` | `FieldsInv`: until a PATCH is overtaken, the copy of a call is what had been asked when it read; the caller is the owner |
| RateLimitProofs: `TypeCorrect`, `RetryCorrect`, `AdmissionCorrect` | `BucketInv` bounds the debt left by late time stamps; `CountInv`: tokens - last * Rate never grows while the hash lives. The last needs `TTLCoversBurst`, and fails without it |
| WebhookDeliveryProofs: `CountedCorrect`, `QuietCorrect` | any number of workers; `PostsAreCounted` is inductive with the types, over the cardinality of the workers in flight; `LateInv`: the late POSTs and the workers that have looked the endpoint up before are together no more than the workers |
| ClickPipelineProofs: `TypeCorrect`, `EntryCorrect`, `AckedCorrect` | any number of workers; `SentInv`, `StepInv`, `DeadLetterInv`: where each entry is, what each step of a batch has behind it, and that only poison is dead-lettered |
| ClickPipelineProofs: `CountCorrect` | any number of workers; `TotalsInv`: every count that was read, written or not, is a count of fewer rows, and rows are only added |
| ClickPipelineProofs: `AggregatesCorrect` | for one worker; `AccurateInv` with its parts `HeldInv`, `WrittenInv` and `LagInv`: a statistic lags only for a key with an entry that is still pending or has been trimmed |
| ClickPipelineProofs: `HooksCorrect` | for one worker; `OnceInv` and `DuplicateInv` count what each parse has published against the failures that made it parse again, `MissingInv` what was not published. It follows that the cap on the count, `HookCap`, is never reached |
| ClickPipelineProofs: `PeriodCorrect`, `ReportCorrect` | `AskedInv`; and for one worker `CountedInv` and `SummaryInv`: the statistics cover what is acknowledged, and the sum over the keys of a period is the number of its clicks (`PeriodSum`) |
| ServerLifecycleProofs: `TypeCorrect`, `DeadlineCorrect` | `ClockInv`: the deadline is set once, and time passes in gracefulShutdown only before it |
| ServerLifecycleProofs: `PhasesCorrect`, `StoresCorrect` | `ListenerInv` and `QuietInv`: no connection is accepted once main has left its select, so the handlers stay done; `PlanInv`: the functions still to call tell which worker has stopped, unless an error is on record |

That one worker is assumed for the life cycle, the aggregates, the webhooks of a
click and the reports is not a convenience: with two workers TLC refutes each of
them (see above; a report, too, when an older count is written last, and a click has
two deliveries when both workers parse it).

A sum over the keys of a period is a fold, and what a fold computes is proved by
induction over data. The library's theorems for that take an operator as parameter,
which the provers cannot instantiate. `NatSets` and `SubsetSets` state the two
inductions that are needed, on natural numbers and on finite sets under strict
inclusion, about a set instead of an operator, from the library's well-founded
orderings. `SumExists`, `SumDef`, `SumMono` and `SumCount` follow: the sum exists, has
its recursive equation, grows with its terms, and adds up the counts of disjoint sets
of clicks to the count of their union.

The assumptions on constants are few: that there are finitely many workers and
aggregation keys, and the ranges of the limits. That only finitely many clicks have
been sent is not assumed but proved (`SentInv`).

The theorems about webhooks hold with either value of `ScansNull`. TLC checks
`PostsAreCounted`, `SuccessWasAccepted` and `InactiveIsQuiet` with one worker; that
they hold when several workers have fetched the same row is what the proofs show.

Only model-checked: the liveness properties `EventuallyConsistent`,
`EventuallyAcked`, `EventuallyExits` and `RevocationTakesEffect`, as the prover has neither fairness nor ENABLED. Every other
property of a run that passes is a theorem.

## Not modelled

Signatures, URL checks, key generation and hashing are computations on strings;
configuration is read once and its values are CONSTANTS; health, metrics, admin and
the listing handlers of webhooks and keys only read; the other middleware keeps
nothing between requests. Of a click only its link and date are kept, of a link its
status and what a redirect needs. last_used_at of a key and click_count of a link are
written and shown, and nothing depends on them.

## Plan

Done: LinkRedirect, LinkTable, DeliveryLifecycle and WebhookDelivery,
WebhookEndpoints, ClickPipeline and AnalyticsReport, APIKeys, RateLimit and
ServerLifecycle with their runs, and a proof of every safety property they check.

Next: an abstract specification of the link cache (a register that may return any
value not older than its TTL) refined by LinkRedirect.
