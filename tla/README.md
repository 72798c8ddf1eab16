# tronvent in TLA+

tronvent watches the TRON chain for transfers of watched addresses and delivers
them to subscribers as webhooks. Several replicas may run against one Postgres
database. This directory holds TLA+ modules translated from the Go source, TLC
configurations that model-check them on small instances, and proofs that TLAPS
checks for every value of the constants. Line numbers refer to this commit.

## The system

| Part | State | Operations | Talks to |
| --- | --- | --- | --- |
| scope lease and cursor (`internal/db/scanner.go`, `internal/scanner/scope_lease.go`) | one row of `scanner_cursors` per scope: `highest_block`, `locked_by`, `locked_until` | claim, renew, release, save | forward scans, startup reconciliation |
| forward scan (`internal/scanner/poller.go`) | locals of `scanTrxWithLease` / `scanTrc20WithLease` | poll, batch loop, commit | TronGrid, lease, outbox |
| startup reconciliation (`cmd/tronvent/main.go`) | locals of `runStartupReconcile` | cut a large gap into jobs, move the cursor over it | lease, jobs |
| block-range jobs (`internal/db/db.go`, `retry_jobs.go`, `RunReconciler`, `replayScan`) | `queue_jobs` | insert, claim, replay, complete, fail | reconciliation, retry API, outbox |
| outbox and delivery worker (`internal/db/scanner.go`, `internal/webhook`) | `webhook_events`, `webhook_delivery_attempts` | insert, claim, POST, log, mark, disable | scans, subscribers, endpoints |
| endpoints and their API (`internal/db/webhook_endpoints.go`, `internal/api`) | `webhook_endpoints` | create, patch, deactivate, delete, upsert primary | delivery, stores |
| in-memory stores and NOTIFY (`internal/store`, `internal/pgnotify`) | watch list filter, contracts, endpoints per process | reload, add, listen, reconnect | Postgres, scans, worker |
| address confirmation (`internal/scanner/address_confirm.go`, `matched_events.go`) | the confirmation cache of a batch | prefetch, look up, fail open, match | watch list, filter, scans |
| TronGrid calls (`tronGridDo`, `trongrid_keys.go`) | key cooldowns, round-robin position, semaphore | acquire, pick a key, rest, retry | every scan |
| payloads, signatures, migrations, configuration, rendering | none that changes while the system runs | | |

What is hard about it: replicas and the goroutines of one replica interleave at
every SQL statement; leases and five-minute reclaims are decided by clocks while
the work they guard has no time bound; nearly every error of a single item is
logged and the loop goes on; processes crash between two transactions; the
events API answers late. `PROJECT.json` lists these hazards at their lines with
the properties that cover them.

## Modules

| Module | Models |
| --- | --- |
| `CursorContract` | abstract specification: a cursor only moves up, and only over blocks that were dealt with |
| `ScopeLease` | the row of `scanner_cursors`; one operator per SQL statement or transaction |
| `StartupReconcile` | `runStartupReconcile` for one scope; declares chain, outbox and the record of how each block was dealt with |
| `ScopeScan` | what both forward scans share: start of the poll loop, poll tick, lease, batch loop, release, failures, crash and restart |
| `TrxScan` | `scanTrxWithLease`: one cursor save per block |
| `Trc20Scan` | `scanTrc20WithLease`: events request with retries, index lag, one save per batch behind its end |
| `WebhookDelivery` | outbox rows of one endpoint, every replica's worker, the retry API, the endpoint's active flag |
| `BlockRangeJobs` | `queue_jobs`, the two goroutines per replica that work it off, `replayScan` scope by scope, the retry API |
| `WebhookEndpoints` | the rows of `webhook_endpoints`, every request that changes one, and the fan-out of `EnqueueWebhookEvent` |
| `WatchStores` | the three in-memory stores of each replica, the listener, all reloads, and what handlers write into their own store |
| `AddressMatch` | how a batch of transfers becomes events: `Prefetch`, `IsActive`, `matchedTransferEvents` |
| `KeyPool` | `tronGridDo` and `tronGridAPIKeyPool`: semaphore, round robin, cooldown, pauses |
| `*Proofs` | theorems and proofs about the module they extend |
| `MC*` | the modules TLC is given, one per component |

`StartupReconcile` extends `ScopeLease`, `ScopeScan` extends both and
instantiates `CursorContract`; `TrxScan` and `Trc20Scan` extend `ScopeScan`, so
reconciliation and forward scans of all replicas compete for one row.

How state and actions correspond to code:

* A program counter per goroutine; a label stands before each database or HTTP
  call, because that is where goroutines interleave and crash. Everything
  between two calls is one action.
* A call may fail without effect (`CallFails`), or take effect without its
  acknowledgement (`ClaimUnacknowledged`, `SaveUnacknowledged`, `MarkFails`).
* `Crash` loses all locals. A restarted process draws new worker ids, so the
  lease it held belongs to nobody alive (`Gone`).
* A replica begins at the start of `Run`. If the query of `ensureScopeLeases`
  fails there (`StartFails`), `Run` returns, `/health` answers 503 and this
  process polls no more. It may be restarted (`RestartUnready`), and is if it is
  one of `Probed`, the replicas with the liveness probe of the Helm chart
  (`charts/tronvent/values.yaml:87-94`).
* Times are modelled by which side of `now()` they lie on: `locked_until`,
  `next_attempt_at`, `run_after`, `updated_at` and `locked_at`. They pass it in
  actions of their own. `activeScannerLease` uses the replica's clock, every
  other test Postgres's; `ClockSkew` lets the two differ.
* Blocks are numbers; every block (or batch, in a replay) is taken to hold a
  match, the worst case. `skipped` records each block that a line of the code
  knowingly passes over, with the reason. Amounts, payloads, signatures and
  messages are left out. A subscriber's answer is reduced to its class.
* The names of definitions are those of the Go functions where there is one.

The later modules add a few conventions of their own:

* `WebhookEndpoints`. A save is three steps, as in the code: the handler's read
  and merge, the second read of `UpsertWebhookEndpoint` for the previous key,
  and the `UPDATE` of all columns. `lock` is `FOR UPDATE` and `share` is
  `FOR KEY SHARE` or the foreign key's lock on an endpoint's row; a step that
  needs a lock is enabled when Postgres would grant it, so a deadlock of the
  database would show as requests that never end. Endpoints are numbers in the
  order of `created_at`, the order in which a fan-out takes them. A scanner's
  inserts are in `mine` until it commits. Outbox rows are followed only as far as a
  delete asks about them: waiting, settled, made pending again, gone.
* `WatchStores`. `version` counts the changes announced per channel, so that a
  reload's age can be compared with the table's. `missed` records the two ways
  in which the code knowingly falls behind until the next resync: a reload that
  failed while a notification was handled, and an older reload installed over a
  newer one. A failed reload of a handler or of the resync ticker uses up no
  notification and is not recorded.
* `BlockRangeJobs`. A job's scopes are replayed side by side, each at its own
  position, and `firstErr` is read when all have returned. `replayed` holds what
  the job's latest attempt has gone through: batches of another job, even one for
  the same range, and of a failed attempt do not count for it.
* `AddressMatch`. Queries see the rows as they are when they run; the row, the
  filter and the batch change independently. Histories (`inFilter`, `wasActive`,
  `everActive`, `spent`) start with each batch and are read by properties only. A
  query can be cut short, by its own deadline or with the scan (`BatchCutShort`,
  `ConfirmCutShort`); `spent` then counts all attempts of its addresses as used.
* `KeyPool`. Time is what is left of a cooldown or a timer, and `Tick` lowers all
  of them. A timer may fire late. `owed` and `passed` are histories.

## Runs

| Run | Instance | Shows |
| --- | --- | --- |
| `trx` | 2 replicas, 4 blocks, with and without a cursor, skewed clocks, no probe, 1 fault | no block below the cursor is unaccounted for (`NoSilentGap`), the scope implements `CursorContract`, and the cursor reaches the last safe block although a replica may die holding the lease or never start polling |
| `trc20` | 1 replica with its poller and its reconciliation, 5 blocks, starting at `TRON_START_BLOCK`, window of 1, index up to 2 blocks late, liveness probe, 1 fault | the same contract with one save per batch, set back by the retained window; no event is lost to a late index (`LagCovered`); the window never stops the cursor |
| `delivery` | 2 workers, 1 row, 2 attempts, 2 faults, 1 overrun, 1 command | one worker per row until somebody is slow, no row delivered without a 2xx, status, `attempt_count` and log in step, delivered is final, every row settles |
| `jobs` | 2 replicas, 2 jobs, 2 scopes, 2 batches, 2 attempts, 1 fault, 1 request | one goroutine per job, completed means replayed in every scope by that attempt, attempts bounded, ended jobs stay ended, every job ends unless it is abandoned in `running` |
| `endpoints` | 2 requests, 2 scanners, 2 endpoints, 1 transfer, 2 keys, 1 fault | a delete without force discards nothing that waits for its first outcome, a fan-out reaches every endpoint on its list, a replaced signing key stays on as the previous one, nobody waits for ever |
| `stores` | 1 replica with listener, main and 2 handlers, 4 items, 2 changes, 1 fault | no announced change slips past a replica; with the periodic resync the stores come to agree with Postgres |
| `address_match` | 2 addresses, up to 2 transfers, 3 attempts, 2 changes, 1 cancellation | no watched address is missed, nobody else gets through unless the lookup of that very address fails open, one verdict per address and batch, the batch ends |
| `key_pool` | 3 callers, 2 slots, 2 keys, 2 attempts, 2 answers 429 | keys get the rest TronGrid asked for, none is left out, nobody sleeps while a key is free, every call ends |
| `trx_scan_outbox_error`, `trc20_retain`, `delivery_dead`, `jobs_crash` | the smallest that shows it | violations: see Findings |

Bounds, and why they are enough. Two replicas, workers or requests are the
smallest number with competition; in the scans a crashed replica returns, so a
third identity (`Gone`) takes part. The chain is long enough for a
reconciliation gap and for two batches, the second shorter than the first.
`MaxFaults` limits crashes, failed calls, incomplete answers and lost leases
together; one is enough to meet every single fault at every point, and
`delivery` takes two because its log and its budget are about repeated faults.
In `jobs` two scopes are what it takes for one to fail while the other goes on
or has finished, and two batches for a failure in the middle of a range. One range
is enough there: only the lookup of the retry API compares ranges, and a range
that several jobs share is the case in which it matters.
Two attempts distinguish the last attempt from another one; `address_match` has
the code's three. One outbox row is enough for `delivery`, since rows do not
wait for each other's outcome and the theorems hold for any number. Two
endpoints are what a fan-out needs for an order and for a loss that spares one;
two requests and two scanners make every pair of them meet. In `stores` the
replicas share nothing but the table, so one of them, whose changes may come
from any request, stands for each. Of its items two are endpoints, because one
is there at the start and the other is not. In `key_pool` three callers for two slots and
two keys make a call wait for a slot, for a key and for both.

`delivery`, `jobs` and `endpoints` do not check deadlock: with every row settled
and the bounds used up these systems rest. In `endpoints` requests that wait for
each other are found by `EverythingEnds` instead. Symmetry is used in
`trc20_retain` only, a safety run.

Fairness. Goroutines are scheduled: weak fairness of each scan, worker,
reconciliation, request, listener and reload step, since no loop of the code
blocks without a ticker or a timeout. Postgres grants a lock when nobody is in
its way. Time passes: leases and cooldowns run out, rows become due or stale,
the resync ticker ticks, the listener's reconnect delay ends. The HTTP client's
timeout bounds each TronGrid call, and Go's channel, which is the semaphore,
serves blocked senders in order. The chain grows up to its bound and the events
API catches up. The liveness probe restarts a process whose poll loop does not
run, for the replicas in `Probed`. This matters: in `trc20` one failed query at
start would otherwise leave the only replica without a poller, and the code has
nothing that starts it again. `docker-compose.yml` has no such probe. In `trx`
`Probed` is empty, and the cursor moves on because there are more replicas than
faults. Nothing is assumed of faults, operators, overruns, cancellations
and answers 429; those are bounded (cancellations of calls are not, and need not
be), which is the assumption that they do not go on for ever. `ReplayRangeFails`
may happen on every attempt: a job then ends `dead`.

## Proofs

TLAPS checks these for every set of replicas, rows, jobs, requests, scanners,
addresses, keys and callers and every value of the numeric constants that
satisfies the named assumptions. `LeaseAssumption`, `ReconcileAssumption`,
`ScanAssumption`, `DeliveryAssumption`, `JobsAssumption`, `EndpointsAssumption`,
`StoresAssumption` and `MatchAssumption` only say that counts are natural
numbers, positive where the code forces it, that kinds of things are disjoint,
and that markers such as `Nobody` and `None` are no members of the sets they are
used with. `PoolAssumption` also asks for finitely many callers, since the slots
are counted, and states of `Backoff` that its pauses are positive numbers, which
is arithmetic of powers that no prover has; TLC evaluates it. Every inductive
invariant was first checked by TLC, on the run's instance or on several.

* `TrxScanProofs`: `TypeCorrect`, `NoGap` (`NoSilentGap`), `ImplementsContract`.
  `NoSilentGap` is not inductive: a scan that lost its lease long ago may still
  save. `GapInv` adds that everything below each scan's position and below the
  next job of each reconciliation has been dealt with; since `Accounted` only
  grows and the row operations never lower `highest` (`Monotone`), a late save
  is harmless. Refinement follows from `GapInv'` and `Monotone`.
* `Trc20ScanProofs`: `TypeCorrect`, `ImplementsContract`, `LateEventsKept`
  (`LagCovered`). `GapInv(R)` takes the set of reasons for which a block may be
  passed over, and one proof serves both results: with all reasons it gives the
  contract, without `"unindexed"` it says that no event is lost to a late index.
  Between the request and the save the last block of a scan may still be missing,
  because a save that retains anything leaves the cursor below it (`Late`).
  `LateEventsKept` has a
  hypothesis about the constants, `MaxLag <= RequiredConfs + ExtraConfs +
  MinOf(Retain, 1)`, which the run's values meet. A window of more than one block
  does not let the index be later: the cursor after a batch is not set below the
  batch's start (`poller.go:982`), which is what `trc20_retain` is about.
* `WebhookDeliveryProofs`: `TypeCorrect`, `OneWorkerPerRow` (`Exclusive`),
  `DeliveredStays`, `StatusFits`, `AcceptedBeforeDelivered`, `PostsAreBounded`
  (`AttemptsWithinBudget`), `AttemptsAreLogged` (`EveryAttemptLogged`). The
  strengthening of the first ones says that while nobody has overrun, a held row
  is in delivery and fresh, so no claim reaches it; that a worker holds each row
  once; and that a success in a worker's hands was answered. The last two rest on
  the numbers workers carry (`Numbered`): a claimed row has the `attempt_count`
  of its row, the attempt in hand is the next one. `BudgetInv` counts the posts of
  a row that is not settled against `attempt_count`, with one more between the
  post and the mark; `LogInv` bounds the numbers already in the log, so that the
  unique index refuses no attempt.
* `BlockRangeJobsProofs`: `TypeCorrect`, `OneGoroutinePerJob`,
  `CompletedMeansReplayed`, `AttemptsWithinMax`, `EndedIsFinal`. `JobsInv` adds
  that held jobs are `running`, which no claim selects, that claimable jobs have
  attempts left, and that each scope of a replay has gone through all batches
  below its position, and through all of the range where it has returned while
  `firstErr` is unset. A failed attempt starts over with nothing.
* `WebhookEndpointsProofs`: `TypeCorrect`, `DeleteDiscardsNothing`
  (`NothingDiscarded`), `FanOutReachesAll` (`FanOutComplete`),
  `SaveKeepsReplacedKey` (`ReplacedKeyKept`), all three action properties.
  `EndpointsInv` is the lock discipline: a delete past its lock holds the row, a
  row that an enqueue shares is live and not locked, so what a delete without
  force has found empty stays empty (`NothingWaits`). Every endpoint on an
  enqueue's list is still to come, among its inserts, recorded or deleted
  (`FanOutInv`); a save holds on to the key of its second read (`KeyInv`).
* `WatchStoresProofs`: `TypeCorrect`, `ChangesArrive` (`NoLostNotification`).
  `StoresInv` adds which store the rows in a goroutine's hands were read from,
  that a handler with work left is at a replica, and that versions only count
  announced changes.
* `AddressMatchProofs`: `TypeCorrect`, `WatchedAreMatched` (`NothingMissed`),
  `MatchedAreWatched` (`OnlyWatched`), `VerdictIsShared` (`OneVerdict`). The
  properties speak of the end of a batch only. `MatchInv` says where the scan
  stands, that an address is decided once and how the verdict relates to its
  rows and to the attempts spent on it (a granted address was active at some time,
  or its attempts are used up), and that the sides gone through are matched as the cache says.
* `KeyPoolProofs`: `TypeCorrect`, `EveryKeyHasItsTurn` (`NoKeyLeftOut`),
  `SleepEndsInTime` (`NoIdleSleep`), `PausesAreKept` (`KeysRested`). That `sem`
  stays between 0 and `Slots` is not inductive; it is the number of callers
  between acquiring and returning a slot (`SlotInv`), and a blocked call is in
  the queue once. A timer does not outlast a cooldown (`SleepInv`), a cooldown
  covers every pause asked for (`RestInv`), and the requests that passed a key
  over, together with its distance from `next`, are fewer than the keys
  (`TurnInv`).

With these every invariant and every safety property over steps that a passing
run checks is also a theorem. Only model-checked: the liveness properties
(`CatchesUp` of both scans, `EventuallySettled`, `EndsUnlessAbandoned`,
`EverythingEnds`, `StoresConverge`, `BatchEnds`, `CallsEnd`), because fairness
and `ENABLED` are out of the prover's reach, and the four violations.

## Findings

Shown by runs that expect a violation:

* `jobs_crash`: a job in `running` whose process stopped is never claimed again
  (`db.go:72`), although README.md:100 promises that crashes lose no matches.
  The stale-lock clause (`db.go:74`) can never apply.
* `trx_scan_outbox_error`: a failed outbox insert is logged and the cursor moves
  over the block (`poller.go:457-466`), against README.md:96.
* `trc20_retain`: a last batch shorter than the retained window leaves the
  cursor inside that window (`poller.go:982`), against the comment above it.
* `delivery_dead`: a late worker turns a dead row back into a failed one
  (`scanner.go:931`), which is delivered without a retry request, against
  README.md:501.

Seen while modelling, in traces of the same modules, and not kept as runs:

* `Run` says that it "returns only when ctx is cancelled" (`poller.go:191`), but it
  also returns when its first query fails (`poller.go:195-199`). The process goes
  on without scanning, and answers 503 on `/health`.
* A failed insert of a reconcile job is logged and the cursor still moves over
  its range (`main.go:282-302`); README.md:102 says gaps become jobs.
* The commit loop of a TRX batch (`poller.go:420-467`) never renews its lease, so
  a slow one lets a second replica commit the same blocks; README.md:266.
* A row reclaimed after its last allowed attempt is posted once more
  (`scanner.go:875`), README.md:501; `AttemptsWithinBudget` states what holds.
* `markEventDead` writes `maxAttempts` (`worker.go:202`): two manual retries of
  one row log the same attempt number and the second entry is refused
  (README.md:101), and the first 5xx after such a retry disables the endpoint
  although it was one failure (README.md:505).
* Two retry requests for one range that look up before either inserts create two
  jobs (`retry_jobs.go:64-114`), against the comment at `retry_jobs.go:56`.
* Startup reconciliation moves a contract's cursor to the last safe block
  (`main.go:294`), inside `TRON_TRC20_EVENT_CONFS` and the retained window. Its
  job may replay those blocks before the events API has indexed them.
* With `STATE_RESYNC_INTERVAL_SECONDS` at zero, a reload that fails while a
  notification is handled is not tried again (`main.go:116`): the store stays
  behind until the next change or reconnect, although README.md:434 lets changes
  propagate without a restart. `StoresConverge` needs `Resync = TRUE` for this
  reason, and also because an older reload, or a handler's own write, may
  land on top of a newer one.
* A PATCH that read an endpoint before the worker disabled it writes
  `is_active = true` back (`webhook_endpoints_api.go:89`), against README.md:507.
  Two rotations that overlap between a save's second read and its write lose the
  key in between.
* A dead row that is retried after a delete without force has counted the
  undelivered rows is discarded with the endpoint (`dashboard.go:122` takes no
  lock).
* Two replicas that start on an empty table may both create the endpoint of the
  environment (`webhook_endpoints.go:309`); every event is then sent twice.
* The worker that disables an endpoint puts its copy back into its store even if
  the endpoint has been deleted meanwhile; the next reload removes it.
* While TronGrid keeps answering 429, a call that wakes in `nextAvailable` may
  find the key taken and at rest again, without bound on the number of sleeps
  (`trongrid_keys.go:53`). It holds a slot of the semaphore all the while.

## Plan

Done: all components listed above with their runs; proofs of every safety
property of the runs. What is left:

1. What liveness rests on, as far as it is safety: no call waits for a slot that
   nobody holds (`KeyPool`), a job in `running` has a goroutine unless it was
   abandoned (`BlockRangeJobs`), a request that waits for a row lock waits for
   one that can go on (`WebhookEndpoints`).
2. Facts about the row of `scanner_cursors`: no operation lowers `highest` and
   only the holder's save moves it, as lemmas of `ScopeLease` that both scan
   proofs cite instead of each stating its own.
3. Shorter proofs: the lemmas about `ScopeScan` and `StartupReconcile` in
   `TrxScanProofs` and `Trc20ScanProofs` have the same shape and could be shared.

## Not modelled

* Bloom filter and hash set: hash arithmetic on byte strings. `AddressMatch`
  keeps what the scan relies on, no false negatives and some false positives.
* Payloads, signatures and URL policy: pure string and cryptographic functions;
  the models keep only whether they succeed.
* Listings, authentication and rendering of the API and the dashboard: they
  change no state. Every request that does is an action.
* Bootstrap of watched contracts and migrations: they run before the system
  starts. `DeactivateWebhook` for all endpoints at once has no caller that
  reaches it, since `disableEndpointAndNotify` returns on an empty id.
* Configuration and metrics: settings are CONSTANTS, counters are read by nobody.
