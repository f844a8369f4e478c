# Verification of claude-gateway

TLA+ models of the gateway in `src/`, the TLC configurations that check them, and
TLAPS proofs of every safety property they check, for every number of requests and
every duration. Source lines below are lines of `src/anthropic-proxy.go` unless a
file is named.

- [The system](#the-system)
- [Modules](#modules)
- [Runs](#runs)
- [Where the code and its documentation disagree](#where-the-code-and-its-documentation-disagree)
- [Proofs](#proofs)
- [Only model-checked](#only-model-checked), [not modelled](#not-modelled), [plan](#plan)

`MCX` gives the constants of module `X` their values (symmetry sets, chains,
frames, profiles) and `MCX.cfg` the bounds. The theorems are in eight modules:
`CircuitBreakerProofs`, `NetworkIncidentProofs`, `KimiCredentialsProofs` and
`ResponseStreamProofs` about the component they name; `AccountProofs` (AccountPins,
AccountAuth), `UsageProofs` (UsageRecords, FableQuota), `RouteProofs` (FallbackChain,
Quarantine) and `ReservationProofs` (PaidBudget, AccountSelection) about two each, for
which the second one's specification has a name of its own (`AuthSpec`, `FableSpec`,
`QuarantineSpec`, `SelectionSpec`). The modules that go together:

- a request's legs: `AccountSelection` (with `UsagePolicy` and `RoutePlan`) plans
  and walks with accounts, `FallbackChain` walks with policies, `ResponseStream`
  (with `SSEFilter`, `OpenAITranslation` and `DevinAdapter`) is one answer;
- what all requests share: `CircuitBreaker`, `NetworkIncident`, `Quarantine`,
  `AccountAuth`, `FableQuota`;
- what outlives the process: `AccountPins` implementing `DurablePins`, `PaidBudget`,
  `UsageRecords` (`MetricsStore` beside `Rollups`, which implements `CountedOnce`),
  `KimiCredentials`.

```
tlc -workers 2 -config MCCircuitBreaker.cfg MCCircuitBreaker.tla
tlapm CircuitBreakerProofs.tla
```

## The system

A local HTTP proxy that speaks Anthropic's Messages API to its clients and
forwards each request along a *fallback chain* of upstream routes: the accounts
of a Claude subscription pool, other subscriptions, metered providers. Requests
run in goroutines of one process; everything they learn about routes, accounts
and the network is kept in records shared under mutexes, and some of it in files
that several gateway processes share.

| component (source) | state | operations | hard because |
|---|---|---|---|
| Fallback chain (`doWithFallbacks`, 7425-8305; `config_runtime.go`; `load_routing.go`) | locals of one request: position, `paidEvidence`, `paidStarted`, `skipProfilesForUpstream`, what it has acquired; shared outage counters | per leg: gates, lease acquisition, send, classification of the answer; then the next leg or the client | some thirty ways out of one loop, each of which must give back what was acquired and leave the right evidence |
| Circuit breaker (7149-7303) | `circuitState` per provider and upstream | acquire, release probe, trip, reset | outcomes are reported out of order, a lease is released before or after the report |
| Shared network incident (922-958, 3729-3958) | one `sharedNetworkIncidentState` | observe failure, begin request, finish probe, observe success, normalise | a probe may outlive its incident; a lost probe shuts the gateway for good |
| Instability quarantine (3459-3727, 3960-4059) | `providerRuntimeState` per route | observe instability, observe health, expiry, forgiveness | late successes, failures during quarantine, an incident in between |
| Account blocks and refresh results (4061-4126, 4836-4971; `claude_auth_recovery.go`) | one block and reason per account, strike counter, time of the last proof | mark, clear after success, refresh ends, usage proof | four independent sources of evidence that overtake one another |
| Fable quota (`fable_quota.go`, 4158-4204) | model block, probe flag and time | probe, release, headers, recovery | a lease that lives as long as a response body |
| Account pins (`account_affinity.go`) | live map, generations, writer goroutine, file | remember, write, flush, close, restart | coalescing writer, lost wakeups, shutdown, failing storage |
| Paid budget (`paid_budget.go`) | ledger file under a lock file | reserve, settle, prune, recover | several processes, crashes between reserving, spending and settling |
| Account selection (5450-5819, 7425-7790; `sonnet_priority.go`, `worker_budget.go`, `fable_budget.go`; `config_runtime.go`) | pins, in-flight counters | scan, choose, reserve, hand over, release, expire, restore | selection reads blocks before it takes its lock; the reservation outlives the choice |
| Ranking (2656-3450, 3553-3676, 7090-7119; `performance_policy.go`) | adaptive performance | collect, filter, rank, divide the chain's time | several orders over one list; integer division of one budget |
| Streaming (216-430, 8440-8560, 9362-9980; `stream_prelude.go`, `body_limits.go`) | prelude buffer, timers, filter state | prime, filter, watch | a timer closes the body another goroutine reads |
| OpenAI translation (10266-11137; `gateway_tool_history.go`, `rig_claude_compat.go`) | open block, tool calls | translate one event | order and pairing of blocks |
| Metrics and rollups (770-2310; `rollups.go`, `usage_*.go`) | pending queue and archives; buckets, pending lines, day files | record, flush, roll back, rotate, close, sum | failed and partial writes, crashes, retries under one identity |
| Credentials (4645-5140; `kimi_oauth.go`; `scripts/refresh-claude-oauth.sh`) | credential files, lock directories | resolve, lock, refresh, persist | single-use refresh tokens shared with other programs |
| Usage snapshots (4312-4600, 5850-6472; `usage_cache.go`) | snapshots, fetch gate, cooldown | fetch, persist, restore | staleness |
| Configuration (`config_file.go`, `config_runtime.go`, `client_migration.go`) | none at run time | compile, validate, migrate | a chain must keep what the walk relies on |
| Devin adapter (`internal/devin`) | per-stream tool fragments | consume, finish | no finish after an interrupted stream |
| Diagnostics (`error_trace.go`, `passive_telemetry.go`, `gateway_diagnostics.go`, `dashboard.go`, `statusline.go`, `stats.go`), CLI, profiles, menu bar | counters, trace slots | record, render | little |

**How they interact.** A request enters `proxy`, is bound to an account
(reservation), and walks its chain. At each leg the walk asks quota and
authentication blocks, the quarantine, the breaker and the Fable probe, takes an
account, a route and a telemetry lease, and sends. A transport error goes to the
network incident first; what it does not claim goes to the quarantine and the
breaker. An answer ends incidents; its class decides which of the records is
written and what the walk may do next. A streamed body owns its leases until the
client has read it, and only then are success or failure reported. Beside the
requests run the credential refresher, the usage monitor, the pin writer, the
metrics flushers, and other gateway processes.

**What makes each modelled component correct.**

- chain: nothing is spent on a fallback without a permitted proof; quarantine, load
  and skipped accounts are never what leaves a client without an answer (open circuits
  may, by design); accounts are passed over only for a failure that spoke for them;
- breaker: no lease is lost, probes do not overlap without cause, bans are earned
  and only newer successes lift them;
- incident: offline is corroborated, the shut gate always has a probe in flight
  that reopens it, and recovery ends;
- quarantine: earned by signals within a window, healed by a clean streak newer
  than the last failure;
- account: only newer proofs lift an authentication block, a quota block keeps
  its end;
- Fable quota: one probe at a time and per interval, always given back;
- pins: a successful flush is durable, a clean close loses nothing, a crash finds
  a whole file;
- paid budget: the real spending of any window stays under the limit whatever
  crashes;
- a response: the client's stream is well formed, is told its end, and never looks
  complete when the message or one of its tool calls is not; the leg pays for a
  truncation; no body stays open; an attempt ends unless its upstream keeps the stream
  open by arming every timer again and again;
- records: a raw sample never vanishes unseen; the rollups count what was observed
  once, and all of it unless the process crashed;
- credentials: the login shared with the native CLI survives: no used refresh token
  is left in its file, none is presented twice, no login is overwritten;
- selection: the in-flight counters are the leases held, a conversation keeps its
  account while that can serve, a subscription pool is exhausted before others, and
  every backup has time left.

## Modules

Conventions. A mutex makes a critical section one step; whatever a goroutine does
between two of them is interleaved. Durations are integers; `Gaps` is the set of
delays between two operations and `MaxTime` the horizon; `0` is Go's zero time.
Variables named *history* record what happened for the properties and are read by
no guard. Operators named `Fault...` are seeded faults, one per property: bugs
one could plausibly write in the operator that follows, used to see that the
property notices; no specification uses them.

### CircuitBreaker

One leg's `circuitState` and the attempts on it. `Refuses`, `Granted`,
`Released`, `Tripped`, `IsStale` and `Reset` are the bodies of
`acquireCircuitAttempt`, `releaseCircuitProbe`, `tripCircuit` and
`resetCircuitAfter`. An attempt goes `Acquire`, `Send`, then either
`TransportError` and `ReportTransportError`; or `Respond`, `CloseEarly` and
`ReportAfterClose` (the body is closed, so its lease goes, before the outcome is
known); or `Respond`, `ReportStreamEnd`, `CloseBody` (the other order). `Abandon`
is each way to be admitted and not sent. Each operation happens at a later
instant than the one before it, as monotonic nanosecond clock readings under one
mutex do; the staleness tests of the code need that. `Report` allows every
attempt to report nothing, which stands for the many classes of answers that do
not concern the breaker.

### NetworkIncident

`Normalized`, `AfterStrongFailure`, `Entering` and `ProbeFailed` are
`normalizeNetworkIncidentLocked`, `observeNetworkTransportFailure` (for a strong
local error), `beginNetworkRequest` and `finishNetworkProbe`. A request is
`running` inside `doWithFallbacks`, `stopped` when the incident told it to give
up, and `streaming` while `proxy` copies its body. `strongAt` is history: the
last strong error per origin since the last answer. The clock stops at `MaxTime`
instead of ending the behaviour, so that liveness is about infinite behaviours.

### Quarantine

One route's health. `AfterFailure` and `AfterSuccess` are
`observeProviderInstability` and `observeProviderHealthyAfter`; `Expired` is the
expiry that `providerBlocked` performs when it reads; `Forgiven` is
`clearSharedNetworkProviderSignalsLocked`. The shared incident is one Boolean
that changes freely: its own rules are in NetworkIncident.

### AccountAuth

One Claude account: its single block with its single reason, the refresh strikes,
the last proof of a working login. Requests answer with a delivery, an
authentication error or a quota error; refresh runs (scheduled and triggered) and
usage fetches are `Monitors` that `Start` at an instant and apply their result
later, in as many critical sections as the code uses
(`RefreshSucceeds` then `ClearBlock`). The refresh helper itself is a script and is
external: it ends with success, failure or nothing conclusive.

### FableQuota

The block of the Fable model on one account, the account's own block and headers
as far as the probe reads them, and requests for Fable and for other models.
`Leased` and `Returned` are the two halves of `acquireFableQuotaProbe`; the lease
belongs to the request until `Ends`. `Remember` and `Observe` are the quota
bookkeeping of an answer: body and headers are separate critical sections.

### DurablePins, AccountPins

`DurablePins` is what the pins promise: a live version that grows, a file that
holds some version not older than before, a crash that falls back to the file.
`AccountPins` is the implementation: generations, the writer goroutine with its
retries, the wake and stop channels, the flushers that sleep on a channel closed
at each publication, `closeClaudeAccountPins`, and a restart at any moment.
`AccountPins` implements `DurablePins` with `live` and `saved` mapped to
themselves. What a pin says is in AccountSelection.

### PaidBudget

The ledger, the processes that edit it, and the attempts they serve. `Pruned`,
`Fits`, `Settled` and `Recovered` are the callbacks `editPaidBudget` is given.
`Spend`, the upstream's charge, and `Crash` are the environment; an attempt that
its process no longer serves is an `orphan` and may still be charged within its
lifetime. `cost` and `costAt` are history. The model takes from the environment
what the code relies on: an upstream that charges at most the bound, once, within
the attempt's lifetime, and nothing for a request it refused.

### FallbackChain

One request's walk, with `chain` chosen at the start. The gates before a leg is
sent are actions (`SuppressPaid`, `RefuseQuota`, `RefuseInstability`,
`RefuseCircuit`, `Spill`, `GiveUp`, `RefuseProbe`...), and so is each class of
outcome; `held` is the set of leases. What breakers, quarantines, quotas and
upstreams answer is chosen freely. `Others` moves the shared outage counter of the
route looked at next, for the routes in `Contended`. `fate` is history: what became
of each leg and which reasons it proved. `ChainsAreCompiled` is what the
configuration compiler guarantees of a chain. The walk is modelled for the runtime
that a loaded configuration always builds; the path without a compiled definition
is reached from tests only. Running out of the chain's
time ends the walk (`GiveUp`); how that time is divided is in RoutePlan.

### OpenAITranslation, SSEFilter, DevinAdapter, ResponseStream

One attempt from its request's headers to the client's last event. The three first
modules are operators on a record, as their code is a function on a struct:
`ProcessChunk`, `ToolFragment`, `Finished` and `Concluded` are the translator of
OpenAI chunks; `Valid`, `Filtered`, `Remapped` and `SourceEnded` the filter every
stream passes on its way to the client; `Consumed` and `Closed` the Devin adapter,
whose chunks the translator reads in turn. Events are records of a type, a block
index and a kind of block; arguments of a tool call are counted in pieces, and a
call is whole with two.

`ResponseStream` composes them: `HeaderTimeout`, `ReturnHeaders` and `Cancelled` race in
`doUpstreamWithHeaderBudgetLimitUnbudgeted`; `PrimeFrame`, `PrimeTimeout`,
`PrimeEnds` and `Commit` are the priming of a stream before the client sees a
byte; `BufferBody` and `ReadTimeout` any other body; `Replay`, `Deliver` and
`StreamEnds` the pipeline translator, filter, client, which `IdleTimeout` and
`WatchdogExpires` may cut; `Judge` is the verdict in `proxy`. The upstream is
free: any frame at any time, or its end, or a break, or silence. A deadline may fire
whenever it is armed; closing the body and being noticed are separate steps. The two
timers of the pipeline are armed again and again: the read timer by every Read
(9505-9514), the watchdog by every valid event, pings and dropped blocks included
(9806, 9861). `Waits` lets a window pass, `due` holds the timers whose window has
passed since they were armed, `Rearmed` takes out what a frame arms, and a timer fires
only when due. A route may lack them (`policy.timers`): a body copied as it is has no
watchdog, and -1 disables the read timer (9406), although the loader of
`config_file.go` (506) refuses a negative value. `client` is what a client of the
Messages API has understood, `said` what the upstream sent: a stop reason, the end of
its message, an error, and of each tool call its id, name and pieces of arguments, counted
as they come off the wire. Both are read by properties only. Devin's message is ended by
the orderly end of a stream that carried a normal finish, a call or a full budget, and
not by what the adapter makes of it.

### MetricsStore, CountedOnce, Rollups, UsageRecords

`MetricsStore` is the raw log: `Enqueue` is `record`, a flush takes `ioMu`, appends
a batch and syncs (`FlushWrites`), or fails and truncates, which may fail too
(`FlushFails`); `CloseStarts` to `CloseDone` drain at shutdown, rotation moves
archives. A file remembers half a line at its end and what was written behind it.
`Rollups` is the hourly store: a bucket's counters are the set of observations it
counts, a delta a difference of two such sets. `Snapshot`, `AppendOk` or
`AppendFails` per key, and `Flushed` are the three parts of `flush`, between which
`Observes` runs; a failed append may have left nothing, half a line, or the whole
line. `Counted` is the reader's sum over distinct identities. `CountedOnce` is what
a reader is promised: each observation is counted at most once and never
uncounted, and only a crash costs one. `UsageRecords` runs both stores in one
process, as `record` and `close` do, with crashes at any step.

### KimiCredentials

`Token`, `TokenLocked`, `Lock`, `Reread`, `PostAccepted`, `PostRejected`, `Check`
and `Persist` are the steps of `token` and `tokenLocked` between which anything may
happen to the file and to the lock directory; a call continues when its caller
leaves, as its goroutine does. A token is a number: its refresh half works once.
The native CLI takes the lock, refreshes, dies, logs in or out with or without the
lock; locks go stale and are stolen. `trouble` and `raced` are history: a grant was
lost for a reason no protocol can help, or a lock was stolen from a live owner; and
the requests between whose last look and rename another program changed the file.
`Reread` asks only that the lock directory is there, as the code does, and notes whose it
is (`lockInfo`): a lock that replaced a stolen one is taken for the request's own. An
owner stands for the directory, so one that the same owner made anew is not told apart.

### UsagePolicy, RoutePlan, AccountSelection

`UsagePolicy` decides from a snapshot whether an account may serve a model
(`UsageAllows`, with the worker and Fable reserves) and orders accounts.
`RoutePlan` collects a chain's legs depth first, filters them by what the request
needs, ranks them (hint, then tier, then a score left open: every order is a
behaviour) and divides the chain's time. A model is a tree (`Models`) as deep as the
walk of `collectCandidates` looks, one operator per depth; `Listed` puts a finite set
in an order and `Picked` keeps a sequence's elements at some indices, which is how
filters, sorting and the expansion to accounts (`Expand`) are written. Time is counted
in ticks, `Second` of them in a second: the code's are nanoseconds.

`AccountSelection` is a request's way through them: `Bind`, one `Scan` per account
(block and usage are read before the lock), `Choose` or `NoneAvailable`, `Plan`, then
per attempt `Skip`, `OutOfTime` or `Send`, and an end: `Refuse`, `NoAnswer`, `Succeed`,
`Close`. Around it blocks, usage and logins change, pins lapse, and the process
restarts with the saved pins. `passed`, `was`, `expired` and `stalled` are history.
What the outcomes do to blocks belongs to AccountAuth and Quarantine and is a choice
here, and so are the refusals that FallbackChain details.


## Runs

| run | what it shows | bounds, and why they suffice |
|---|---|---|
| `MCCircuitBreaker` | no leaked probe, overlap only behind a failure, earned bans, no late closing | three attempts: one that holds a probe, one that reports behind its back, one that takes the gate; threshold 2 and cooldowns 1, 2, 3 reach the cap; gaps 1 and 3 cross window and recovery delay |
| `MCNetworkIncident` | corroboration, a probe behind every shut gate, the end of recovery | three requests and two origins with the threshold at two: the default; gap 0 allows simultaneous errors |
| `MCQuarantine` | earned quarantine, clean healing | two attempts: a stale one and a fresh one; two levels of duration, then the cap |
| `MCAccountAuth` | blocks end early only by a newer proof, quotas not at all | two requests, both refreshers and the usage monitor; a quarantine as long as a quota block and an authentication block shorter than both |
| `MCFableQuota` | rare probes, ordered recovery, a lease that ends | two requests, a block that lasts three intervals: time for two probes (headers stay fresh as long as an interval, more than the code's five minutes, so that a probe can be due within few steps) |
| `MCAccountPins` | durable flush, draining close, refinement of `DurablePins`, both return | two flushers, two tries, three versions: one on disk, one being written, one waiting |
| `MCPaidBudget` | spending within any window, nothing forgiven | two processes, three attempts of cost up to 2 against a limit of 3 and two entries: each limit binds |
| `MCFallbackChain` | cost policy, no walk lost to a preference, no account passed over without cause | eight chains: a pool, a subscription between, a pinned and spilling one, one that starts paid, two models that share evidence, one without paid legs, one with two paid alternatives, one with another upstream between accounts |
| `MCResponseStream` | well-formed, terminated, honest streams; penalties; bodies closed; attempts end or are kept open by their upstream | six Anthropic frames that change anything, or five of OpenAI, are a whole message of one block or call, or one with a defect at any place; two block indices and two tool calls interleave; three Devin frames with two calls; prefix of two frames, so that priming overflows; frames that change nothing (pings, comments) come in any number; four policies, one of each kind of priming, with both timers, one or none; limits of two calls and three argument pieces are reached |
| `MCUsageRecords` | no raw sample vanishes, the rollups refine `CountedOnce`, everything is counted in the end | three samples, two sessions, two days; a queue and batches of two, files of two lines and one archive: queue overflow, rotation and ageing occur; one failure and one crash, each of which the next step can meet in any state |
| `MCKimiCredentials` | the shared login survives, calls end | two requests and the CLI; three tokens: the first, one rotation and one login or second rotation |
| `MCAccountSelection` | balanced leases, stable pins, pool before other providers, time for backups | two accounts of one pool and one conversation, under two workloads. Racing: two requests at once, the fewest in which selections race, five kinds of request with at most one backup, one change of a block, the usage, a login or a pin's time, or a restart, in any state. Whole chains: one request of six kinds over eight legs, nested, metered, ranked by a hint, pinned, with two changes around it. A tick is a millisecond, fine enough for every chain here |

Symmetry is declared over attempts and processes only in runs without liveness
properties. Deadlock is checked where behaviours are infinite or their ends are
actions (`Stopped`, `Ended`, `Finished`); it is off where the clock's horizon ends a
behaviour (breaker, quarantine, account, budget), where a walk ends (chain) and
where the requests are used up (selection).

**Fairness.** NetworkIncident assumes that a request inside `doWithFallbacks`
returns: every attempt runs under a response-header deadline and the chain is
finite. FableQuota assumes that a sent request gets an answer or an error and
that the handler closes the body it copies. AccountPins assumes that the writer
goroutine, a woken flusher and the closer are scheduled; storage may fail on every
try. ResponseStream assumes that the gateway's goroutines run and read what is on the
wire, that an armed deadline fires, and that time passes: a window over and over not
armed anew ends (`Waits`), and a timer that is due fires. Nothing is assumed of the
upstream or the client. UsageRecords assumes that the
timer's flush runs; the disk fails a bounded number of times. KimiCredentials
assumes that some request that can move does (their goroutines run, no one in
particular), that one of those that poll the lock gets it if it is free again and
again, that the CLI does not hold its lock for ever, and that a dead owner's lock
goes stale, as its age alone decides. The other modules assume no fairness.

**What the properties leave open**, because the code does:

- `PinUntilBroken` lets two concurrent first requests of a conversation pin it to
  different accounts (the last wins), and a request move a pin that another one
  moved since it began. A pin that is not in the request's pool, or a request that is
  answered by an account of another pool than its model's, moves it too.
- `PoolBeforeFallback` asks that the selected model can serve what the request holds:
  one that cannot (an image, a tool) is not among the attempts. It speaks of legs of a
  later tier, the fallback steps of `sonnet_priority.go:13-16`; sticky-health steps
  share the model's tier and are ranked with it.
- `UnsentMeansRefused` lets a walk end unsent for open circuits: they fail closed, also at
  the last leg (7150-7152, 7701-7717), so a busy or quarantined leg may have been set
  aside for a last one that is then refused. A last leg whose circuit is open is tried
  once per recovery interval only.
- `EndsUnlessKeptAlive` lets an upstream that pings within every window hold its client:
  no deadline bounds a stream that goes on.
- `BackupHasTime` does not hold for a request whose attempt answered its headers and
  then stalled: the buffered body (`body_limits.go:107-109`) and strict priming
  (7919) may use all that is left of the chain's time. It also asks for a clock fine
  enough for the chain (`Needed`): what is left is divided in integers, so every attempt
  may round the others' share down to zero. About five ticks, doubled by every
  attempt, must fit in one provider's window of 25 s: chains of 32 attempts at the
  code's nanoseconds, of 12 at the run's milliseconds.
- `TruncationIsPenalised` excuses an Anthropic upstream that sends an error event
  itself: `proxy` credits that leg (6930).
- `WellFormed` speaks of translated streams where blocks must match: a foreign
  Anthropic stream is renumbered, not repaired. An empty turn bypasses the filter.
- `LoginSurvives` excepts a login between the last look at the file and the rename
  (`kimi_oauth.go:235-256`): there is no lock the login honours.
- `NothingVanishes` counts as seen what fell to half a line, a crash, a full queue,
  or the age of its archive.

## Where the code and its documentation disagree

Met while modelling; each is a behaviour of the modules above, and the properties
state what does hold.

- **Concurrent early probes** (CircuitBreaker). The comment at 7210-7212 promises
  that the final route's early probe is never concurrent. `tripCircuit` clears
  `halfOpen` whoever reports (7268): an attempt admitted before the ban fails while
  the probe is out, and a recovery interval later a second probe joins it. What does
  hold is `OverlapOnlyAfterFailure`.
- **Parallel recovery probes** (NetworkIncident). The test at
  `anthropic-proxy_test.go:4383` expects a sole probe. A probe that outlives its
  incident fails into the next one and reopens its gate (3906-3918); the epoch that
  would tell them apart is never compared. What does hold is `RecoveringHasProbe`.
- **A quota block erased by a usage proof** (AccountAuth).
  `claude_auth_recovery.go:10-11` promises that quota blocks are preserved. One
  reason per account means that a later-ending refresh quarantine replaces the
  reason of a quota block (4073-4076), and the proof then erases both. What does hold
  is `BlocksLiftedByNewerProof`, for as long as the record shows the quota.
- **Suppressed paid alternatives** (FallbackChain). `docs/configuration.md:162` asks
  a reason of every visited *non-metered* leg. A metered leg refused for an open
  circuit writes an entry too (7703-7708), and with a confirmed outage it can be one
  the policy does not list: the second metered leg is then suppressed although the
  unmetered ones proved what was needed.
- **Torn rollup lines** (Rollups). `rollups.go:19-22` promises that summing the lines
  always reconstructs the totals, "even across restarts and partial flushes".
  `appendRollupLine` repairs only the file it appends to: half a line at the end of a
  past day's file stays, and `readRollupLines` reports the history as malformed from
  then on (667-668). `CountsOnce` is about the whole lines of every file.

## Proofs

Every theorem holds for every value of the constants that satisfies the module's named
assumptions: any set of requests, attempts, samples or accounts, any threshold, any
duration and any horizon (`MaxTime`, `MaxVersion`, `MaxFailures`, `MaxTokens` and the
like are parameters). The assumptions say what the code guarantees of them: durations
and limits are naturals, the paid budget's attempts and the days and sessions of the
rollups are finite sets, chains have passed the validator of `config_file.go`
(`ChainsAreCompiled`), the metrics archive has a current file and at least one old one,
events, chunks and frames have the fields the decoders give them, Devin's calls are
numbered from 0, and the blocks the filter may number include those the translator may
open (`StreamAssumption`, `TranslationAssumption`), and for the selection of accounts
that there are finitely many requests, that every pool is a sequence of profiles and
every snapshot has its type, that what clients ask for is a configured model (`Models`),
and that a pinned Claude model is one of the subscription (`SelectionAssumption`). One
of these limits what an upstream may send: an Anthropic block event names its block. The
filter passes one that does not, unnumbered (`shouldDropSSEPayload`), and the client's
count of blocks says nothing of it. The argument is the same throughout: an inductive
invariant `IInv`, one lemma per action that preserves it, and the properties as its
consequences; a refinement is the initial states and then every step, under `IInv`.

| component (module) | theorems | the invariant's core |
|---|---|---|
| CircuitBreaker (`CircuitBreakerProofs`) | `NoLeak`, `GateKept`, `OverlapNeedsFailure`, `BanIsEarned`, `LateSuccessIgnored` | a lease that is no longer the latest has a failure after it |
| NetworkIncident (`NetworkIncidentProofs`) | `GateHasProbe`, `FlagAndPhase`, `Corroborated` | the probe flag and the recovering phase say the same |
| Quarantine (`RouteProofs`) | `EscalationOutlivesLateAnswers`, `NoQuarantineUnearned` | what the record counts happened since its last failure, or within its window |
| AccountAuth (`AccountProofs`) | `OvertakenProofLiftsNothing` | the record's failure is no older than the latest authentication failure |
| FableQuota (`UsageProofs`) | `RevalidationIsRare`, `OldEvidenceLiftsNothing` | the lease that is out belongs to one request |
| AccountPins (`AccountProofs`) | `FlushesAreDurable`, `ShutdownDrains`, `Implements` | the file is as new as the last success says |
| PaidBudget (`ReservationProofs`) | `BudgetHolds`, `EntriesOutliveCosts` | an entry outlives what its attempt can cost |
| KimiCredentials (`KimiCredentialsProofs`) | `LoginIsNotStranded`, `NoTokenPresentedTwice`, `LockExcludes`, `StoredLoginSurvives` | a used token has one rotation that still owns its lock |
| UsageRecords (`UsageProofs`) | `NoSampleVanishes`, `CleanCloseCounts`, `CountsEveryObservationOnce` | a line that waits is what its bucket gained, and lines that share an observation share their identity |
| FallbackChain (`RouteProofs`) | `MoneyNeedsEvidence`, `UnsentWalksAreRefused`, `SkipsAreJustified`, `SpendingIsKnown` | an evidence entry is what the last unmetered leg of its route proved; a skipped upstream failed just before |
| AccountSelection (`ReservationProofs`) | `LeasesAreBalanced`, `PoolHasItsTurn`, `PinsHoldUntilBroken`, `BackupsFindTime` | every account of the pool is passed, available, or yet to be looked at; the time left covers what the attempts after this one need |
| ResponseStream (`ResponseStreamProofs`) | `NeverFalselyComplete`, `AlwaysTerminated`, `AlwaysPenalised`, `NeverLeaks`, `AlwaysWellFormed` | a terminal event the filter saw completed the client's message, became an error the filter counts, or was the upstream's own; the client's open blocks are the translator's, renumbered |

All but AccountSelection and ResponseStream have a type-correctness theorem besides
(`TypeCorrect`; `QuarantineTypeCorrect`, `AuthTypeCorrect`, `FableTypeCorrect`).

**CircuitBreaker.** One invariant carries all the results. It adds to the
properties that no stored instant is in the future (`Past`), that a lease belongs to
one attempt in flight (`LeasesApart`; instants are distinct), that on an open leg a
lease which is no longer the latest has a failure after it (`OldLeases`), and that a
cooldown is counted from the last failure (`BanFromLastFailure`). `OldLeases` is
what `OverlapNeedsFailure` follows from, and `BanFromLastFailure` with
`MaxCooldown <= Window` (five minutes against ten) is what `BanIsEarned` needs:
otherwise a failure after the window could forget the count while the ban is still
running. `LateSuccessIgnored` is an action property from the same invariant.

**NetworkIncident.** The invariant adds that a stored signal is the latest
strong failure of its origin since the last answer (`SignalsAreFailures`) and that a
request outside `doWithFallbacks` holds neither an answer nor the probe
(`IdleHasNoAnswer`). `GateHasProbe` and `FlagAndPhase` are proved together: the
exception for a running probe in `normalizeNetworkIncidentLocked` never keeps an
incident open without one only because flag and phase agree. `Corroborated`
counts the signals of an incident that goes offline, each of which is a failure.

**Quarantine.** `QuarantineInv` ties the record to what happened: it was last blamed for
the last failure, it counts no more clean answers than the streak since, no more signals
than there were failures in its window, and neither while the quarantine lasts
(`RecordIsHistory`); nothing it knows of is in the future (`Past`). An answer to an
attempt sent before the last failure is therefore ignored by a comparison with the record
alone, which is `EscalationOutlivesLateAnswers`; a signal that reaches the threshold
adds a failure the window did not have, since instants are distinct, which is
`NoQuarantineUnearned`.

**AccountAuth.** A block is compared with the proof that lifts it through the record's own
last failure. `AuthInv` says that the record notes each authentication failure at
once (`FailuresAreNoted`), so the comparison is one with the latest failure whatever
overtook what; `OvertakenProofLiftsNothing` goes through
the steps of requests, refresh runs and usage fetches with it.

**FableQuota.** `FableInv` says that the model's record notes each rejection at once and
that its one lease is out to exactly the request that will give it back (`OneProbe`).
`RevalidationIsRare` needs the second: an end that returned another request's lease would
let two probes run within an interval.

**AccountPins.** The invariant counts changes: `live - generation` is the
version that the process loaded, the writer's snapshot is consistent with it, and
when the last attempt succeeded the file is at least as new as what was attempted.
`FlushesAreDurable` and `ShutdownDrains` follow, and `Implements` is the
refinement: a replacement is `Save`, a remembered pin is `Change`, a restart is
`Crash`, everything else stutters.

**KimiCredentials.** Until `trouble` (a lost grant, a lock stolen from a live
owner), a request between taking the lock and storing its grant owns the lock
(`OwnsLock`, and `CliOwnsLock` for the CLI), a grant is known to its request alone
(`GrantsArePrivate`), and a used token in the file has a rotation that will replace it
(`UsedTokenHasRotation`). `LastLookHolds` is what `StoredLoginSurvives` needs: the
file is what the request read in its last look, or another changed it since. Proving
it showed that three tokens hid a case from the earlier form of `raced`: with four,
a request can outlive another's rotation, a login and a further rotation. `raced` now records
the requests whose window between look and rename another program entered.

**FallbackChain.** The walk overwrites and shares evidence entries, so the
invariant says what an entry is worth: it exists exactly if a leg of its route was
looked at (`EntryHasLeg`), and unless a leg is under way, a reason in it was proved by
the last unmetered leg of the route (`ReasonIsProved`, `NothingProvedYet`).
`MoneyNeedsEvidence` follows at `Send`, from what was true at `Admit`
(`AdmittedIsJustified`), for chains of any length over any routes. `UnsentWalksAreRefused`
needs in addition that accounts are skipped only after a request was sent
(`SkipsFollowARequest`), and `SpendingIsKnown` says what `paidStarted` stands for.
`SkipsAreJustified` has an invariant of its own: the upstream being skipped is that of a
failure with nothing but skipped legs behind it (`SkipFollowsFailure`), it is forgotten
while an attempt is under way, and Claude is given up only for failures of this walk and
after its one signal was recorded, so that no later answer changes what it stood on
(`Learnt`, `SpokenFor`).

**PaidBudget.** The invariant relates the true costs of attempts, which the
ledger cannot see, to its entries: while an attempt may still cost something its
entry holds its whole bound, pending or dated so late that it outlives the cost
(`Held`), and a cost inside the window is covered by its entry (`Covered`). Costs
therefore sum to no more than the entries, which a reservation checks against the
limit. The sum is a fold over a set of any size; that it grows with its terms, and
changes by the difference of one term, is proved by taking a minimal subset where it
would fail (`SubsetMinimum`, from the library's well-founded strict-subset ordering).

**UsageRecords.** For the raw log, the samples accounted for never become
fewer: a cut write, a failed truncation and a rotation only move them
(`AppendedKeeps`, `CutKeeps`, `RotatedKeeps`, `MetricsKeep`). For the rollups, the
invariant says that the buckets of a process are disjoint (`Owned`), that a waiting
line is what its bucket gained between the last durable line and its snapshot
(`PendingIsDelta`), and that an observation not yet durable is in no line but a copy of the
waiting one, left by an append that failed after its write (`OnlyCopies`). So lines that
share an observation share their identity (`OneIdentity`), summing distinct
identities counts it once, and each append, failed append and crash is `Count`, nothing
or `Crash` of CountedOnce. `CleanCloseCounts` needs `Flushing`: after a close without
failures nothing waited when the last flush took its snapshot.

**AccountSelection.** `LeasesAreBalanced` needs that a request holds nothing before the
choice (`LeaseInv`); each hand-over is then one release and one acquisition, and the
number of holders follows the counter (`BalanceDropped`, `BalanceHeld`). The next two
share an invariant about what a request knows on its way. While it scans, every account
of its pool was passed over, is available, or is yet to be looked at, and the pin,
unless expired, was passed over or is looked for (`Scanning`); once bound, a pin that
was not passed over is the account bound (`PinBound`); while it walks, the accounts of
earlier attempts are passed, the bound account comes before others of its pool
(`PinFirst`), and the pool before later providers (`PoolFirst`). `PinsHoldUntilBroken`
is then a case analysis of the three steps that remember a pin. `PoolFirst` is
established by `Plan`, from lemmas about each operator it composes: a finite set can be
listed in any total order (`Listed`, `Picked`), the collection of a chain begins with
the selected model at every depth (a table over the fallbacks exists and runs:
`RunExists`, `RunKeeps`), every permutation the ranking may return keeps tiers apart,
and the expansion puts a leg's attempts where the leg stands, or earlier ones with the
same account and upstream (`Entered`). Proving it showed the condition that
`PoolBeforeFallback` had left out: a selected model that cannot serve what the request
holds. `BackupsFindTime` rests on `HasTime`: while a provider waits, what is left is at
least what the attempts after this one need (`Needed`), and an attempt that uses its
whole budget leaves what those after the next one need, because each keeps back at least
half of what is left, rounded down, for others, or a whole window for each. The
condition on the clock came from that argument: without it the shares round to nothing.

**ResponseStream.** The translator, the filter, the adapter and the client are
folds over sequences whose contents the upstream chooses. A fold is the choice of a
table over the sets of indices, so the first lemmas show that the table exists and is
unique (`TableExists`, `TablesAgree`) and that along `1..n` it is a run of single
steps (`RunOfTable`); what each step keeps, the run keeps (`Upto`, from the library's
well-founded ordering). The invariant then says that nothing is in the prefix, on
the wire or in the client that the upstream did not claim first (`AnthropicClaims`,
`TranslatedClaims`), that the filter's `started` and the client's agree until the
client leaves, and that a terminal event the filter saw completed the message, became
an error it counts against the leg, or was the upstream's own (`Follows`); a body
copied as it is still holds its message_stop (`CopiesWhole`). `FilteredFollows` and
`SourceEndedFollows` show it for one event and for the end of the body, `ShownFollows`
for a chunk of the OpenAI formats, and one lemma per action carries it. `AlwaysPenalised`
is where the error the filter replaced and `protocolError` must agree; `NeverLeaks`
is inductive by itself. For the tool calls `NeverFalselyComplete` adds `Tallied`: what the
translator holds of each call (`Counts`), and then what the prefix still brings, sums to
what was counted off the wire, a call the translator opened has its id and name, and one
it never saw has nothing (`Tidy`). So a message that `Finished` completes has
whole calls (`Finishes`, `WholeCounts`), whatever order their fragments came in.

`AlwaysWellFormed` needs a second invariant, `Formed`, over the first. The client's next
block number is the filter's `next` and every number given is below it (`Numbered`); the
renumbering is injective, and the client's open blocks are the image of those the
translator has open, but for the dropped ones (`Tracks`); the translator's calls have
distinct blocks below its own next number, its `order` lists exactly the calls that have
one, so the end of the message stops each once, and it has opened at most one text block
before, between and after its calls (`Sound`). What a sequence of events does to the open
blocks is a `Path`: `FragmentTraced`, `ChunkTraced`, `FinishedPath` and `FedPath` show that
all the translator writes is one, and `PathTracks` that filter and client follow any, also
when the filter fails half way. A stream whose reader has left keeps only `Sound`; an empty
turn copied past the filter keeps nothing.

## Only model-checked

Liveness (`RecoveryEnds`, `ProbeEnds`, `BothReturn`, `EndsUnlessKeptAlive`, `EventuallyCounted`,
`CallsEnd`): the proof system does not reason about fairness. Every invariant and every
action property of the runs, and both refinements, are theorems. The runs check them
too, because a mutated operator shows there what a property notices, and because the
actions that occur on a small instance show that the theorems are not about behaviours
that never happen. `TypeOK` is a theorem wherever a module states it.

## Not modelled

The classifier's scores, usage attribution and reports, dashboard, status line,
model menu, CLI, profile commands and the menu bar application have no state that
routing depends on. Configuration is compiled once, sequentially, before the first
request; what the walk relies on is stated as `ChainsAreCompiled`. The event log
and the usage history (`rollups.go` 691-938) give up what they cannot write. The
count_tokens handler (6955-7035) sends one probe with a deadline of its own and walks
no chain; its pin is in AccountSelection. The ranking's score is compared while other
requests change it, so the order within a tier is any order. Routing without a
compiled definition is reached from tests only. The refresh script, keychain access
and the upstreams are environment. A power failure that loses a rename already made
is outside the crash model of the pins and the ledger.

## Plan

1. **Compositions** that are free choices now: the incident's excuse in Quarantine,
   and account blocks between AccountAuth and AccountSelection.
2. **Smaller parts**: the fetch gate of usage snapshots, the outage counter over
   distinct requests (`config_runtime.go:209`), the event log.
