# Telemetry alert engine: a TLA+ verification project

The repository is a Go service: devices send telemetry, rules are evaluated on it, alarms are
stored as events and sent to a webhook or the log. One process, one SQLite database, several
kinds of goroutine that share nothing but the database, two bounded channels and one mutex.
There are no tests in the repository. These modules model what its goroutines do to each
other's state, TLC checks them on small instances, and TLAPS proves the main invariants for
all instances. `PROJECT.json` lists the runs, the theorems, the source lines each definition
stands for, and the hazards the properties are for.

## 1. Inventory

| Component (source under `src/`) | State | Operations | Talks to | What is hard | What makes it correct |
|---|---|---|---|---|---|
| Alert evaluator, `internal/application/alertrule/evaluator.go` | `jobs` (1024), tables `alert_states`, `alert_events` | `EvaluateDevice`, workers' `evaluateDevice`, `Sweep`, `evaluateRuleForDevice`, `emit`, `recover` | reads rules, devices, window; calls `Dispatcher.Dispatch` | worker and sweep on the same state row; rules listed once and used later; event stored before state; full queue; a failure between statements | no saved alarm without an event; no trigger without a held breach; a lasting breach is alarmed; no event stays without an attempt on a channel the dispatcher knows, but by a failure |
| Rule service, `alertrule/service.go` | table `alert_rules` | Create, Update, SetEnabled, Delete | deletes states | read, write back and reset are separate statements, racing with evaluations | a deleted rule keeps no state |
| Notification dispatcher, `internal/application/notification/dispatcher.go` | `jobs` (4096), table `notification_attempts` | Dispatch, RetryPending, workers' `process` | sender (webhook, log), events | no lease on a row: queued twice, sent twice, stale copies written back; full queue; crash; lost update; backoff | failed is earned by sends, succeeded by a delivery, a delay by failures; each row is settled |
| Device service, `internal/application/device/service.go` | table `devices` | Create, Update, SetStatus, Delete, List, Authenticate | rules (foreign key), evaluator (List, Get) | paging limits, read-modify-write, cascades | a rule reaches the devices it names, and no others |
| Telemetry ingest, `internal/application/telemetry/service.go` | tables `telemetry_points`, `telemetry_aggregates` | IngestSingle, IngestBatch | limiter, evaluator | key looked up before and in the transaction; retries; keys forgotten with their rows | a key that is not blank counts once, but around the purge of its row; what was confirmed is counted |
| Telemetry queries, `internal/infrastructure/repository/telemetry/telemetry.go`, `internal/adapter/metrics/window.go` | - | QueryRaw by pages, WindowStats | tables above | offsets while rows come and go; times compared as text | a client misses no more than was purged, gets twice no more than was inserted; a window has its points |
| Rate limiter, `internal/adapter/ratelimit/limiter.go` | buckets per device | Allow | ingest | refill, cap and refusal at the boundary | bound per window, no unearned refusal |
| Retention, `internal/application/retention`, `internal/infrastructure/repository/retention` | - | four bounded deletes per run | all growing tables | batches, statements that fail between two tables, cascades | spares the young, leaves no orphan, works a backlog off |
| Life cycle, `internal/app/app.go` (the `cmd/telemetry-alert` that `README.md:28` names is not in the sources) | pools, loops, server, handle, `ready` | New, Run, Stop of the pools, Close | all | order of start and stop, a server that fails, an expired shutdown, jobs left queued | nothing runs on a closed database; work that comes late is stored; stop ends; readiness is true |
| Configuration, `internal/config/config.go` | - | defaults, file, environment | life cycle | an override that overflows, values nobody validates | a ticker panics on a bad setting only |
| Time encoding, `internal/infrastructure/repository/repoutil` | - | FormatTime, ParseTime | all queries by time | text order is not time order | off by one second at most |
| Schema, `internal/infrastructure/sqlite` | - | Open, migrate | all | cascades, SET NULL, unique index | used as guards and effects of the statements above |
| Tenants, event queries, HTTP decoding, logging | rows of `tenants`; counters | reads, single statements | - | nothing that depends on order | not modelled |

Interaction: a request stores points, then queues its device (`EvaluateDevice`, never blocking);
a worker or the sweep reads the window, loads the state, stores an event, hands it to `Dispatch`
(row, then queue, never blocking), and only then saves the state; dispatcher workers send and
write the row back; a ticker queues pending rows again each second; a ticker runs the retention.

## 2. Plan

| Order | Module | Composes | State of the work |
|---|---|---|---|
| 1 | `AlertRules` (decision table), `Evaluator`, abstract `AlarmContract`, `EvaluatorProofs`, `SpacingProofs` | AlertRules + rule service + channel + tables; Evaluator implements AlarmContract | done: 10 theorems |
| 2 | `Notification`, abstract `DeliveryContract`, `NotificationProofs` | Notification implements DeliveryContract | done: 10 theorems |
| 3 | `RuleTargets`, `RuleTargetsProofs` | sweep paging + device service + rules + foreign keys | done: 5 theorems |
| 4 | `TokenBucket`, `TokenBucketProofs` | - | done: 3 theorems |
| 5 | `Ingest`, `IngestProofs` | ingest + retention of points | done: 5 theorems |
| 6 | `TimeText`, `History`, `HistoryProofs` | TimeText + tables + retention + paging client + window | done: 9 theorems |
| 7 | `Lifecycle`, `LifecycleProofs` | configuration + App.New and Run + pools + loops + server | done: 6 theorems |
| 8 | `AlertPipeline` | `AlarmContract` + `DeliveryContract`: the events of the one are the rows of the other | left |

For 8 the two halves already meet in one place, the rows that `Dispatch` creates: `Evaluator` has
the events and channels they are made for in `notified` (`UnheardPerFault`: an event lacks the row of a
channel the dispatcher knows only after a failure), `Notification`
takes them from there (`DeliveriesSettle`: every row is settled). Joining the two modules in one
state space would check the conjunction again, on instances too small for either.

## 3. The modules

**AlertRules** - what one evaluation decides (`Verdict`) and saves (`Applied`), as pure operators.
Time is a number of ticks, 0 being Go's zero time; a window average is an element of a set.

**Evaluator** - an action is one database statement or channel operation of one goroutine.
`StartJob`/`StartSweep` list the enabled rules once (the snapshot then used is `tasks`);
`ReadWindow` captures the clock and the window, `LoadState` loads and decides, `CreateEvent`,
`Dispatch` and `SaveState` are the writes, in the code's order. `Abandon` is what an error does:
a worker goes on, the sweep gives up the rule. Foreign keys refuse rows for a rule that is gone
(`RuleRowExists`). Rule requests are chains of statements too (`BeginUpdate`, `WriteRule`,
`ResetStates`). A definition holds its target already resolved to devices; how that is done is
`RuleTargets`. The window changes by itself (`WindowMoves`) or with a point (`Ingest`).
`Dispatch` makes a row for each of the rule's `channels` that is in `KnownChannels`; others are skipped
without a word, as in `dispatcher.go:65`, though the rule service takes any name. Outside the run
`EvaluatorRace` rules have one known channel. `breached` is a history variable. Created-at times, levels
and texts are left out.

**AlarmContract** - what the evaluator promises of one rule, device and metric, without goroutines,
tables or the pending state: an alarm is raised when it is off, continued while it is on, each more
than a cooldown after the key's last event; it is off after a recovery; nothing is forgotten but with
the rule. A recovery may be reported of an alarm that is off, as the code does from `pending` and from
`recovered`. The refinement mapping is in `SpacingProofs`: `fate` is the status of the rules; `on` and
`last` are those of the evaluation that has stored an event for the key and has still to save its
state, if there is one, else of the row. So the abstract step is the insertion of the event, and
`Dispatch` and `SaveState` are stutters; a deletion of a rule is one abstract step too, with the reset
that follows it a stutter.

**Notification** - a row per event and channel; `CreateAttempt` and `Enqueue` are the two halves of
Dispatch, `RetryList` and `RetryPush` of RetryPending, `Take`, `Load`, `SendSucceeds`/`SendFails`,
`Record` one call each of `process`. A copy of the row travels in `worker`. `Crash` empties all but
the table and may change `max_attempts`. `wait` counts down to `next_attempt_at`, from the
doubling, capped backoff of the row's attempts, so no clock is needed. `Purge` is retention or a
cascade. `sends` and `delivered` are history.

**DeliveryContract** - what the layer promises, without queue, workers or copies: succeeded only if
delivered, failed only after as many sends as a configured limit, and no reopening unless
`Reopens`. The refinement mapping takes the status of the rows as `outcome`, and `Reopens` to be
"there are two workers".

**RuleTargets** - which devices a rule is evaluated on: the sweep's paging through a service with
limits of its own, the worker's test of one device, errors of either, and device requests meanwhile, with the
foreign key that clears a rule's device. Rows are ordered by `created` where a page needs an order;
in which order rules and found devices are visited is left open, which includes the code's.
`asked`, `had`, `steady`, `covered`, `evaluated` are history.

**Ingest** - requests check each point's age, then its key, then insert all in one transaction with
their aggregates, then answer. `Acceptable` and the deadline bound how late an insertion is;
`PurgeRaw` forgets keys with their rows; which rows are expired is decided by text, hence up to a second
early (`Text`, a coarser form of `TimeText`). `StoredKey` is what becomes of a key: one of white space only
is looked up as it is but stored as NULL, so it is never found. A sample may be sent any number of times.

**TokenBucket** - `Allow` holds its mutex from the clock to the answer, hence one action. `Mark`
starts an observation window at any moment. Integers replace floats: rounding is not modelled.

**TimeText** - a time, its RFC 3339 text without trailing zeros, and the two orders. Two digits of a
fraction in any base stand for nine decimal ones: what matters is whether digits are dropped, and
that `Z` sorts above a digit and the point.

**History** - four tables of rows with a rowid and a time; the writers of each (`StorePoint` with its
bucket, `StoreEvent`, `StoreAttempt`, `TouchAttempt`), `Clean` as four statements that take a batch
each and may stop between two, the cascade from events to attempts, a client that pages
(`OpenQuery`, `ReadPage`) and the windows of evaluations, all comparing text. A window (`Windows`) may
have any length, and ends at a reading of the clock of its own, which may be past when the statement runs.
The client queries by device and metric, so its rows come in the order of `idx_telemetry_query`
(`Precedes`), where rows of one time are ordered by rowid; a query without them is sorted, with no
promise for equal times, and is not modelled. `got`, `twice`, `base`, `lost`, `late` of the client are
history.

**Lifecycle** - `stage` is where `New` and `Run` are; the pools count idle and busy workers and the
length of their queue, the loops and the server have a state each. What goroutines do in between
is abstracted to busy or not. `InForce` is how an interval comes from the file and the environment,
with a 64-bit product scaled down (`Wrap`). A panic ends everything, a return of `Run` nothing else.

`MC*` modules only name the values of an instance.

## 4. What the runs check

Passing:

| Run | Question | Instance and why it is enough |
|---|---|---|
| EvaluatorRace | worker and sweep on one state row, with one failure or crash: `EventBeforeState`, `UnheardPerFault`; under fairness `BreachIsAlarmed` | one rule, device, metric; queue of 1 so that jobs are dropped; ticks 1-2 with duration and cooldown 1; the rule is created by one request, with an unknown channel alone or beside a known one |
| EvaluatorEdits | update, disable, enable, delete in the middle of a sweep: `TypeOK`, `TriggerNeedsHeldBreach`, `DeletedRuleLeavesNoState` | three requests, two definitions that differ in duration and cooldown, one failure |
| EvaluatorAlone | the sweep alone, no failure: `SpacedByCooldown`, `TriggersAreSeparated` | six ticks: arm, trigger, cool down, recover and trigger again. Several goroutines are the subject of the theorems on these properties, as they are false when two meet on a state |
| NotificationOneWorker | `TypeOK`, `SendBudget`, `FailureIsEarned`, `SucceededWasDelivered`, `WaitIsEarned`, `SettledIsFinal`, `ImplementsContract`, `DeliveriesSettle` | two rows, a queue of 1 (overflow), retry batch of 1, limits 1 and 2 that a restart may swap, an initial backoff of 0 and a maximum of 2, one failure. Two workers on one row are not in the run: they are covered by the theorems, for `SettledIsFinal` and `SendBudget` only while no row is in two hands |
| TargetsSmallTenant | `TypeOK`, `SweepReaches`, `OnlyDeletionWidens` | two devices, one tag, five requests, a page that fits them, statements that fail |
| IngestRetries | `TypeOK`, `ConfirmedIsCounted`, and of each step `RecountNeedsPurge` | two samples (one with a key, one with a blank one), three requests of up to two points, two at once; retention as long as the age limit, as configured, so that a key is counted again in the window the property allows, at its first and its last moment; seconds of two ticks, so that texts are compared wrongly; one failure |
| History | `TypeOK`, `WindowOffBySecond` (windows between any two of the instants), `MissedPerPurge`, `RepeatedPerLate`, `AttemptsHaveEvents`, `PointsAggregated`, `RetentionSparesTheYoung`; under fairness `BacklogDrains` | two points, two buckets, an event, an attempt; batch and page of 1, so that each takes several turns; four instants, two of them in one second with texts in the wrong order; retentions that differ; one failing run |
| Lifecycle | `TypeOK`, `CloseIsLast`, `ReadyMeansStaffed`, `LeftOpenNeedsFault`, `PanicNeedsBadSetting`, and of each step `LateWorkIsStored`; under fairness `StopReturns` | one and two workers, queues of 1, one request in flight, settings that are good, zero, and an override whose product wraps, one fault of server, shutdown or close |
| TokenBucket | `TypeOK`, `WindowBound`, `RefusalIsEarned` | capacity 3, refill 2, batches to 4 (one more than the burst), four ticks |

Violated, each a place where the code and its own words disagree:

| Run | What TLC shows |
|---|---|
| EvaluatorRepeats | after a recovery the state stays `recovered`, and every further evaluation of a quiet window emits another `recovered` event (and notification), against "a state transition or continued alarm" (`domain/alert/event.go:13`) |
| TargetsLargeTenant | the sweep asks for 500 devices, is granted 100 and stops: "The sweep will catch up" (`evaluator.go:101`) fails for a tenant with more than 100 devices |
| WindowMissesPoint | a point stamped at a whole second is not in the window of an evaluation later in that second, as its text sorts above that of the clock; `README.md:7` promises an evaluation after every write |

Seen while modelling, with no run of their own:
- with two workers a row is sent more often than `max_attempts` and settled rows are reopened (the
  reason for `Reopens`); `process` does not look at `next_attempt_at`, so a row queued twice is sent
  again at once; `max_attempts` 0 makes a row failed without a send;
- an event whose rows were not created, by a crash or a failed insert, is never notified:
  `UnheardPerFault` bounds these by the failures, for the channels the dispatcher knows;
- a channel it does not know is skipped without an attempt, an error or a log line
  (`dispatcher.go:65-67`), and the rule service accepts any name (`service.go:181` and `:205`): the
  events of a rule with such channels only are heard of by nobody;
- a rule or a device that is changed by two requests at once keeps the row of the one that writes last,
  with what it had read of the other fields: a disabling can be undone;
- an evaluation in progress saves a state for a rule just disabled, after the reset;
- deleting the device of a rule makes the rule one for all devices (`ON DELETE SET NULL`), while the
  Postgres migration deletes the rule; with a path that is `:memory:` or has a `?` no foreign key is
  enforced at all, as the DSN lacks the pragma;
- a batch with a repeated key is answered and its metric counted in full; tokens are taken before
  the points are validated, so a rejected request costs them;
- `raw_retention` equals `max_point_age`, in `configs/config.yaml` and in the defaults (720h), and nothing
  validates either: a point sent again when its row has just been purged is counted again, in the
  window that `RecountNeedsPurge` bounds by a second and the duration of a request;
- an idempotency key of white space only passes the lookups (`service.go:102`, `telemetry.go:46`) and is
  stored as NULL (`telemetry.go:221-226`): each retry with it is counted, and no property about keys
  includes it;
- `delete_batch_size` is not validated: 0 deletes nothing, a negative one has no limit;
  `RETENTION_RAW_DAYS` above 106751 wraps to a negative duration and would expire every row;
- when the server fails, or requests outlive `shutdown_timeout`, `Run` returns with pools, loops and
  the database as they are;
- a worker's `select` may take the stop with jobs still queued (`evaluator.go:84-91`,
  `dispatcher.go:129-135`), and sweep and retry loop feed the dispatcher after its pool has stopped
  (`app.go:186-188`): the dispatcher's jobs are rows that the next process retries, the evaluator's are
  left to its next sweep.

Bounds: `MaxTime`, `MaxFaults`, `MaxEdits`, `MaxSends`, `MaxRows`, `MaxHandlers`, `Instants` cap runs
that otherwise never end; ids of rules and rows are used once. Deadlock is not checked where these
bounds let a run stop. Symmetry is used for devices, tags and requests, in runs without liveness
only.

Fairness: weak, on the sweep, retry and retention tickers (`StartClean`, `CleanTable`), on goroutines
between two statements, on the passing of a backoff. The code justifies it: tickers run until
shutdown, channels are sent to without blocking, every send and statement has a context with a
deadline. In `Lifecycle` the return of a loop has strong fairness: its `select` has two ready cases
again and again, and Go chooses among them at random, so the one that ends the loop is taken in the
end; everything else there is weak. None is assumed of telemetry, requests, failures, signals or
crashes. For `BreachIsAlarmed` the clock need not advance, and an alarm counts as due only at the
present moment; `BacklogDrains` is about the rows stored, whose number `MaxRows` bounds.

## 5. What is proved

All theorems hold for any constants that meet the named ASSUMEs (which TLC evaluates in the runs).

*EvaluatorProofs*: `TypeCorrect`; `DeletedRuleHolds`; `EventBeforeStateHolds`;
`TriggerNeedsHeldBreachHolds`; `UnheardPerFaultHolds`. They speak of tables, but are kept true by
what goroutines carry between statements, so the inductive invariant `IInv` adds `Carries(p)` for
each evaluation in flight: its breach was read, its loaded instance was backed by an event, its
verdict follows from them, and past `CreateEvent` its event is stored unless the rule is gone.
`Structure` adds that work was listed from existing rules; since ids are not reused, a deleted rule
refuses late writes. `UnheardPerFaultHolds` counts: the events between their insertion and their
dispatch are at most one per goroutine, and a failure can strand no more, while `Dispatch` never strands
one on a known channel, whatever others the rule has; it assumes finitely many goroutines
(`FiniteProcesses`). `OnlyRecoveriesRepeat` says how far the finding of `EvaluatorRepeats`
goes: the only events that are neither a transition nor a continued alarm are repeated recoveries.

*SpacingProofs*: what the cooldown and the recovery promise of the events of one key. `SpacedByCooldown`
and `TriggersAreSeparated` are false of the evaluator as it is, and the theorems say of what exactly
they are true, for any number of goroutines, rules, definitions and requests: of every behaviour that
is `Undisturbed`, that is
  - no two goroutines evaluate the same rule on the same device and metric at a time (`NoOverlap`),
  - no step resets a state whose rule goes on, as an update or a disabling does (`Quiet`),
  - no evaluation is cut off between its event and its state, by a failure or a crash (`Quiet`).

None of the three can be dropped: without any one of them TLC finds both properties violated. Other
failures, crashes outside that stretch, dropped jobs, deletions, changes of definitions whose reset
finds nothing to reset are all allowed. `AlarmsAreSpaced` and `AlarmsRecoverBetween` rest on
`SpacingInv`: the instance an evaluation has loaded is the one stored and older than the evaluation
(`Current`); every stored event is no later than the row of its key says or is in hand
(`Remembered`); a triggered event is on, in hand, or followed by a recovered one (`OnOrOver`).
TLC checked `SpacingInv` on two goroutines with two requests before it was proved.
`ImplementsAlarmContract` uses the same invariant: every step is one of `AlarmContract` or leaves its
variables alone (`EmitIsContractStep`, `ContractStep`). `CalmKeepsThePromise` gathers the
three in terms of what happens in a deployment (`Calm`), for any number of workers: goroutines that never
meet on a rule and a device, no fault, and no request that updates or disables a rule (`RulesKept`). The
run `EvaluatorAlone` is one such behaviour, with the sweep as the only goroutine.

*NotificationProofs*: `TypeCorrect`, `FailureIsEarnedHolds`, `SucceededWasDeliveredHolds`,
`WaitIsEarnedHolds`, `ImplementsContractHolds`, from `NInv`: each row *and each copy in a worker's
hand* counts no more sends than were made, and its status is earned. Two workers may overwrite each
other, but whatever they write is backed. More is true while no row is in the hands of two workers
(`Apart`; the row a worker has is then still pending and its counter current, `ApartInv`), however many
workers there are: `SettledIsFinalApart`, `SendBudgetApart`, and `ImplementsStrictContract`, the
contract with `Reopens` false. `SettledIsFinalAlone` and `SendBudgetAlone` follow for a single worker
(`Sole`), who is always apart: the instance the run checks. The
refinement maps each action to one of the contract or a stutter.

*RuleTargetsProofs*: `TypeCorrect`, `OnlyDeletionWidensHolds`. Rules and rows are read at one time and
used at another; `IInv` says of every target in use, in the table, the sweep's list or a worker's,
that it was asked for or is what the foreign key left (`Backed`), and of every device the sweep has
found that the rule wanted it when it was read (`FoundWanted`). Each variable's part of a step is a
lemma (`SweepStepHolds`, `WorkerStepHolds`, `DeviceStepHolds`, ...), and history only grows.
`SweepReachesWhileFew` is what is true of the sweep that the run `TargetsLargeTenant` refutes in
general: while the devices that exist are no more than a page the service grants (`FewDevices`), no
device on target all along is left out. Its invariant `Reaching` follows the device from the page that
must contain it to its visit. `SweepReachesSmallTenant` has the condition on the constants.

*IngestProofs*: `TypeCorrect`, `RecountNeedsPurgeHolds`, `ConfirmedIsCountedHolds`, for any samples, keys,
batches, retention and age limit, the configured equality included. A key that is not blank is remembered
by a row that may be purged; `TableInv` says that a sample with no row but in the aggregates is older than
the retention less a second, `RequestInv` that what a request has checked is younger than the age limit
and the request's duration together. An insertion of a batch is counted by the positions whose key is new
(`Inserts`). `CountedOnceWithSlack` is what a configuration would gain whose retention exceeds the age
limit by a request and a second: each such key counts once. The shipped one does not.

*HistoryProofs*: `TextIsTotalOrder` (and the order of times wherever the seconds differ),
from which `WindowIsOffBySecond` and `YoungAreSpared`; `TypeCorrect`; `AttemptsKeepEvents` (the
cascade) and `PointsAreAggregated` (buckets are purged by their own retention), which are inductive
with the type invariant: rowids are unique and the cleaner's clock lies in the past.
`MissesNoMoreThanPurged` and `RepeatsNoMoreThanInserted` are about a client that pages by offset while
rows come and go. `PagingInv` counts by positions: of the rows there from the start, those behind the
offset that were not given are no more than those purged; of the rows that were given, those ahead of
the offset, with those already given twice, no more than those inserted. Each insertion or deletion
moves the positions behind it by one, which is what the lemmas on `Position` state.

*LifecycleProofs*: `TypeCorrect`, `CloseIsLastHolds`, `LateWorkIsStoredHolds`, `ReadyMeansStaffedHolds`,
`LeftOpenNeedsFaultHolds`, `PanicNeedsBadSettingHolds`, for any number of workers, requests, queue
lengths and any width of a duration. `LInv` says what holds from each stage on (no server, no
request, no evaluator, ...) and what a stopped pool and a closed or missing database imply in the
outcomes. `LateStepFeeds` is the part of `LateWorkIsStored` that no invariant gives: which steps add to a
queue.

*TokenBucketProofs*: `TypeCorrect`, `WindowBoundHolds`, `RefusalIsEarnedHolds`, from two
conservation laws: tokens in the bucket and points admitted since the mark never exceed the
capacity and the refill (`Conserves`); and, since the bucket was last full, never fall below
(`Keeps`).

Every safety property and every action property that a run finds to hold is stated by a theorem, five
of them (`SpacedByCooldown`, `TriggersAreSeparated`, `SweepReaches`, `SettledIsFinal`, `SendBudget`)
under the conditions named above, because they are false without.

Only model-checked: liveness (`BreachIsAlarmed`, `DeliveriesSettle`, `BacklogDrains`, `StopReturns`).
Each rests on weak or strong fairness, which is defined with ENABLED, and neither the SMT solver nor
the temporal prover reasons about ENABLED.

## 6. Not modelled

Several tenants (every query is by tenant, except sweep and retention, which treat them alike);
authentication, tokens and serial numbers; decoding, routing and error texts; metrics counters;
sums, minima and maxima of aggregates and `QueryAggregates`, which pages as `QueryRaw` does; floating
point; the doubling of a backoff beyond 64 bits; retention and device deletion in `Evaluator` (they
remove events and states, so `EventBeforeState` is about events that retention has not taken); the
growth of the limiter's map; clocks that go backwards; migrations; queries of raw telemetry without a
device or a metric, whose rows of one time come in no promised order.
