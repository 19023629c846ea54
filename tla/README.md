# A verification of the hotel reviews microservice

TLA+ models of the concurrent parts of the service, the TLC configurations that
check them on small instances, and theorems about them checked by TLAPS.
Paths below are relative to the repository; `processor.go:356` is a line of it.

```
tlc -workers 2 -config engine_jobs.cfg MCProcessingEngine   # one run of the table below
tlapm ProcessingEngine_proofs.tla                           # the proofs of one component
```

## 1. The system

The service imports hotel reviews from S3 files and serves them over HTTP.

| part | state | operations | talks to |
|---|---|---|---|
| ProcessingEngine, `internal/application/processor.go` | registry of jobs, file queue, worker pool, metrics, WaitGroup | Start, Stop, SubmitJob, CancelJob; dispatcher, worker loops, one goroutine per job in process, metrics collector, delayed removal | S3, JSONLinesProcessor |
| ReviewService, `internal/domain/services.go` | one status row per import; summary cache | ProcessReviewFile and its goroutine, CancelProcessing; review CRUD with cache invalidation | repository, S3, JSONLinesProcessor, cache, events |
| JSONLinesProcessor, `internal/infrastructure/jsonlines.go` | two bounded channels, statistics | reader, workers, result collector | repository |
| CircuitBreaker, `circuit_breaker.go`; RetryManager, `retry.go` | state word, counters, sliding window, two mutexes | Execute, record methods, transitions, health check loop, Force methods, Reset | whatever it protects: database, cache, S3 |
| ShutdownManager, `internal/server/shutdown.go`, and `cmd/api/main.go` | hooks, signal channels, WaitGroup, error channel | Register, WaitForShutdown, Shutdown, executeHook, forceKillTimer | every component with a Stop |
| Authentication, `auth.go`, `auth_handlers.go` | the tables users, user_roles, sessions, login_attempts; nothing in memory | Login, RefreshToken, Logout, ChangePassword, ResetPassword, UpdateProfile, DeleteUser, AssignRole, RemoveRole | repository, through CircuitBreaker and RetryManager |
| authentication middleware, `application/auth_middleware.go` | limiter entries per address and user, a map of sessions, blacklists | Allow, CreateSession, UpdateSessionActivity, InvalidateSession, AuthenticationMiddleware, two clean-up goroutines | authentication |
| summary caches, `redis_cache_service.go`, `advanced_cache_service.go`, `optimized_repository_service.go` | two copies of a summary in Redis, one in a map of the process | Get, Set, invalidate, expire | repository |
| ConfigWatcher, `config_watcher.go`; ConfigManager, `config/watcher_integration.go` | configurations, history, callbacks; the manager's own copy | updateConfig, rollback, file and environment watchers | each other, by callbacks |
| event bus and outbox, `events/event_bus.go` | outbox table, handler lists | Save, publish loop, Publish, Subscribe, Unsubscribe, Stop | services, handlers |
| sagas, `events/sagas.go` | a status, steps and a lock per saga; the manager's map | StartSaga, HandleEvent, steps, compensation, RemoveCompletedSagas | services |
| RateLimiter, `rate_limiter.go` | a Redis counter per key | Allow | Redis |
| BaseEventHandler, `event_handlers.go`; AsyncProcessor, `async_processor.go` | task queue, retries, dead letters | HandleEvent, HandleEventSync, scheduleRetry, Stop | Kafka, services |
| error handling, monitoring, analytics, HTTP handlers, logger | counters and maps behind one mutex each | | |

What is hard, component by component, is listed line by line under `hazards` in
PROJECT.json; in short:

* **Engine.** A job object travels through five places (submitter, queue,
  dispatcher, processing goroutine, accounting) while CancelJob, the caller's
  context, Stop and retries touch it; two mutexes are taken in nested order; Start
  and Stop hold one of them while they block. Correct means: one owner per job,
  no job lost, each accounted once, a finished job final, an exact WaitGroup,
  silence after Stop, and a registry that drains.
* **Breaker.** Atomics read outside two mutexes that are taken in either of two
  ways. Correct means: no deadlock, no failure streak swallowed, no short cut from
  open to closed, bounded overshoot of the half-open limit.
* **Shutdown.** Concurrent hooks with time-outs that race their own cleanup.
  Correct means: an honest and complete result, and a process that ends.
* **Import.** Channels that are closed while goroutines are still attached.
  Correct means: no batch lost or doubled, no send on a closed channel, an
  import that returns.
* **Accounts.** Calls of a few statements each, without a transaction, that save
  whole rows as they were read. Correct means: a bounded number of guesses, a lock
  that comes, and nothing that was revoked coming back by itself.
* **Access.** A limiter and a session map that lock for one call only, while a
  request makes several. Correct means: a bound on what a client gets through in
  any window, blocks that last, a bound on a user's sessions.
* **Summary caches.** A commit, then an invalidation, around readers that load the
  stored row and keep it. Correct means: no copy older than what the invalidation was
  for, but for the windows that are known.
* **Configuration.** Two goroutines and a rollback change what a callback may refuse.
  Correct means: both copies agree, a refused value does not stay, the file is applied.
* **Events.** A publisher that may fail, stop or crash between publishing and marking,
  and a slice that is shifted while it is read. Handlers run in goroutines nobody waits for.
  Correct means: at least one hand-over while the process lives, no more than the faults
  explain, and no event left behind.
* **Sagas.** Several services, each of which may fail; compensation that races
  system errors. Correct means: what completed agrees, what failed is withdrawn,
  no lock is waited for by everyone.

## 2. The modules

| module | models | interacts through |
|---|---|---|
| `ProcessingEngine` | the engine | abstracts `processFile` to success or error |
| `FileIngest` | `ProcessFile` inside the two callers it has: the review service with its status row, the engine with a context it may cancel | the `owner` variable says which |
| `CircuitBreaker` | the breaker with its own retry loop, or (`Nested`) with the RetryManager inside that `auth.go` puts there | |
| `ShutdownManager` | the manager and the end of `main` | hooks stand for the components |
| `JobLifecycle` | the abstract life of one job: taken in, registered, worked on, retried, concluded, forgotten | `ProcessingEngine` implements it |
| `Accounts` | login, refresh, logout and the changes of an account, statement by statement | `overtaken` remembers what was taken away since a request read its row |
| `Access` | the request limits and sessions in front of the handlers | the answers of token and key checks are left open |
| `SummaryCopies` | the service's and the optimized service's copies of a hotel's row of `review_summaries`, the updates of the row and the operations that drop a copy | copies are known by the version of the row they were read from |
| `ConfigWatcher` | the watcher, the manager's callbacks and copy, the file and the environment | |
| `EventDelivery` | services that save events, the outbox publisher, the bus | a handler's work is left to the handler |
| `Saga` | both sagas, compensation, system errors and the manager | the services are external: `world` is what they hold |
| `MC...` | symmetry sets and the priorities of the hooks, for TLC | |
| `..._proofs` | theorems | |

How state and actions correspond to the code is in PROJECT.json under `map`, one
entry per definition. The conventions:

* A program counter per goroutine; a step is what happens between two points at
  which another goroutine can see or change something. A critical section that
  cannot block is one step. A mutex is a variable only where it is held across
  steps: `jobsMutex` by Start and Stop, `metrics.mu` by the collector, `mu` and
  `stateMu` of the breaker.
* A Go channel is a sequence with a capacity; `select` is a disjunction, and where
  both `ctx.Done()` and a channel are ready either is taken.
* Time is abstracted: a timer that may fire is an action, "OpenTimeout has passed"
  is one bit, buckets of the sliding window expire in any order that keeps the
  counts consistent.
* Worker objects are counted, not named: the engine writes `worker.busy`,
  `worker.currentJob` and `job.Worker` and never reads them.
* A batch of the import is saved as a whole or not at all, because `CreateBatch`
  is one transaction.
* A statement on a table, a Redis command and a call of a service are one step each,
  and each may fail. In `Accounts` a statement that is repeated after a lost reply
  counts once.
* Where only distances in time matter they are kept as such and a tick of the clock
  ages them: windows, locks and sessions in `Access` (`PassTime`) and `Accounts` (`Tick`).
* A value is as small as the properties allow: a configuration is the content of its
  file and one overridable field, a cached summary the version of the row it was
  read from, a token the session that accepts it.
* A history variable (`overtaken`, `excused`, `raced`, `lost`, `undone`, `botched`,
  `misses`, `guesses`, `recent`, `promised`, `called`, `asOf`) says why or how often something has
  happened; no guard of a modelled operation reads one.

| module | state of the code | actions |
|---|---|---|
| `ProcessingEngine` | `activeJobs`, `jobQueue`, `workerPool`, `wg`, `jobsMutex`, `metrics.mu`; one program counter per goroutine | Start..., Stop..., Submit, Cancel, Dispatch..., Run..., Account, Remove..., Collector... |
| `Accounts` | the four tables; per request its next statement and the rows it holds | one per statement, `Administer`, `Tick` |
| `Access` | `userLimits`, `ipLimits`, `sessions` | one per call of the limiter or the session manager, the clean-ups, `PassTime` |
| `SummaryCopies` | `row`, `eventPublisher` (`wired`), the copies `cached`, `shared`, `local` | one per call of Redis or the database |
| `ConfigWatcher` | `configs`, `history`, `envVars`, the manager's copy; a step per goroutine | HandleFileEvent, ReadFile, UpdateConfig, FileCallback, Restore, RollbackConfig, and the environment's |
| `EventDelivery` | the outbox, `handlers` as an array and a length, the publisher's step, the goroutines yet to call a handler (`waiting`) | Save, Tick, Publish, Spawn, CallHandler, PublishReturns, MarkAsPublished, MarkFails, Subscribe, Unsubscribe, Stop, Crash |
| `Saga` | `sm.sagas`, `s.Status`, `s.mu`, what the services hold | StartSaga, one per service call, Compensate, HandleEvent, Sweep |

Definitions under "Mutants" are small variations of an action, each a plausible
bug; no specification uses them. Putting one in the place of the action must
break the property named in PROJECT.json, which shows that the property depends
on the code.

## 3. The runs

| run | bounds | what it shows |
|---|---|---|
| `engine_jobs` | 2 callers, 2 jobs, 1 file, 1 worker, queue 1, 1 retry, cancellation, no Stop, fairness | `TypeOK`, `JobOwnership`, `NoJobLost`, `AccountedOnce`, `FinishedIsFinal`, `JobsDrain` |
| `engine_lifecycle` | the same with Stop, 2 Starts and calls that outlast Stop's 30 s | `Custody`, `WaitGroupExact`, `QuietAfterStop`, `ImplementsLifecycle` |
| `breaker_states` | 2 callers, 1 attempt each, thresholds 2, window 2, health check | `OvershootBounded`, `NeverClosesFromOpen` |
| `breaker_forced` | 2 callers, 2 nested attempts, Force methods, Reset, fairness | `ThresholdTrips`, `RequestsReturn` |
| `shutdown` | 3 hooks with the priorities of the code, 2 signals, 1 call of Shutdown, fairness | `TypeOK`, `SuccessIsHonest`, `AllHooksOver`, `ShutdownEnds` |
| `ingest` | both owners, 5 batches, 2 workers, every call may fail, fairness | `BatchCustody`, `NoSendOnClosed`, `CollectorDrains`, `ImportReturns` |
| `sagas` | 2 goroutines, a saga of each kind, any call may fail, deadlock checked | `TypeOK`, `CompletedIsConsistent`, `FailedIsWithdrawn`, `RunningIsKnown`, `NoStandstill` |
| `events` | an event for 2 handlers, one for 1 of them and an unreadable row, 2 rows per poll, 1 failed mark or crash, 1 Unsubscribe, Stop, fairness | `HandedOver`, `EventsPublished` |
| `summaries` | 2 threads, 2 hotels, 2 updates of rows, any call may fail, a publisher or none | `ServiceCopies`, `OptimizedCopies` |
| `access` | 2 requests, 1 address, 1 user, 4 session ids, allowance 1 + 1, window 2, 1 active session, timeout 1, deadlock checked | `WindowBound`, `BlockKept`, `ActiveBounded` |
| `config` | 4 changes, 2 good contents and a refused one, a good and a refused value, 2 attempts, history of 3, fairness | `CopiesAgree`, `RefusedIsPassing`, `FileApplied` |
| `accounts` | 2 requests, 1 client, 1 session, 2 attempts allowed, window 2, lock 1, 1 fault | `GuessesBounded`, `LockComes`, `RevocationHolds` |

*Why the bounds are enough.* Two callers are what the races of SubmitJob and of
the half-open counter need; two jobs and a queue of one let a job be requeued or
refused while the other fills the queue; one retry gives a job a second life; a
second Start meets everything the first left behind. Two workers and
five batches fill both channels of the import (their capacity is the number of
workers) and leave batches to read. Two threshold steps distinguish "one failure"
from "enough failures". Three hooks with three priorities are what `main`
registers. Two sagas are one whose events concern another; two threads per module
let every pair of operations overlap, and a third only repeats what the second
does to the first, since each operation holds one row, one copy or one session.
Two hotels are what a review moved by its request has to do with. Two events and a
bad row in batches of two leave one for the next poll. Four changes of the
configuration are a load, an override, a rollback and another load. Two attempts
are the fewest for which the count of failures and the last failure differ; with
one client, one address is enough, because the lock is shared and the counts are
not. MaxStarts, MaxSignals, MaxCalls, WindowMax, MaxAttempts (of the breaker),
MaxChanges, MaxFaults and MaxUnsubscribes bound counters the code does not.
Deadlock is checked in `sagas` and `access`; the other systems may come to rest: an
engine with no callers, an ended process, a bound that is used up.

*The numbers in the properties.* `OvershootBounded`, `GuessesBounded`, `LockComes`,
`WindowBound` and `ActiveBounded` state what the code really allows, which is more
than its configuration says: each request that has passed a check before the others
have counted adds one. In `GuessesBounded` and `LockComes` the next smaller number is
refuted. `ServiceCopies`, `OptimizedCopies`, `CopiesAgree`, `HandedOver`,
`FailedIsWithdrawn` and `RevocationHolds` name the windows in which the code is
known not to keep its promise, so that any other window is found.

*One worker.* The engine runs use MaxWorkers = 1: with two, `Start` may block for
ever (see `bug_start_blocks` below), and the interesting overlap of two jobs in
process occurs with one worker too, because the pool refills itself.

*Fairness.* Weak fairness of a goroutine's steps says that the Go scheduler runs
runnable goroutines and that calls with a time-out end. Steps that take a mutex
others keep taking have strong fairness, because Go's mutex hands itself over to
a waiter that has starved for a millisecond. Nothing that the environment does is
fair: nobody must submit, cancel, signal, or succeed. A cleanup of a shutdown hook
may hang for ever. In `events` the publisher's loop is fair (a ticker drives it), and
what makes it fail, stop or crash is not; in `config` the two goroutines are fair,
and who writes the file, sets the variable or rolls back is not. `sagas`,
`summaries`, `access` and `accounts` state no fairness: their properties are safety.

### Disagreements between the code and its documentation

Configurations kept beside the runs refute sentences of the repository: TLC ends
with the behaviour that contradicts them.

| configuration (module) | sentence | what the code does |
|---|---|---|
| `bug_overcommit` (MCProcessingEngine) | "worker pools and concurrency control", `processor.go:16` | a worker's loop puts it back into the pool while it is busy (line 356), so more files are processed at once than there are workers |
| `bug_start_blocks` (MCProcessingEngine) | "Start starts the processing engine", `processor.go:139` | Start sends to the pool (line 333) that the loops it has started are filling too, before the dispatcher exists |
| `bug_duplicate_job` (MCProcessingEngine) | "checks if a similar job is already running", `:572` | two callers pass the check before either registers |
| `bug_accepted_dropped` (MCProcessingEngine) | "Idempotent job found, returning existing job", `:228` | the job returned is unregistered by its creator when the queue is full |
| `bug_cancel_undone` (MCProcessingEngine) | "CancelJob cancels a processing job", `:281` | the processing goroutine writes running over cancelled (line 413) |
| `bug_stop_timeout` (MCProcessingEngine) | "Stop stops the processing engine gracefully", `:170` | Stop holds jobsMutex while it waits for a collector that waits for jobsMutex (line 621) |
| `bug_restart` (MCProcessingEngine) | Start after Stop, `integration_test.go:448` | the context cancelled by Stop is never renewed |
| `bug_half_open_stuck` (MCCircuitBreaker) | "Time to wait in half-open state", `circuit_breaker.go:69` | nothing reads HalfOpenTimeout: when the admitted requests (line 377) are used up before enough of them succeed, every later one is refused |
| `bug_half_open_limit` (MCCircuitBreaker) | "Allow limited requests in half-open state", `circuit_breaker.go:376` | compare and increment are two operations |
| `bug_open_timeout` (MCCircuitBreaker) | "Time to wait before half-open", `:68` | a transition decided earlier half-opens a circuit that has changed in between |
| `bug_health_check` (MCCircuitBreaker) | "Periodic health checks", `docs/circuit_breaker_implementation.md:65` | the loop has returned before the check is set |
| `bug_hook_order` (MCShutdownManager) | "Lower numbers run first", "Close database after workers", `shutdown.go:56,237` | the hooks are sorted and then all started at once (lines 405-415) |
| `bug_signal_lost` (MCShutdownManager) | "Wait for shutdown signal", `main.go:428` | main takes the signal and then calls WaitForShutdown, which waits for another |
| `bug_shutdown_call_lost` (MCShutdownManager) | "Shutdown initiates programmatic shutdown", `shutdown.go:373` | the non-blocking send finds nobody waiting |
| `bug_force_kill` (MCShutdownManager) | "last resort", `:496` | the timer starts after the hooks are over and nothing stops it |
| `bug_success_unsaved` (FileIngest) | "Wait for result collector to finish", `jsonlines.go:230` | ProcessFile sleeps 100 ms and returns success, whether or not the collector has saved what is left in its channel |
| `bug_completed_reopened` (FileIngest) | "Wait for result collector to finish", `jsonlines.go:230` | the collector writes processing over completed (line 370) |
| `bug_cancel_overwritten` (FileIngest) | "cancels an ongoing file processing job", `services.go:384` | processFileAsync never looks at the row it overwrites (line 332) |

## 4. The proofs

TLAPS proves the following for every number of callers, jobs, workers, retries,
starts, hooks, batches, hotels, requests, clients, sessions, sagas, events, handlers and
contents and every threshold, limit and window,
from the named assumptions on the constants only (`EngineAssumption`,
`BreakerAssumption`, `ShutdownAssumption`, `IngestAssumption`, `CopiesAssumption`, ...:
finite sets, positive capacities, distinct model values). The type invariants of
CircuitBreaker, FileIngest, Accounts, Access, EventDelivery and ConfigWatcher are proved and not among the
properties of the runs.

**ProcessingEngine_proofs.** `TypeCorrect` is by cases over the actions; its one
arithmetic fact is the bound of the queue. `CustodyKept` proves `Custody`, the
inductive strengthening of the safety properties: `JobOwnership` and `NoJobLost`
alone are not inductive, because a requeue would double a job that is already in
the queue unless one knows that a job in process is nowhere else, an id not yet
used is nowhere at all (`Fresh`), and whoever still works on a job finds it
unfinished (`Unfinished`); and a Start must not spawn a second dispatcher while
one holds a job. `OwnershipKept`, `NothingLost` and `FinishedKept` follow from it;
`AccountedOnceKept` needs it to know that a job being accounted is not yet in
`removals`. The run `engine_lifecycle` checks `Custody` itself.

`WaitGroupKept` and `QuietKept` are about Stop. The sum in `WaitGroupExact` is kept by
every step, but that a zero WaitGroup leaves nobody at work needs more, which `Balance`
adds: no part of the sum is negative, and a Start under way, which is about to spawn
goroutines again, has forgotten what the last Stop returned. The steps are
proved in three groups: those of Start and Stop, of the dispatcher and the collector,
and of a job in process, each by what it adds to or takes from a finite set.

`LifecycleImplemented` proves the refinement that `engine_lifecycle` checks: under the
mapping of `ProcessingEngine` (`Phase` of a job, its retries, the registry, the failures
counted) every step of the engine is one step of `JobLifecycle!Next` or changes nothing
there, and the initial states agree. It needs `TypeOK`, `Custody` and `Hands`: a job under
way is registered, a job about to be unregistered is in nobody's hands, and a goroutine
that backs off has counted its retry. `PhaseIs` says once what the phase of a job is in
each pair of hands and `PhaseKept` that a step that leaves a job's hands alone leaves its
phase alone; then there is one step per action. The abstract specification is the
engine's contract to a caller: at most MaxRetries retries, one conclusion, nothing
forgotten before it is concluded, no failure counted without one.

`OnlyStartBlocksKept` says who waits for whom, with the steps' guards in the place of
ENABLED. It rests on `Balance` (a Stop that cannot return finds a goroutine it counts), on
`Custody` (no dispatcher and no collector runs under a Start) and on `LoopsLive`: a Stop has
cancelled the context, and until one does the worker loops spawned are all there, so that a
dispatcher that holds a job gets a worker. The one wait that need not end is named in the
statement: a Start in front of a full pool, the hazard at `processor.go:333`, which
`bug_start_blocks.cfg` shows; with that disjunct dropped the statement is refuted.
`JobIsFinite` counts the steps of one job down (`JobSteps`): each hand-over takes it
further, a retry takes it back by five steps and costs one of `MaxRetries`, and no step of
another goroutine moves it. One lemma per kind of step says that it is a step for one job
and none for the others (`StepFor`).

**CircuitBreaker_proofs.** `TrippingKept` proves that a closed circuit that has seen
enough failures is about to be opened by a goroutine that holds `mu`, or about to
have its counters reset by one that holds `stateMu`, together with what the two
locks protect. `ThresholdKept` is its consequence. `ClosingKept` proves, for a
breaker whose Force methods nobody calls, that whoever is about to close the
circuit holds `mu` and finds it half-open, and `OpenNeverCloses` follows. The
assumption is necessary: ForceClose closes an open circuit, and that is its
purpose.

`OvershootKept` proves the bound on what a half-open circuit admits, with the Force
methods and Reset, for any number of callers and any limit. The bound itself is not
inductive: `Admissions` counts the callers that have yet to reach the comparison in
the half-open state (`Coming`) and those between the comparison and the increment
(`Checked`). Until the transition has reset the counter, every admission is on the
counter of the previous period, so one round (`Round`) bounds admissions and both
sets of callers together; afterwards the counter starts again and a second round can
pass, in which each admission is on the counter once more. The lemmas `OneMoves` and
`OneCallerMoves` say once how these cardinalities change when one caller moves.

`LocksInOrderKept` and `RequestIsFinite` are what `RequestsReturn` rests on. The first: the
holder of `stateMu` goes on, the holder of `mu` goes on or waits for `stateMu`, and whoever
else waits, waits for one of the two, so that there is no circle. The second: a request is
over after at most 5 * MaxAttempts + 12 steps of its own, counted down by `RequestSteps`.
Both need `Ready`: a caller that may begin an attempt has one left, and the health check uses
the record methods and the transitions and nothing else of a request. `Passes` lists where
one step can take a caller, and `PassesLess` is the arithmetic on it, once.

**ShutdownManager_proofs.** The safety properties need exact books, which `Bookkeeping`
in the model states: the WaitGroup is the number of hooks spawned and not over, the
error channel is closed only after the last of them, and every outcome but success
leaves an error that is in the channel or collected. `InvKept` proves it (the
arithmetic is that of adding and removing one element of a finite set), and
`SuccessKept` and `HooksOverKept` follow. `TypeCorrect` contains that the WaitGroup
never goes negative, which would panic.

`ShutdownNeverBlocks` proves that a shutdown under way can always go on: a hook, its
timer, the collector of the errors, `wg.Wait` or the final timer. `ShutdownIsFinite` gives
the steps that are left (`StepsLeft`), a natural number that every step decreases but a further
signal and a further call of Shutdown, which leave it alone. Together they are the safety
side of `ShutdownEnds`.

**FileIngest_proofs.** The invariant is `BatchCustody`, `NoSendOnClosed` and `Handover`:
a worker has a batch exactly when its program counter says so, a channel is closed
only after its senders have stopped, and a worker that leaves with a live context has
found batchChan closed and empty. The lemmas `Send` and `Receive` say once what a
channel operation does to the set of batches in a channel; each step lemma applies
one of them. `DrainsKept` shows why a collector that leaves has seen everything: every
batch was sent, and each other place a batch could be in is empty. That needs at
least one worker, which `IngestAssumption` states and the constructor gives (`jsonlines.go:127`).

`NobodyBlocksKept` proves that the reader, the workers, the collector and `wg.Wait` never wait
for each other in a circle, before ProcessFile returns and after it, when goroutines it
left behind still run: a sender on a full channel finds somebody further down able to go
on, or the context cancelled. `ImportIsFinite` gives the steps that are left, decreased by every step,
cancellation and failures included: it adds what each batch and each goroutine has still
before it (`Weight`, `Lighter`). Together they are the safety side of `ImportReturns`.

**ConfigWatcher_proofs.** `CopiesAgree` is not inductive, because a load in progress
may restore what it found. `UpdateUnderWay` says what such a load holds: until its
callback has answered, the value to go back to is an accepted one and the manager
still has it, unless a rollback or a lost update has been noted. `CopiesTheorem` and
`RefusedTheorem` follow.

**SummaryCopies_proofs.** The theorems hold with a publisher wired or without. The invariant is `Typed`, the
two properties and `Busy`, that a thread in the middle of an operation knows its hotel
and what it has still to invalidate. The properties are split by hotel and by copy
(`ServiceCopy`, `SharedCopy`, `LocalCopy`), and each action has one lemma that says which of
these it can disturb: a store of something old finds the thread whose invalidation
is still to come (`ServicePending`, `SharedPending`, `LocalPending`), or is excused. `PanicInv` is the step of a publisher that is nil: the request ends, and
each copy it would have dropped that is outdated gets an excuse.

**Authentication_proofs.** About `Accounts` and `Access`. `RevocationHolds` rests on `Remembers`: if a request holds a row,
a role, a session or a lock that the tables no longer hold, it has been overtaken in it. A
step that takes something away marks every request under way (`Overtaking`), and
a request that begins reads the tables as they are. One lemma per kind of statement.

`LockKept` proves that the lock comes in time. `Late` is its inductive invariant: as long
as the count of failures is short of a lock by more than one, every wrong password is in
it, on its way to it (`Counting`), about to lock (`Locking`) or lost to a statement that
failed; once a request reads a count that suffices it locks, so what is left are the
requests about to. A whole-row save that brings back a smaller count starts the
reckoning again, as does a lock or a successful login. `GuessesKept` proves the limit of
the login attempts, by age: `Limited` says that of the wrong passwords of the last ticks
all are recorded, or about to be by a request past the limit's check, or lost. That is an
induction over ages only if a count covers all younger ones too, which is why
`failures` and `guesses` are kept that way. `AccountsAssumption` asks for at least one
thread: nothing is guessed without one, and the bound would be too small by one.

`AccessKept` proves what the limiter and the session manager rest on. `InWindow` says, age
by age, what an entry knows of the requests let through: none since it is idle, no more
than its count since its window began, and at most one full allowance before that.
`WindowKept` follows: no stretch of `RateWindow` ticks lets more than twice the allowance
through, however it lies across windows, blocks and clean-ups. `Blocks` bounds the sum of
a block and the time an entry is idle, so that the clean-up, which takes entries idle for
two windows, never takes a blocked one. `BlocksKept` therefore assumes `Requests + Burst > 0`,
and must: without an allowance an entry is blocked by its first request while it is idle,
and the clean-up takes it; the middleware's defaults are 100 and 10
(`auth_middleware.go:118-120`). `ActiveKept` bounds the sessions that are active together
with those that a request holds and may prolong (`Room`): only the sum is inductive.

**Events_proofs.** About `Saga` and `EventDelivery`. `SagaInvKept` proves the invariant in its parts: who holds a saga's lock,
for writing or for reading, is what the program counters say (`LocksHeld`); the status
follows the lock (`Stages`); a saga between its registration and its first step is safe
from a sweep (`Known`); before its call number p a saga has done exactly what the calls
before p do (`Works`), and what it shows can be undone (`Outcome`). `TypeCorrect`, `KnownKept`
and `CompletedKept` follow, lost replies included. `WithdrawnKept` assumes `~LostReplies`,
and must: with them the property is refuted (see below). It adds `Withdrawing`: the next
step to be compensated is never below one that still shows (`ToUndo`), and a failed saga
that shows something is being compensated. Two definitions of the model had CASE arms
that overlap, on which TLC takes the first and TLA+ leaves the choice open; the proof
could not be done, and the arms are now exclusive. `WaitsEndKept` shows that nobody waits for
one who waits: the holder of a saga's lock is running, undoing or compensating, and none
of these asks for a lock, so that a sweep may hold `sm.mu` and wait.

`HandedOverKept` proves for any events and handlers that a published event has been
handed to a goroutine for each of them, which has called the handler or still is to, and
at most once more per failed mark and per crash. A crash between the mark and the
goroutine is the exception, and the statement names it (`lost`): the row is never read
again. `DeliveryKept` is the
invariant, in parts. `Rows`: a row is in the outbox and in the batch once, and a row in
the batch is unpublished. `Arrays`: the first `size[t]` cells of a type hold different
handlers of that type, among them all that were never unsubscribed; a handler that comes
back finds room in the array because the others cannot fill it (`RoomInArray`, by
counting). `Iteration`: a Publish that no Unsubscribe has overtaken iterates over a
prefix of that array, and so over every handler that stayed; one that was overtaken still
reads within the array. `HandOvers`: the calls of a handler for an event and
the goroutines yet to call it (`Given`) are together at most the failed marks and the
crashes, and one more if the event was handed to it in this turn or for good (`Handed`),
and then at least one, or lost. `ShiftedArray` says once what
`append(handlers[:i], handlers[i+1:]...)` leaves of an array, and `HandOversFrame` what
a step that calls no handler must respect. The subscriptions are a constant of the
model, one array per type in any order without repetition (`SubscribedAssumption`); the
kinds of handlers and the types they name are those of `handlers.go`.

*Only model-checked:* every liveness property (`JobsDrain`, `RequestsReturn`,
`ShutdownEnds`, `ImportReturns`, `EventsPublished`, `FileApplied`), because fairness speaks of
ENABLED and the conclusion from a decreasing count is an induction, both out of the
prover's reach; and `NoStandstill`, which speaks of ENABLED too (`WaitsEndKept` proves the
same of the steps' guards). Of the first four the safety side is proved, as said above: that
somebody can always go on, and that only finitely many steps are to be made. What TLC adds
for them is that the fairness stated is enough, strong fairness of the steps that take a
mutex above all, and that the goroutine which can go on is one that fairness speaks of.
`EventsPublished` and `FileApplied` rest on TLC alone.

## 5. What is not modelled

PROJECT.json gives the reason for each component. By far the largest part of the
code is outside the models: monitoring, analytics, error classification, query advice,
HTTP handlers, S3 and Kafka clients and logging translate, count or forward under one
mutex each, and have no protocol a model could get wrong.

Within the modelled components: the gauges of the metrics, log lines, worker identities,
the hotels and reviewers saved with a batch, lines that do not parse, the back-off
arithmetic, the fallback of a rejected request, the delays before the shutdown hooks,
BackpressureController and JobProgressTracker (called by nobody), and events and
notifications of an import. The engine's restart is modelled once the previous
dispatcher and collector have returned; a second engine in the same process is
not. Registration, API keys, password hashes and the contents of tokens; blacklists,
permissions and CORS of the middleware; search results and warming in the caches; the
batch processor's configuration; the event store and its projections, which nothing
starts. Three parts with a protocol of their own are left out for what they are:

* BaseEventHandler (`event_handlers.go`): handleEventWithRecovery calls handleEvent of the
  base type, which always answers "not implemented" (lines 311-316), so no task can
  succeed. Stop holds `h.mu` while it waits for workers whose updateMetrics needs it.
* RateLimiter (`rate_limiter.go:34-75`): a Get and an Incr of one key.
* CacheServiceImpl (`application/cache_service.go`): constructed nowhere; its
  invalidatePattern (line 1014) does nothing.

### Seen in the code while modelling

Facts the models take over as they are, or leave out with the code they concern:

* `GetReviewSummary` (`services.go:393`) takes a miss of the cache, which Redis reports
  without an error, for a hit: a request on a cold cache gets no summary.
* `cmd/api/main.go:150-160` passes no event publisher, and CreateReview, UpdateReview and
  DeleteReview call it after their commit and before their invalidation: the call panics
  and nothing is invalidated. The model has both wirings (`wired`); what such a request
  leaves outdated is excused in `ServiceCopies`, so that as the service is wired there the
  property promises something of DeleteHotel only.
* Nothing recomputes a row of `review_summaries` when reviews change: no operation of the
  service, no trigger, and the SQL functions of the migrations that would are called by
  nothing. An invalidation makes room for the row as it is, which may be behind the
  reviews. That is why `ServiceCopies` compares a copy with the row at the commit
  (`asOf`), not with the reviews.
* An update of the row drops the optimized service's copies and never the service's own
  (`hotel:summary:<id>`), which stays until it expires or a review operation drops it.
* `ProcessReviewBatch` (`services.go:543-565`) and the import (`jsonlines.go:347`) save
  reviews and invalidate nothing. They touch neither the row nor a copy, so they are no
  action of SummaryCopies and `ServiceCopies` promises nothing about them.
* The bus counts an event as published when the goroutines of its handlers have been
  spawned (`event_bus.go:149-162`); a crash after the mark (line 612) and before one has
  run loses its call. "The transactional outbox pattern" (`event_bus.go:513`) is
  at-least-once while the process lives: without the disjunct `lost`, `HandedOver` is
  refuted.
* The environment's handlers of the ports and of the maximum of connections
  (`watcher_integration.go:263`, 301, 320, 383) assert a float64 where `os.Getenv` gives a
  string, and panic in the watcher's goroutine. The overridable field of ConfigWatcher
  is the JWT secret, whose handler takes a string; the process does not end there.
* A rollback that comes while a load waits for its callback is overwritten when the load
  is refused and restores what it found. `CopiesAgree` does not catch this: it remembers
  it (`undone`, `lost`) and excuses what follows.
* `validateRequest` (`auth_handlers.go:602-611`) answers "unknown request type" to several
  account requests before they reach the service. Accounts models the service: its races
  exist for any caller of it, at present for fewer of the HTTP routes.
* A client of `GuessesBounded` is the address a request gives; the old passwords tried in
  ChangePassword are counted by no limit and are no guesses there.
* `CreateBatch` (`repository.go:97-100`) does not write `hotel_id` on an update: a review stays
  with its first hotel.
* `AdvancedCacheService.InvalidatePattern` (line 263) returns before the process's own map
  when Redis has no such key.
* With `LostReplies = TRUE`, a service that does its work and reports an error,
  `FailedIsWithdrawn` (Saga) is refuted: the step that failed is not compensated.
* `RefreshToken` saves the session it read, and so brings back one that Logout has
  deleted ("Logout logs out a user", `auth.go:1329`); whole-row saves of an account bring back
  a lock, a role or the account itself. `RevocationHolds` allows these and nothing else.
* ForProtectedEndpoints and ForAdminEndpoints of the middleware ask for an authenticated user
  before the middleware that finds one has run.
* RollbackConfig calls no callback, so the manager keeps its copy; a load of the file drops the
  overrides of the environment; refused configurations stay in the history.

## 6. The plan

Done, in this order: `ProcessingEngine`, `CircuitBreaker` with RetryManager,
`ShutdownManager`, `FileIngest`, `JobLifecycle` and its refinement, `SummaryCopies`,
`EventDelivery`, `Saga`, `ConfigWatcher`, `Access`, `Accounts`; with proofs about each of
them. Left:

1. `AsyncProcessor` with the Kafka consumer: one handler call per message, commits, a
   crash between the two.
2. `BaseEventHandler`, once its tasks can succeed.
3. The Redis `RateLimiter`.
