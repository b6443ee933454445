# A TLA+ model of reliable-webhook

The program accepts events over HTTP, stores each with a *delivery*, and POSTs
the delivery to a target URL until it succeeds, fails for good or runs out of
attempts. A finished event can be replayed as a new delivery. What makes this
hard: several processes claim rows from one MySQL table, claims are leases that
run out, every verdict is a separate statement, processes stop and crash between
any two of them, and shutdown races with the work in flight.

This directory models that, model-checks it with TLC on small instances and
proves the main safety properties with TLAPS for every instance.

## 1. Inventory

| Component | Source | State | Operations | Interacts through |
|---|---|---|---|---|
| Delivery repository, schema | `internal/repository/delivery_repository.go`, `sql/init.sql` | tables `deliveries`, `delivery_attempts` | claim (SELECT ... FOR UPDATE SKIP LOCKED, UPDATE, COMMIT), MarkSucceeded, MarkDead, ScheduleRetry, RecordAttempt, CreateReplayDelivery, ListByStatus | row locks, one statement at a time |
| Event repository | `internal/repository/event_repository.go` | table `events` | CreateEventWithDelivery, GetEventIDByKey, GetEventDetailByID | unique key on `event_key` |
| Delivery pool | `internal/worker/delivery_pool.go` | channel `jobs`, dispatcher and worker goroutines | poll, claim, enqueue, receive, stop | channel, context |
| Delivery worker | `internal/worker/delivery_worker.go` | the job in hand | Process: send, record, verdict | repository, webhook client |
| Webhook client | `internal/worker/webhook_client.go` | none | Send, classification of answers | HTTP |
| Process lifecycle | `cmd/server/main.go` | contexts, `poolDone` | start, shutdown in order, server failure | signals |
| Event service, HTTP API | `internal/service`, `internal/api` | none | CreateEvent, ReplayEvent, GetEvent, ListDeliveries | repositories |
| Configuration | `internal/config/config.go` | none after start | Load | durations and sizes of the pool |
| Metrics | `internal/observability/metrics.go` | counters, two gauges, a histogram | Inc, Dec, Observe | updated beside what they count, by every goroutine |
| Not part of the running program | `internal/testutil`, `scripts/`, `web/`, `docs/` | | | HTTP API |

What makes each correct:

* **Repository**: a row is claimed by one dispatcher at a time; the attempt
  number a claim returns is unique; a row whose holder is gone is claimed again;
  a refused replay and a refused submission leave no trace.
* **Pool**: the dispatcher never waits for the channel while it holds a claim;
  cancelling ends every goroutine; a job that is not run is not lost for good.
* **Worker**: the verdict fits what the target answered and the attempts used;
  the audit row precedes the verdict.
* **Process**: a shutdown cuts off neither requests nor verdicts, as long as its
  timeouts are long enough for them.
* **Metrics**: a gauge is off by no more than the updates under way, whatever
  their order; a final state is counted once.
* **System**: a delivery follows the documented state machine and is eventually
  settled; an event has one active delivery; an outage of the target, or a clock
  that differs from the database's, does not end a delivery before its retries.

The behaviours that are hard to test, each at its line, are the `hazards` of
`PROJECT.json`.

## 2. Modules

| Module | Role |
|---|---|
| `DeliveryStore` | the tables and every statement that writes them |
| `DeliveryPool` | processes, dispatchers, channels, workers, shutdown, crash, clients and clock over `DeliveryStore` |
| `DeliveryLifecycle` | what becomes of one delivery, abstractly; `DeliveryPool` implements it |
| `PoolMetrics` | `DeliveryPool` with the metrics its goroutines keep |
| `PoolTiming` | one process's ticker, claim, channel, workers and shutdown in seconds; the lease |
| `ServerProcess` | `PoolTiming` inside `main`: HTTP requests, signal, the two waits of a shutdown |
| `DeliveryClock` | one delivery in seconds, under the clocks of several processes and the database's |
| `EventApi` | concurrent `POST /events` and `POST /events/:id/replay`, statement by statement, under InnoDB's locks |
| `EventLog` | what these two endpoints promise together, abstractly; `EventApi` implements it, and so does `DeliveryPool` |
| `MCDeliveryPool`, `MCPoolMetrics`, `MCPoolTiming`, `MCServerProcess`, `MCDeliveryClock`, `MCEventApi` | instances for TLC |
| `PoolTypeProofs`, `PoolClaimProofs`, `PoolVerdictProofs` | theorems about `DeliveryPool`, with the refinements of `DeliveryLifecycle` and `EventLog` |
| `MetricsProofs`, `TimingProofs`, `ServerProofs`, `ClockProofs` | theorems about the module in their name |
| `EventApiProofs` | theorems about `EventApi`, with the refinement of `EventLog` |

`PoolMetrics` and `ServerProcess` are compositions: their steps are those of
`DeliveryPool` and `PoolTiming` with something added. Both are proved to
implement what they extend (`MetricsImplementPool`, `ServerImplementsTiming`), so
every theorem about the inner module holds in the outer one.

### DeliveryStore

One function per column of `deliveries` that a property can tell apart; a row
that is not inserted is `"absent"`. Target URL, payload and error texts do not
steer anything and are left out. The timestamps `next_retry_at` and
`locked_until` are only compared with `NOW()`, so the model keeps what has *not*
yet elapsed: `waiting` (rows that back off) and `live` (leases, named by the
claim `<<d, n>>` that wrote them). `LeaseElapses` and `BackoffElapses` are the
clock. A lease ends after the earlier leases of its row, as all have one length.

`Claimable` is the WHERE clause of the claim, `ClaimRow` its UPDATE and COMMIT.
The verdicts `MarkSucceeded`, `MarkDead` and `ScheduleRetry` name the row by id
alone, as the code does: they do not look at who holds it.

### DeliveryPool

A process is `phase` (up, stopping, down), a dispatcher (`dpc`, `dclaim`), the
channel `jobs` and its workers (`wpc`, `wjob`, `wres`). A step is one statement,
one channel operation or one HTTP exchange:

| Code | Actions |
|---|---|
| `Start`, dispatcher: tick, `len(jobs) >= cap(jobs)`, nothing to claim | `PollNothing` |
| `ClaimOneReadyPending`: SELECT, then UPDATE and COMMIT, an ambiguous COMMIT, the deferred Rollback | `ClaimSelect`, `ClaimCommit`, `ClaimCommitLost`, `ClaimAbort` |
| send side and `ctx.Done()` side of the dispatcher's selects | `Enqueue`, `DispatcherStop` |
| worker's select: a job, `ctx.Done()`, a job although `ctx` is done | `Take`, `WorkerStop`, `TakeCancelled` |
| `Process`: Send, RecordAttempt, the verdict | `SendReturns`, `Record`, `RecordFails`, `Settle`, `SettleFails` |
| `main`: signal and `poolCancel`, `poolDone`, the timeout, server failure or crash, next start | `Shutdown`, `Exit`, `ExitUnfinished`, `Crash`, `Restart` |
| `POST /events`, `POST /events/:id/replay` | `Submit`, `Replay` |

A worker that receives from the closed, empty channel (`ok == false`) and one
that sees `ctx.Done()` do the same and only happen after the cancel: both are
`WorkerStop`.

Between SELECT ... FOR UPDATE and COMMIT the row is locked (`RowLocked`): other
claims skip it, and verdicts and replays of its event wait. A smaller row may be
skipped while another claim is open, since a scan locks what it passes over.

`answers`, `overrun` and `lostAudit` are history variables. `overrun` holds the
deliveries of which a lease passed while a dispatcher, a channel or a worker
still had its job. The code does not rule that out (the lease of `main.go:80`
covers a delivery but not the wait in the channel; `PoolTiming` says when), so
the model allows it at any time and the properties say what survives it.

**Simplifications.** A shutdown begins with `poolCancel`; what `main` does before
that, while the pool goes on as ever, is in `ServerProcess`. A submission and a
replay are one step each, which `EventApi` justifies: its transactions are single
steps of `EventLog`, and these have the guards of `DeliveryStore`'s
`CreateEventWithDelivery` and `CreateReplayDelivery`. `EventApi` in turn knows of
the pool only that a delivery under way ends at some time, once: the `Settle` of
`EventLog`. `ImplementsLog` of `DeliveryPool` says that this is all a client can
see of it, as long as no lease is overrun. `max_attempts` is the same
for all rows, as both INSERTs write 3.

### PoolTiming

The same pool with durations and without rows: there is always one to claim, and
a job is its age and whether it had to wait in the channel. The age counts from
`time.Now()` in the dispatcher, before the claim, since `locked_until` is
computed there. `Elapse` passes one second for everybody and is only possible
while nobody can go on at once: the dispatcher waits for the ticker or for the
claim, the workers for jobs, for `Send` (the smaller of `DeliveryTimeout` and the
client's 5 s; nothing once the pool is cancelled) or for the statements after it
(2 s together, also after the cancel). Steps may also end earlier. `ticker.C`
buffers one tick. `locked_until` is a TIMESTAMP in whole seconds; an age equal to
the lease counts as outlived, as the claim compares with `<=`.

A claim has two parts. BEGIN, SELECT and UPDATE (`"claiming"`) run under
`claimCtx`: its 2 s or the cancel end them at once. `tx.Commit` looks at the
context once, before it sends COMMIT; from then on (`"committing"`), and during a
ROLLBACK (`"rollingBack"`), neither ends the wait, and the DSN sets no read
timeout. `ClaimTime`, the longest that all of this takes, is therefore a number of
the database's and may be above 2. A COMMIT under way at the cancel still takes
effect, and its job may still get into the channel (`Enqueue`) or be dropped
(`DispatcherStop`).

| Code | Actions |
|---|---|
| the ticker, `len(jobs) >= cap(jobs)` | `SkipTick`, `BeginClaim` |
| `ClaimOneReadyPending`: COMMIT, the deferred Rollback, no row or an error | `Commit`, `Rollback`, `ClaimNothing` |
| the dispatcher's send, `ctx.Done()` | `Enqueue`, `DispatcherStop` |
| the worker's receive, `Send`, the two statements, `ctx.Done()` | `Take`, `SendEnds`, `UpdateEnds`, `WorkerStop` |
| `poolCancel`; the process ends and another starts; time | `Cancel`, `Exit`, `Elapse` |

### ServerProcess

`main` is `"serving"`, `"draining"` (inside `server.Shutdown`) or `"waiting"` (for
`poolDone`), and `mtime` says for how long. Each of the two waits has a
`ShutdownTimeout` of its own, so a shutdown may take two of them, although
`config.go:28` calls it the total. The timeout is read from the configuration when
a process starts, hence a variable.

| Code | Actions |
|---|---|
| a handler starts, ends | `Accept`, `Respond` |
| `quitCtx.Done()` | `Signal` |
| `server.Shutdown` returns, `poolCancel()` | `StopPool` |
| `<-poolDone`, `time.After` | `PoolDone`, `WaitTimeout` |
| `<-serverErr` and the return after it; a kill | `ServerFails`, `Killed` |
| `execCtx`, derived from the pool's context, ends a `Send` that has time left | `SendCancelled` |

`interrupted` is a history variable: it remembers a `SendCancelled` of the process.

A request that outlives the drain goes on while `main` waits for the pool.
`HandlerTime` is the longest a handler takes: `RequestTimeout`, which cancels its
statements, what it does after them, and a COMMIT, which takes no context here
either. The mock of a slow target (`router.go:48`) is a handler too and sleeps 8 s.

### PoolMetrics

`due` has the metrics updates a goroutine owes before its next step: `Inc` of the
queue depth after the dispatcher's send, `Dec` after a worker's receive together
with `Inc` of the deliveries in flight, the final state and the deferred `Dec`
after a verdict, the `Dec` alone when the verdict's statement fails. A new process
has gauges of 0. The counter of final states is summed over the processes; what a
process did not count before it ended is lost. The two kinds of dead are one
label.

### DeliveryLifecycle

The README's state machine with its guards: a delivery is created when its event
has none under way, tried, heard of (`heard`), and decided by what was heard and by
the number of tries. A *stale* delivery, one with a lease that ran out under a
job, may be decided again. Nothing in it says process, channel, worker, lease or
lock. Under the mapping, `tries` is `attempt_count`, `heard` is `answers` without
the attempt numbers and `stale` is `overrun`.

### DeliveryClock

`locked_until` and `next_retry_at` are written with the process's clock, in the
DSN's time zone, and compared with the database's `NOW()`. `Offset` is how far a
holder's clock is ahead, zone included. `lockedFor` and `retryIn` are what `NOW()`
still needs to reach the two columns; `Second` passes for all. A *holder* is a
dispatcher and, for the claim it makes, the channel and worker that take it over:
`Begin` is the `time.Now()` before the claim, `Claim`, `ClaimLost` and
`ClaimNothing` are its outcomes, `SendEnds` brings a status code or an error,
`Settle` is the verdict and `Lose` a crash, a failed UPDATE or a drop at shutdown.
`Delivered`, `Retryable` and `Backoff` are `DeliveryResult` and
`backoff` of the worker. `JobTime` stands for all that `PoolTiming` says of the age
of a job.

### EventApi

A request is one `POST`. It inserts at most one event and one delivery, so both
rows are named by it; `id` is the AUTO_INCREMENT value, which rollbacks use up.

| Code | Actions |
|---|---|
| `CreateEventWithDelivery`: INSERT event, 1062, INSERT delivery | `InsertEvent`, `InsertConflicts`, `InsertDelivery` |
| `EventService.CreateEvent`: the read-back by key | `ReadBack` |
| `CreateReplayDelivery`: three statements, two refusals | `CheckActive`, `FindActive`, `ReadLatest`, `FindNone`, `InsertReplay` |
| `Commit`, a COMMIT whose answer is lost, every error with its deferred Rollback | `Commit`, `CommitLost`, `Fail`, `DeadlockVictim` |
| the handlers' answers | `Answer`: created (201), duplicate (200), active (409), unknown (404), error (500) |

`locks` is what InnoDB holds for a transaction, as far as this code depends on it:
the key in `uk_event_key`, the rows of an event, the gap for pending and running
rows in an index on status, and an uncommitted pending row. The comment in
`delivery_repository.go:205` leaves open which index the first FOR UPDATE takes,
so `CheckActive` takes either. Its account of the status index (one sees the
other's pending row and is answered 409) is not what happens in the model: with no
active row both replays pass the first statement. The second makes the later one
wait for the event, the first INSERT waits for its gap, and InnoDB answers one of
the two with error 1213, so 500 (`DeadlockVictim`). It is this gap lock that keeps
two deliveries from being under way.

Left out: locks that only make somebody wait a while (gaps next to an event's
rows, rows of other events the status scan reads), and deadlocks through them,
which end like `Fail`.

## 3. Properties

Of `DeliveryPool`, invariants: `TypeOK`; `QueueHasRoom` (check-then-act on
`len(jobs)`); `AttemptNumbersUnique`; `SoleHolder`; `VerdictJustified`;
`VerdictAudited`; `OneActiveDelivery`; `AttemptsPaidFor`; `AuditGapsPaidFor`;
`DuplicatesPaidFor`, which says what at-least-once delivery costs here. Action
property: `StatusFollowsReadme`. Refinements: `ImplementsLifecycle`,
`ImplementsLog`. Liveness: `EventuallySettled`, `ShutdownCompletes`. Each is
described at its definition in `DeliveryPool.tla`.

`SoleHolder`, `OneActiveDelivery` and `StatusFollowsReadme` speak of deliveries
no lease of which was overrun, and to the two refinements an overrun delivery is
stale or finished. The others hold whatever happens, overrun leases
and stale workers included.

Of `PoolTiming`, invariants: `TypeOK`; `LeaseCoversPromptJob`, which needs the
assumption `LeaseHasMargin` (claim + send + updates < lease); `AgeBounded`, how old
a job gets with the wait in the channel; `StopsWithin`, how long `Start` takes
to return. What they say of configurations:

* With all timeouts used up and a COMMIT within the claim's 2 s, `LeaseHasMargin`
  is `PollInterval > 2` for a `DeliveryTimeout` up to 5 s. The defaults (5 s, 1 s,
  so a lease of 8 s) miss it: 2 + 5 + 2 = 9. A slower COMMIT takes more of the
  lease, which runs from before the claim.
* A job may wait for `Rounds` = QueueSize / workers (rounded up) sends and
  updates, so only a lease above `ClaimTime + (Rounds + 1) * JobTime` excludes an
  overrun. No term of the lease grows with the channel.
* Unless jobs do not wait: `WorkersKeepUp` says that there are enough workers for
  the jobs that ticks can begin while one lasts, whatever the channel. With claims
  of 2 s (COMMIT included) and `DeliveryTimeout` 5 s, four workers keep up with a poll every 3 s
  (2 + 7 < 12), which `LeaseHasMargin` also asks for; with the default of 1 s
  neither holds, as a claim may then outlast its tick.
* `Start` returns after `ClaimTime` or `(QueueSize + 1) * UpdateTime`, whichever is
  longer. One worker can be left with all buffered jobs, which is 34 s with the
  default channel of 16, more than `ShutdownTimeout` (10 s); the process then
  exits by `ExitUnfinished`. Meanwhile the dispatcher may wait for a COMMIT that no
  context ends. Its job does not add to the second bound: the dispatcher saw room
  for it before it began.

Of `ServerProcess`, invariants: `ServerTypeOK`; `RequestsFinish`, no request is cut
off if `HandlerTime < ShutdownTimeout`; `VerdictsFinish`, when `main` gives up
waiting all workers have left, so no verdict is cut off, if
`(QueueSize + 1) * UpdateTime < ShutdownTimeout`. It does not say that `main` sees
`poolDone`: a COMMIT of the dispatcher may outlast any timeout, and then a claimed
row is left to its lease. With the defaults (10 s) the first condition is met by
requests of 5 s, and of 8 s with the slow mock, as long as their COMMIT takes less
than what remains; the second is not met (34 s).

Of `PoolMetrics`, invariants: `QueueDepthCounts` and `InFlightCounts`, exactly what
the gauges show while updates are under way (the first may show -1, after a worker
has received and counted before the dispatcher counts its send);
`FinalsAreRows`, the counter of final states never exceeds the rows.

Of `DeliveryClock`, invariants: `TypeOK`; `OneHolder`; `AttemptsAccounted`;
`OutageSurvived`, a delivery that died without the target refusing it was tried
for at least `RecoveryTime`. Action property: `FinalStays`. All but the first
assume `LeasesCover`: a lease is longer than a job, seen from the slowest clock.
That condition is tight in the instance (a `JobTime` of 8 instead of 7 violates
all four), and so is `RecoveryTime`, the sum of the gaps the attempts leave. A DSN
whose `loc` differs from the database's session zone makes the offset hours, and a
negative one ends every lease at once. The DSN that `config.go` builds from
`config.yml` has no `loc`, so times are written in UTC and the session zone has to
be UTC; the tests use `loc=Local` (`testutil/db.go:18`).

Of `EventApi`, invariants: `TypeOK`; `EventHasDelivery`; `AnswersAgree`;
`ReplayChain`; `DeadlocksAreOfTwo`, requests that wait for each other include two
that wait for one another, so breaking those is enough. Refinement:
`ImplementsLog`. Liveness: `EventuallyAnswered`.

## 4. Runs

| Run | Instance | Question | States |
|---|---|---|---|
| `pool_safety` | 1 process, 2 workers, channel of 1, 1 event with 2 deliveries, 2 attempts, 2 mishaps | all safety properties, the two refinements | 0.7 M |
| `pool_two_processes` | 2 processes with 1 worker each | claims of processes that share the table | 2.7 M |
| `pool_liveness` | `PoolMetrics`: 1 process, 1 worker, 2 deliveries, 2 mishaps | eventual settlement, end of a shutdown, the metrics | 0.7 M |
| `pool_timing` | 2 workers, channel of 2, poll every 1 s, delivery timeout 8 s (sends of up to 5 s), claims of up to 4 s with their COMMIT, updates of up to 1 s, 1 request of up to 1 s, a shutdown timeout of 4 or 5 s (`ServerProcess`) | ages of jobs against the lease, length of a shutdown, what it cuts off | 4.9 M |
| `delivery_clock` | 3 holders with clocks of -2, 0 and +2 s, lease 10 s, claim 2 s, job 7 s, 3 attempts, 2 losses | leases, retries and outages under several clocks | 0.3 M |
| `event_api` | 4 requests, 2 keys, 1 mishap | concurrent submissions and replays | 0.6 M |
| `doc_lease_covers_delivery` | `PoolTiming` with 2 workers, channel of 2, poll every 1 s, instant statements | the lease's comment | |
| `doc_sends_finish` | `ServerProcess` with poll every 3 s, instant statements, requests of up to 6 s, a shutdown timeout of 7 s | the comments on stopping the pool | |
| other `doc_*` | as `pool_safety`, 1 mishap, mostly 1 delivery | statements of the documentation that do not hold | |

**Bounds.** `MaxDeliveries` = 2 gives a delivery and its replay, which is what the
interference through an event needs. `MaxAttempts` = 2 (3 in the code) has a
first, a middle and a last attempt between retries and losses. `MaxMishaps` counts
crashes, shutdowns, failed statements and overrun leases together; two of them
combine any two, and since claims, retries and attempts are finite without
mishaps, nothing else needs a bound. A channel of 1 is both empty and full within
reach, and two workers are the smallest number that can race. `pool_safety` was
also run to the end with three mishaps (10 M states), and `AuditGapsPaidFor` and
`DuplicatesPaidFor`, with their strengthenings `OwedInv` and `HopeInv`, on the
instance of `pool_two_processes`. Symmetry of the workers is used in `pool_safety`,
where the temporal formulas are three properties of steps
that name no worker, and in `pool_timing`, which has invariants only.
`pool_timing` has no bound: ages stay finite because every wait has a limit. Its
lease is 8 + 1 + 2 = 11, one more than the longest life of a job that does not
wait (4 + 5 + 1), so `LeaseHasMargin` just holds. With a tick every second and
jobs of up to 6 the channel fills. `ClaimTime` = 4 is above the 2 s of `claimCtx`
and above `(QueueSize + 1) * UpdateTime` = 3: a COMMIT outlasts both the claim's
timeout and the workers. With a shutdown timeout of 4 `main` may give up on such a
COMMIT, which is when `VerdictsFinish` says something; with 5 it waits beyond both
bounds of `StopsWithin`. Both are above 3 and above `HandlerTime` = 1, so the
conditions of `VerdictsFinish` and `RequestsFinish` hold in this run.
`delivery_clock` has three attempts, as the code, so that both
backoffs it can reach are used, and two losses, so that one attempt may be lost
before and one after a retry. Its offsets are small to keep the number of states
small; the theorems have any offsets. Four requests in `event_api` are the fewest
with replays of two events at once, which meet in the status index; with two
mishaps its safety properties hold too.

**Fairness.** `FairSpec` assumes weak fairness of every dispatcher and worker
(goroutines that can run do; `Send` ends because the client has a 5 s timeout and
`execCtx` another; statements end because `claimCtx` and `updateCtx` have 2 s; that
a COMMIT ends is an assumption about the database, no context does it), of time
passing, and of `Exit \/ Restart`. The last one assumes a supervisor: nothing
in the repository restarts the process, and without a running process nothing is
delivered. Clients and mishaps have no fairness. `pool_liveness` uses
`FairMetricsSpec`, the same fairness: a goroutine that goes on makes the metrics
updates it owes first. `EventApi`'s `FairSpec` assumes weak fairness of every
request that was begun, the choice of a deadlock victim included (InnoDB's
detection, or else the request timeout).

**Deadlock** is checked in every run.

### Where the documentation says more than the code does

* `doc_terminal_is_final`: a stale worker's verdict overwrites a final status.
  In the same way an old delivery and its replay can be active together, and a
  stale `ScheduleRetry` clears the lease of another claim.
* `doc_attempts_within_max`: a lost claim is an attempt, the next claim does not
  look at `max_attempts`.
* `doc_dead_fully_audited`: a delivery that ran out of attempts may be dead with a
  gap in `delivery_attempts`, left by an attempt that was lost or whose INSERT
  failed. The comment is on that case of `Process`, so the property leaves out
  deliveries that a non-retryable answer ended.
* `doc_drained_when_stopped`: the workers may leave jobs in the channel.
* `doc_lease_covers_delivery`: the wait in the channel is not in the lease.
* `doc_sends_finish`: `poolCancel` ends sends that are under way and have time left,
  although the comments have the workers finish them.

The findings in `PROJECT.json` quote the sentences. Smaller disagreements, without
a run: `main.go:152` says that no request comes in any more when the pool is
stopped, but one that outlived the drain may still insert a delivery; 3xx answers
the client does not follow are final, of which the README says nothing. The comment
on `ClaimedDelivery.AttemptCount` (`delivery_repository.go:45`) calls it the count
before the claim, to which the worker adds 1; in fact `ClaimOneReadyPending` adds
the 1 itself (line 122) and the worker takes the number as it is. A claim in the
models has the number after the claim.

## 5. Proofs

All from `StoreAssumption`, `PoolAssumption`, `TimingAssumption`,
`ServerAssumption`, `MetricsAssumption`, `ClockAssumption` and `ApiAssumption`:
the constants are sets and naturals, workers have a host, there is a worker and a
queue, the statements after a send take no longer than their context allows (a
claim takes any time, as a COMMIT has no context), there are finitely many requests and, for the gauges, finitely many workers, and the offsets of the
clocks have a lower bound. Nothing bounds the number of processes, workers, rows,
attempts or mishaps.

1. `PoolTypeProofs`: `TypeInv`, `TypeOK` strengthened by which program counters
   hold a job (`dclaim`, `wjob` are claims exactly then) is inductive. That gives
   `TypeCorrect`. `RoomInv` adds that a dispatcher that has selected or holds a
   claim has room: only its own `Enqueue` fills the channel. That gives
   `SendNeverWaits`, and is also what keeps the channel within its capacity.
2. `PoolClaimProofs`: `AttemptNumbersUnique` is not inductive by itself. A new
   claim is new because its number is one above the row's `attempt_count`, all
   jobs, leases and audit rows have numbers counted there (`AllCounted`), a
   selected row is still at the count it was read with (`RowsKept`: the lock), and
   a job not yet recorded has no audit row (`NotYetAudited`). `UniqueInv` is their
   conjunction with `TypeInv`. Given it, `SoleHolder` follows step by step:
   whoever could change a held row either holds it himself, and then uniqueness
   says there is nobody else, or claims it, which a live lease forbids.
3. `PoolVerdictProofs`: `StatusFollowsReadme` is the step property of
   `SoleHolder`; `OneActiveDelivery` is inductive given it; `VerdictInv`
   strengthens the two verdict properties by what a worker in the middle of
   `Process` has already seen and recorded. With these, `PoolImplementsLifecycle`
   maps each step of the pool to one of `DeliveryLifecycle` or a stutter: a worker
   that decides has its answer in `heard`, and holds a running row or a stale one.
   `AttemptsPaidFor` is not inductive: a mishap is counted before the attempt it
   costs is made. `SpentInv` adds what may still come to the attempts made: a
   claim that is possible without another mishap (`Due`, `DueTwice` for a process
   that is cancelled between SELECT and COMMIT) and the attempts that may still
   end in a retry (`ToRetry`). A claim turns one that is due into one made, a
   retry one to come into one that is due, and only a mishap adds to the sum.
   `AuditGapsPaidFor` is not inductive for the same reason, and because a gap may
   still be filled by a worker after the row is finished. `OwedInv` counts what a
   row lacks: the attempts without audit row, the verdicts that recorded attempts
   still need, and the claims that need neither verdict nor mishap. A claim trades
   one of these for an attempt to be recorded, a record for a verdict, a verdict
   for a claim, and only a mishap adds one (`AuditGapsArePaidFor`).
   `DuplicatesPaidFor` is proved from `HopeInv`, which counts the attempts that are
   recorded as accepted or still in somebody's hands (`Hopeful`) and the claims that
   are due. A claim turns one that is due into a hope; a verdict makes a claim due
   only for a hope that is lost, since a worker whose job is recorded as accepted
   can but write `succeeded` (`RecordedAs`); so these too grow by mishaps alone
   (`DuplicatesArePaidFor`).
   `PoolImplementsLog` maps the first decision of a delivery, or the overrun of its
   lease, to `Settle`, and every other step but an INSERT to a stutter: `FreshInv`
   and `OneActive` give an INSERT its guard. `FinalWhileLeasesHold` and
   `DocumentedWithoutMishaps` say when the sentences of section 4 that do not hold
   in general do hold. Without mishaps any final delivery is fully audited, one
   that ran out of attempts being a special case.
4. `TimingProofs`: `TimingInv` is `PoolTiming`'s `TypeOK` in three parts
   (`TimingTypes`). `PromptInv` ties the age of a job that did not wait to the
   step its worker is in: at most the claim while sending, plus the send while
   writing (`PromptJobsCovered`, under `LeaseHasMargin`). `StopInv` accounts for
   the time since the cancel, for each worker that is still there: it went into
   the jobs that have left the channel since, and at most one more, where a
   transaction under way keeps the place of its job reserved. While the dispatcher
   waits for its COMMIT the time is at most the age of the claim. From it
   follow the time of the workers alone (`WorkersStopInTime`) and that of `Start`
   (`StopsInTime`), the longer of the two. `AgeInv` bounds a waiting job's
   age by the work ahead of it: the places before it in the channel, in rounds of
   the workers (`AgesBounded`). `PaceInv` numbers the jobs under way by the ticks
   since they began, no two alike. If all workers had one, the oldest would be
   `Cardinality(Worker)` ticks old, more than a job lasts under `WorkersKeepUp`; so
   when a claim ends some worker is idle, and no job waits. After the cancel a
   worker may have left, and one job may wait for one update (`LateInv`). With
   `LeaseHasMargin`, and statements that take no longer than a send, every job then
   ends within its lease (`JobsCovered`): that is when the sentence of
   `doc_lease_covers_delivery` holds. The configuration of that run has all but
   `WorkersKeepUp`.
5. `EventApiProofs`: `ApiInv` is `TypeOK`, `RowsInv` (how committed rows hang
   together), `LocksInv` (which locks a transaction holds where it is, and which
   exclude each other) and `SeenInv`: what a transaction saw, no row with its key
   or no active delivery, is still so when it commits. The commit of another could
   break that; then one lock would have two holders, or the gap would be held
   beside an uncommitted pending row. From it a commit is an `Accept` or a
   `ReplayEvent` of `EventLog`, every other step a stutter or a `Settle`
   (`ApiImplementsLog`), and the answers agree (`AnswersDoAgree`). `ChainInv` adds
   that ids are given out in order and that the delivery a replay read as the
   latest is so until it commits; from it the replays of an event form one chain
   (`ReplaysFormChain`). `DeadlocksAreBroken` needs `HoldersInv`, who may hold
   which lock. If nobody can go on, either a replay holds the gap and waits for its
   event's rows, whose holder waits for the gap; or only replays about to insert
   hold the gap, each waits for it, and so two of them wait for each other.
6. `ServerProofs`: `ServerInv` is `ServerTypeOK`, that the pool's stop and
   `main`'s wait have one clock (`Synchronous`), and `RequestsFinish`: a request
   that is still open was accepted before the drain began, so its age is at least
   `mtime`. `VerdictsFinish` then follows from `WorkersStopInTime`.
7. `MetricsProofs`: `CountInv` gives both gauges: for each of the cardinalities in
   them one lemma on what a step does to the set. `FinalsAreRows` is inductive
   given the step property of `SoleHolder`.
8. `ClockProofs`: `WorkInv`, under `LeasesCover`: at most one holder works on the
   delivery and only on a running row (`Alone`), attempts are at most those kept
   and lost (`Counted`), and a working holder's lease outlasts the rest of its job
   (`Leased`). `OutageSurvived` needs `WaitInv`: after `n` attempts, `since`
   together with the wait still to come has reached the gaps between them.

Only model-checked are the liveness properties `EventuallySettled`,
`ShutdownCompletes` and `EventuallyAnswered` (fairness and ENABLED are beyond the
prover).

## 6. Not modelled, and why

* **Configuration.** `Load` is sequential parsing at the start and has no later
  state. What it guarantees (at least one worker and one place in the queue) are
  assumptions of the models. It does not refuse durations of 0 or less: with such
  a poll interval `time.NewTicker` panics, with such a request timeout every
  request fails.
* **Counters of attempts and events, the histogram.** They grow by one where the
  code says so; a property of them would restate that.
* **Reads.** `ListByStatus` and `GetEventDetailByID` change nothing and are not
  used to decide anything.
* **HTTP.** Parsing, validation, JSON, logging, pages and mock endpoints have no
  state that the rest depends on.
* **Connection pool.** `mysql.go` opens it. Statements that wait for a connection
  end with their context, like slow ones.
* **Throughput.** The dispatcher claims one row per tick, so a process delivers at
  most one per poll interval. `PoolTiming` has this, but no property is about
  rates.
* **Tests, scripts.** Not part of the running program.
