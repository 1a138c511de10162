# A TLA+ model of GoFire

GoFire is a job scheduler for Go in the manner of Hangfire: applications enqueue
fire-and-forget or delayed jobs and register recurring (cron) jobs in PostgreSQL, and any
number of server processes poll the tables, lock rows, run handlers in a bounded pool of
goroutines and write the results back. Optionally, enqueued jobs go through RabbitMQ and are
written to the table in batches.

This directory holds the specifications of that core, the TLC configurations that check them on
small instances, and TLAPS proofs of the properties that hold for every size.

## Inventory

| part | state | operations | what is hard |
|---|---|---|---|
| enqueued jobs: `client/enqueue_job_manager.go`, `postgres_enqueued_job_store.go` | rows of `enqueued_jobs` (status, attempts, schedule, lock); per server a batch, a row waiting for the semaphore, workers, a channel of results | `Insert`, `RemoveByID`, `FetchDueJobs`, `LockJob`, `handleJob`, `MarkSuccess`, `MarkFailure`, `MarkRetryFailedJobs`, `UnlockStaleJobs`, shutdown | servers share rows; attempts are read before and written after an execution; results are applied late and unconditionally; locks outlive their server |
| cron jobs: `client/cron_job_manager.go`, `postgres_cron_job_store.go` | rows of `cron_jobs` (status, is_active, next_run_at, expression, lock); per server a page number, a page, workers, results | `AddOrUpdate`, `Activate`, `DeActivate`, `FetchDueCronJobs`, `LockJob`, `executeJob`, `MarkSuccess`, `MarkFailure`, `UpdateJobRunTimes` | two statements per result; pages over changing rows; edits during an execution; locks that nobody releases |
| cron expressions: `pgk/parser/cron_expression_parser.go` | the accepted values of five fields; the position of the search | `ParseCron`, `CalculateNextRun` | boundaries of months, days and hours; time zones; steps |
| queue mode: `message_broaker/rabbitmq.go`, `StartQueueAndStorageSyncWorker` | the broker's queue, deliveries, a channel, a batch | `Publish`, `Consume`, the sync worker, `BulkInsert` | acknowledged before stored; all-or-nothing batches; two goroutines that stop in any order |
| job statuses: `internal/state/statuses.go` | none | `IsValidTransition` | consulted with constants only |
| advisory locks: `internal/lock` | session locks of PostgreSQL, the connections of a pool | `Acquire`, `Release` | a lock belongs to a connection, the pool picks any; a wait that times out closes the connection |
| facade: `client/job_manager.go` | none of its own | `Enqueue`, `Schedule*`, `GracefulExit`, timers | order of the steps of a shutdown |
| container, server, bootstrap: `app`, `gofire`, `jobmanager`, `internal/db`, `postgres_user_store.go` | the tables, the dashboard user, the migration lock, where each process is | start of the goroutines, `Init`, `Create`, `GracefulExit` | processes that start together; a lock that is lost unnoticed; a script that fails half-way |
| dashboard: `web/static/assets/js/scripts.js`, `web/route_handler.go`, the middleware and the templates | cookies, tabs with a page, a dialog and a request, the lists as they were rendered | pages, paging, confirmation, removal, (de)activation, login, logout, messages | pages are stale, tabs share cookies, sessions end, answers are lost, counts and rows are read by two statements |
| configuration: `types/config` | none | a builder of a record | nothing |

The parts meet in the two tables: a client inserts rows, servers update them, the sync worker
inserts rows that the poll loop then finds, the cron manager stores what the expression parser
computes. Within a server, the poll loop hands rows to workers through a semaphore, and workers
hand results to the result processor through a buffered channel. Start-up, the retry ticker and
the stores share one pool of connections, and the dashboard reads and writes the two tables while
the servers work on them.

`PROJECT.json` lists every part, the hazards at the lines where they bite, and for each
definition the source lines that it models.

## Modules

**`JobState`** has the statuses and the transition table of `statuses.go`.

**`EnqueuedJobs`** is the core. Its first five variables are the columns of `enqueued_jobs`
(`due` stands for `scheduled_at <= now()`; `lockedAt` tells whether a lock is absent, fresh or
beyond any timeout), the others the memory of each server. Every SQL statement is one step, and
every step of a server can be interleaved with those of other goroutines and servers, with a
crash and with a cancellation. The correspondence to the code:

| action | code |
|---|---|
| `Insert`, `RemoveByID` | `Enqueue`, `RemoveEnqueue`, the dashboard's delete |
| `NewContainer`, `Start` | the container starts the retry ticker; `Start` starts the result processor and calls `UnlockStaleJobs` |
| `FetchDueJobs`, `LockJob`, `LockJobMisses`, `LockJobFails`, `AcquireWorker` | `processDueJobs`, statement by statement |
| `ExecuteHandler`, `HandlerPanics`, `SendResult` | `handleJob` |
| `ProcessResult`, `DropResult`, `ProcessorStops` | `startResultProcessor` |
| `MarkRetryFailedJobs`, `OvertakenRetry`, `RetryLoopEnds` | the retry ticker: a tick, a tick whose sub-select is stale when a late result has given the row free, and the end of the goroutine |
| `Cancel`, `Exit`, `Crash` | `GracefulExit` and the death of a process |
| `BecomeDue`, `LockAges` | the clock |

A row that was read is kept as a snapshot (`id`, `attempts`), since the code goes on using the
attempts it read. Payloads, names and error texts are abstracted: no handler, a payload that does
not parse and an error of the handler all end as `failed`.

**`JobLifecycle`** is the abstract specification of `EnqueuedJobs`: the life of each job, with
servers, batches, channels and locks left out. `EnqueuedJobs` instantiates it with the two
columns of the same names, and the property `ImplementsLifecycle` says that the table goes
through no other life. It follows the stores, not the table `ValidTransitions`: `Die` (processing
to dead) and `Requeue` (processing to queued) are written by `MarkFailure` and `UnlockStaleJobs`
and are not among the six pairs that the repository lists; a finding records this.

**`CronJobs`** has the same shape for recurring jobs. `next_run_at` is kept as two facts: whether
it has come, and which version of the expression it was computed from. A result is applied by
two steps (`MarkResult`, `UpdateJobRunTimes`), as in the code. The rows of a poll are counted and
selected by two statements; the count is any number, as the table may have changed between them.

**`CronNextRun`** models the parser and the search for the next minute. A field is a set of
tokens, and `TokenValues` gives the values the code accepts for each kind; the search has one
action per branch of the loop. The calendar, the length of days and hours, and the local time at
which a day of UTC begins are parameters. `Accepts` is the reference: what each field means as
written, independent of the parser. How the fields are combined is taken from the code: a day must be
accepted by the day of month and by the weekday, where cron asks for either when both are restricted.

**`QueueSync`** follows a message from `Publish` through the broker, the client library, the
forwarding goroutine, its channel and the batch to a row. Places are sets, because nothing
depends on the order of messages. The broker is external: it delivers and forgets (autoAck), and
it goes on delivering to a connection whose consumer no longer reads. `Publish` asks for neither
persistence nor a confirmation, so `BrokerRestarts` empties the queue and breaks every connection.

**`JobDelivery`** is the abstract specification of `QueueSync`: a message is new, pending, stored or
lost; a batch is stored as a whole and without a refused message; stored and lost are final. The
refinement mapping `Delivered` computes the state of a message from where it is in the pipeline:
a message is lost when no goroutine will come to it any more.

**`AdvisoryLock`** has the session-level advisory locks of PostgreSQL as `Acquire` and `Release` use
them: a lock is held by a pair of a process and a connection, and counted. **`Bootstrap`** extends
it with `jobmanager.New` and with the retry ticker, which shares its pool.

| action | code |
|---|---|
| `NewContainer` | the container, whose scheduler starts the ticker before anything is migrated |
| `AcquireMigration`, `MigrationGranted`, `AcquireTimeout`, `AcquireError`, `ReleaseMigration` | the lock in `db.Init` |
| `Migrate`, `MigrateError` | the statements of `db.Init`, on a pool of its own |
| `NoAdminConfigured`, `FindByUsername`, `DeleteUser`, `DeleteError`, `InsertUser`, `CreateError` | `createDashboardAdminIfConfigured` and `Create`, whose `DELETE` fails unseen, or keeps its connection (`kept`) because its row is never scanned |
| `RetryTick`, `RetryGranted`, `RetryTimeout`, `RetryError`, `RetryRelease` | `MarkRetryFailedJobs` |
| `GracefulExit`, `Exit`, `ConnectionBreaks` | the ends of pools, processes and connections |

Which connection serves a statement is any that is free, as the pool decides; a statement that
waits for a lock and is given up after five seconds has its connection closed (`Lose`). Whether a
process has a dashboard user in its configuration is a choice of every start. `broken`, `promised` and
`unborn` are history variables of the properties.

**`Dashboard`** models the tabs of a browser that run `scripts.js`, the cookies they share, and the
HTTP handlers. `Title`, `goToPage`, `Attached`, `Click`, `Answer`, `Load` and `getCookie` are the
script; `authMiddleware`, `handleDashboardAction`, `handleChangeCronJobStatus`, `handleIndex`,
`handleCharts`, `handleLogin`, `handleLogout` and the pair `CountRows`, `SelectRows` the handlers. A
request is sent with the cookies of that moment and served by a later step; the job servers and
other operators change the tables in between (`OthersChangeRow`, `OthersChangeActive`). A page
parameter is the number it begins with and whether something follows, because `parseInt` and
`strconv.ParseInt` differ there. `/enqueued` reads its action with `r.FormValue` from any request, so an
address may carry a form (`VisitAction`); `/` stands for every unknown path of the top level and `nested`
for the deeper ones, from which the relative redirect of `handleIndex` never leaves. `consent`, `owed`
and `astray` are history variables: what the operator asked for and whether a dialog was confirmed,
whether an accepted action still has to be announced, and whether a chain of redirects began at a
`nested` path.

The `MC*` modules instantiate these for TLC. The modules `EnqueuedJobsProofs`, `QueueSyncProofs`,
`CronJobsProofs`, `CronNextRunProofs`, `BootstrapProofs` and `DashboardProofs` hold the proofs about
the module of the same name; `OneServerProofs` extends `EnqueuedJobsProofs` with what holds while
there is one server, and `QueueDeliveryProofs` extends `QueueSyncProofs` with the refinement of
`JobDelivery`. Definitions with a name such as `TakeLock_NoStamp` are
slips: plausible errors in the definition that follows them, with which the corresponding
property fails.

## Runs

| run | what it shows |
|---|---|
| `enqueued_one_server` | two jobs, two workers, a channel of one result, two starts, one fault. A job is in one pair of hands from lock to result; an exhausted job is dead; the table refines `JobLifecycle`. Under fairness, `Completion` while the server and its ticker stay up and no statement fails, and `ShutdownCompletes` where the channel has room for what the workers still have to send; in the other states TLC finds a shutdown that hangs. |
| `enqueued_two_servers` | two servers with two workers each, three starts, one fault. `UnlockStaleJobs` lets a job be executed twice at a time here, so the properties are those that must survive it: memory is never ahead of the row, no job dies early, each start costs a job at most one failure beyond the limit, a lock has a stamp, and without faults a holder. `EarlyStartIsStale`: a job starts before its time only from a row that was read before its last failure. |
| `enqueued_exhausted` | violation, see below. |
| `cron_servers` | two jobs, two servers, pages of one row. Executions of a job never overlap; an execution owns its row; only the end of a server or a failing statement orphans a lock. |
| `cron_liveness` | one server, two edits, a fault, a restart: a due job runs, and a changed expression takes effect in the end. |
| `cron_lock_ttl`, `cron_due` | violations, see below. |
| `queue_sync` | two ordinary messages, one the table refuses and one that does not parse; channel of one, batches of two, two starts, one fault, which may be a restart of the broker. At most one row per message, losses only by failure, nothing stays under way; the pipeline refines `JobDelivery`. |
| `cron_next_run` | all expressions of a small grammar, five starting times, a calendar of two months. The next run is later than now, nothing is skipped, what is found is what the expression means, and the search gives up only when a year has no match. |
| `dashboard` | two tabs, two enqueued jobs and a cron job, pages of one row, a filter, the typed pages 3 and `2abc`; addresses that carry a form; four actions of the operator and one event (a change by others, an error or a lost answer). A request does what the operator asked for in its tab, by a confirmed form or by an address; an action that `/enqueued` accepted is announced once; the pager and the server agree about pages; no page is a dead end; redirects end after two, unless they begin below an unknown directory. |
| `bootstrap` | two processes, pools of two connections, a schema and one script, two starts, one fault. Only the loss of the migration lock during a migration lets two processes migrate together; no process goes on without its tables; the dashboard user stays; a closed pool holds no lock but on the connection that `Create` has kept; `New` returns. |
| `retry_lock` | violation, see below. |

### What the violations show

- `enqueued_exhausted`: `UnlockStaleJobs` ignores its timeout, so the start of a second server
  puts a job that is running back in the queue. Both executions then report the attempts they
  read; the row ends with all attempts used and status `failed`, which no ticker and no poll
  selects again. The README says that such a job is `dead`.
- `cron_lock_ttl`: a comment says that a row in `processing` becomes due again after 60 minutes.
  It is selected again, but `LockJob` refuses it: after the death of a server during an execution
  the cron job never runs again.
- `cron_due`: `AND` binds stronger than `OR`, so a new job (status `queued`) is executed by the
  next poll whatever its schedule and its `is_active` say.
- `retry_lock`: the lock of the retry ticker is taken and released by two statements on a pool. When
  the release goes over another connection, PostgreSQL only warns and `Release` reports nothing;
  the next `Acquire` on such a connection waits for a lock its own process holds, gives up after five
  seconds, and the goroutine returns. Without any fault, and with one process, failed jobs are then
  never retried.

Further disagreements are listed in `PROJECT.json` without a run of their own. Two of them can be
reproduced by changing one line of `cron_next_run.cfg`:

- `ZoneHour = 1`: `Truncate(24 * time.Hour)` cuts at midnight of UTC. Where local time differs, a
  search that has skipped a day or a month goes on at the wrong local hour and `NothingSkipped` fails.
- `Exprs <- RangeStepExprs`: in `a-b/k` the end of the range is assigned to a shadowing variable, so
  the field is empty (or `{0}` when `a` is 0), the job runs hourly by the fallback, and
  `YearIsSearched` fails.

Those of the enqueued jobs and the queue:

- With two servers a retry can begin before its minute is over: `LockJob` looks at the status, not at
  `scheduled_at`. The strict property (no execution before its time) is false there, and with one
  server it says little; `EarlyStartIsStale` is what remains.
- `MarkRetryFailedJobs` selects its rows in a sub-select, which PostgreSQL does not evaluate again for a
  row it had to wait for: a row that has left `failed` meanwhile is set to `retrying` all the same
  (`OvertakenRetry`). A job that has succeeded, or has no attempts left, is then executed once more.
- `ValidTransitions` lists neither processing to dead nor processing to queued.
- A graceful shutdown hangs when the result channel has less room than the workers have results to send.
- Messages are transient in a durable queue.

Those of the dashboard: after a warning the script deletes the wrong cookie (`scripts.js:97`), so a
failed login is announced again for five seconds; `Activate` and `DeActivate` are announced as a
success whatever they return, and an unknown action as a removal, which is why `SuccessIsReal` speaks
of actions that `/enqueued` accepted; `confirmButtonText` is ignored; a `GET` of
`/enqueued?action=remove&id=N` removes a row without a dialog; and a signed-in request below an unknown
directory is redirected for ever.

### Bounds

`MaxStarts`, `MaxFaults` and `MaxEdits` bound how often processes start, statements fail and
clients edit; everything else is finite by the sizes of the sets. Two or three starts allow a
crash and a restart, or a second server that joins while the first one works, which is where the
protocols can go wrong; one fault allows each single error path. `MaxRetryAttempt` is 3 as in the code
where one server is checked and 2 with two servers. In `Dashboard`, `MaxClicks` and `MaxEvents` bound
what the operator and the environment do: four actions suffice to open a list in two tabs, or to
confirm a form in one and open an address with the same form in the other. `MaxHops` is the patience of
the browser; at 3 a chain that would not end after two redirects is seen. `TypedForms` has a removal, a
change of status and an unknown action. In `Bootstrap`, `MaxDepth` bounds how often a
session takes the same lock; two connections are the fewest for which a release can miss. A batch of one with two jobs makes pages
matter, a channel of one (`ResultCap`) makes workers wait
for the processor, also while the server shuts down. In `CronNextRun` the year has thirty minutes and
`MaxIter` is that number, as 525600 is in the code; `LastDay` is far beyond where thirty rounds
lead. Deadlock is not checked: once the starts are used up and all servers are down, the system
may stop.

### Fairness

Goroutines are scheduled, statements and handlers return, and the clock advances: weak fairness
of the poll loop, of each worker, of the result processor, of the retry ticker, of the exit after
the last worker, and of the clock. A select with several ready cases takes each of them in the
end. In `Bootstrap`, start-up goes on when it can, and its wait for the lock ends, granted or after the
five seconds of its context; nothing is assumed of the ticker. No fairness is assumed of clients, starts,
cancellations, crashes or faults. `Completion` assumes that some server and its retry ticker stay up and
that no fault happens. The ticker has to be assumed: `RetryLoopEnds` needs no fault, as `retry_lock` shows,
and a ticker that has ended, like a result that is dropped, is made good by the next start only. `RunsWhenDue` and `ScheduleConverges` also that no lock is
orphaned, because nothing would release it. `ShutdownCompletes` needs a channel with room for
the results that workers have not sent yet, beside those that are in it already (it has 1000 places):
a worker that finishes after the result processor has returned must not block. The handler that never returns is excluded by fairness.

## Proofs

Every invariant but `FailuresBounded`, every action property and both refinements of the passing runs
are theorems. They
hold for all sets of jobs, servers, workers, messages, processes, connections and tabs and for all
bounds, from the assumptions named in the modules: sizes are positive, `None` is not an element of
the sets, messages and rows are finitely many, a day of the calendar lies in one month and its
numbers are within the limits of the fields, expressions are made of the tokens of the grammar.
Only the hypotheses stated in a theorem come on top: one server in `OneServerProofs`, the zone and
the kind of expression in two theorems of `CronNextRunProofs`.

*Enqueued jobs, any number of servers.* `TypeCorrect` is inductive by itself. The others come from
`IndInv == TypeOK /\ SnapshotsNotAhead /\ RowsInv /\ LockHasHolder`. `DeadOnlyAfterMaxAttempts`
is not inductive: `MarkFailure` compares a number computed from a snapshot, so the proof needs
`SnapshotsNotAhead`, that no snapshot is ahead of its row. This in turn rests on the counter of a row
never decreasing. `EarlyOnlyWhenStale` rests on an invariant about batches: a row of a batch whose job is
not due any more carries fewer attempts than the row has, because only the ticker takes a time back and
only after a counted failure. `LockHasHolder`
has a lemma for each part of a server's memory (how a step can change it), and is then proved by
cases on who holds the job.

*Enqueued jobs, one server* (`OneServerProofs`). The hypothesis `OneServer` says that any two
servers are the same; crashes, restarts, cancellations and faults are all allowed. `SingleExecution`,
`ExhaustedIsDead` and the refinement of `JobLifecycle` are far from inductive: they
depend on what the server believes of the rows it has read. `OneServerInv` says what it may believe:

- `MemoryEmpty`: a process that is down, or has not called `Start`, has nothing in memory. This is
  why `UnlockStaleJobs` at a start, which ignores its timeout, takes no job out of a hand.
- `OnePlace`: a job is in at most one of the places of a server (waiting for the semaphore, a worker,
  a result in the channel).
- `HandExact`: a job in one of them is `processing` or was removed, and the attempts of the snapshot
  are exactly those of the row. `SnapshotsNotAhead` is not enough here: a snapshot that is behind
  makes `MarkFailure` write a number that is too small and `failed` instead of `dead`.
- `BatchExact`: a row of the batch is still due and lockable with the attempts that were read, or was
  removed, as long as `LockJob` has not come to it.
- `LivingHaveAttempts`: a job that may run again, or has succeeded, has attempts left.

Each action then maps to one step of `JobLifecycle` or to a stutter. With a second server
`HandExact` fails, and `enqueued_exhausted` shows what comes of it.

*Queue mode.* `BoundsHold` adds `BatchHasRoom`: a worker that is in its select has a batch that
is not full. `AtMostOneRow` adds `PublishedFirst`: what is stored or in memory has been
published, so a new message has no copy anywhere. `QueueModeDelivers` is the refinement of
`JobDelivery`. The mapping calls a message lost when no goroutine will come to it any more, so the
proof has to show that no later step finds it after all (`NothingReturns`, `LossIsFinal`). For that
it needs `PipeWiring`: a process that is off has an empty memory, a message in a hand has a
goroutine around it, the stream is read until the context is cancelled, and a worker that leaves its
loop unasked has found the channel closed and empty. `LossIsExplained` follows from the same
invariant, by cases on the steps that can lose a message.

*Cron jobs.* `NoOverlap` and `ExecutionOwnsRow` are inductive together and not alone: `LockJob`
finds a row that is not `processing`, and only by `ExecutionOwnsRow` is nobody executing it; a result
may change the row because by `NoOverlap` it is the only one. `LocksNotOrphaned` needs the types
only: each step of polling, executing and reporting hands the job on or writes its result.

*Cron expressions.* `NextRunIsLater` holds in every zone: `Truncate` may take the search back by hours,
but a later day cut at a day of UTC is still later than the moment it was counted from (`TruncateLater`). `FirstMatchInUTC` assumes that a day of
UTC begins at local midnight, and shows that each kind of skip leaves out only minutes that no
field combination accepts; for months it uses that the days up to `NextMonth` lie in one month.
`FoundTimesAreAccepted` is the soundness of the parser, in every zone: lemmas for tokens, parts and
fields show that the values the code collects are among those the expression means as written
(for `a-b/k` the code collects too few, never a wrong one), and `ParsedInv` carries this through the
loop. `WholeYearInUTC` is its completeness together with the bound of the loop: for expressions
without `a-b/k` nothing that is meant is left out (`AcceptedIsMatch`), and each round gains at least one
minute (`Progress`), so that `MaxIter` rounds cover a year. TLC shows that both hypotheses are needed
(see above).

*Locks and bootstrap.* The operations of `AdvisoryLock` have lemmas of their own. Types need
`WaitersHaveConn`: a connection is reserved exactly while a statement waits on it. `OneMigrator` comes
from `MigratorHolds`: whoever migrates holds the lock on one of its connections, unless somebody lost
it while migrating; a lock has one holder. `TablesComplete` adds that what a process has executed
is in the database (`StepsDone`). `AdminPresent` is inductive with the types. `NoLockLeft` needs
`ClosedPool`: after `GracefulExit` only the connection on which the ticker still waits, and the one
that `Create` has kept, can hold a lock.

*Dashboard.* `RemovalIsAnnouncedOnce` is inductive with the types. The two theorems about the
links of lists rest on `ListOnDisplay`: a list is the page its address asks for, with the links that
the server computed for that page, and a lemma about rounding up in `TotalPages`. The last
two rest on `RequestsTraced`: each path has a limit of the redirects that can lead to it, a request
with a form is the first of its chain, and its form is the one that was confirmed in its tab or that
its address carries, sent to the route of its action; `AskedOnly` and `RedirectChainsEnd` follow.

### Only model-checked

Liveness under fairness (`Completion`, `ShutdownCompletes`, `RunsWhenDue`, `ScheduleConverges`,
`Settles`, `StartupReturns`) is out of the reach of the prover, and so is the fairness of the
specifications: the refinements are of the safety parts, as `JobLifecycle` and `JobDelivery` state no
fairness. `FailuresBounded` counts the copies of a job that starts have made, over a sum;
it has not been proved. The violations are behaviours of small instances, found by TLC.

## Not modelled

- The script of the charts page (it polls two counts and draws them) and the vendored `chart.js` and
  `sweetalert2`; of the latter only the popup and how it is closed.
- The bytes of tokens, cookies and passwords, badges, icons and the wording of messages. An
  address an operator types carries a page, or a form; not both.
- The error paths of `NewRabbitMQ`: a container that cannot be built starts nothing.
- Connections that stay in use because a context outlives them, but for the one of `Create`.
- The timer loop of `ScheduleInvokeWithTimer` and `ScheduleFuncWithTimer`: it keeps no state and shares
  none; what it waits for is the result of `CalculateNextRun`.
- `ExecuteJobManually`: it cannot get past `FindByID`, which scans before `rows.Next`.
- `UnLockJob` of cron jobs, which has no caller.
- Redis: the driver is refused when the container is built.

- `QueueSync` and `EnqueuedJobs` are not composed: they meet in the insertion of a row, which is the
  last step of the one and the action `Insert` of the other; the job that `BulkInsert` writes is
  queued with no attempts, like that of `Insert`.

## Plan

Done: all modules above, and the proofs of every safety property that a passing run checks, except `FailuresBounded`. What
would add most next:

1. For two servers, what remains of the abstract specification of `EnqueuedJobs`: a weaker
   `JobLifecycle` in which a running job may be put back in the queue, and its refinement without the
   hypothesis of one server.
2. The composition of `QueueSync` with `EnqueuedJobs`, so that a published job is followed to the end of
   its execution.
3. The timer loops of `ScheduleInvokeWithTimer` and `ScheduleFuncWithTimer`.
