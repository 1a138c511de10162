---------------------------- MODULE EnqueuedJobs ----------------------------
(***************************************************************************)
(* The enqueued (fire-and-forget and delayed) jobs of GoFire: the table    *)
(* enqueued_jobs, and on every server the poll loop, the worker goroutines *)
(* bounded by a semaphore, the buffered channel of results, the result     *)
(* processor and the ticker that puts failed jobs back on schedule.        *)
(*                                                                         *)
(* Every SQL statement is one step.  Whatever a server does between two    *)
(* statements can be interleaved with any other goroutine, server, crash   *)
(* or cancellation.  A row that was read is kept as a snapshot, because    *)
(* the code goes on using the attempts it read.  The one statement that    *)
(* takes its rows from a sub-select, the ticker's, can in addition be      *)
(* overtaken by another statement (OvertakenRetry).                        *)
(***************************************************************************)
EXTENDS JobState, Integers, Sequences, FiniteSets

CONSTANTS
    Jobs,             \* ids of the rows of enqueued_jobs
    Servers,          \* processes that build a container, each its own instance name
    Workers,          \* the slots of the semaphore: WorkerCount of them
    BatchSize,        \* BatchSize of the configuration
    ResultCap,        \* capacity of the channel jobResults
    MaxRetryAttempt,  \* constants.MaxRetryAttempt
    None,             \* no job, no server (a NULL column)
    MaxStarts,        \* bound: how often a process is started, all together
    MaxFaults         \* bound: how many store errors, panics and the like occur

ASSUME NoneAssumption == None \notin Jobs /\ None \notin Servers
ASSUME SizeAssumption ==
    /\ BatchSize \in Nat \ {0}
    /\ ResultCap \in Nat \ {0}
    /\ MaxRetryAttempt \in Nat \ {0}
ASSUME BoundAssumption == MaxStarts \in Nat /\ MaxFaults \in Nat

VARIABLES
    \* The table enqueued_jobs.
    status,     \* a status, or "unborn" before the insert, "removed" after the delete
    attempts,   \* attempts
    due,        \* scheduled_at <= now()
    lockedBy,   \* locked_by
    lockedAt,   \* locked_at: "null", "fresh" (a moment ago) or "old" (beyond any timeout)
    \* The memory of each server.
    pc,         \* "down", "booted" (container built, as in a client), "up" (polling),
                \* "draining" (context cancelled, waiting for the workers)
    batch,      \* rows read by FetchDueJobs and not yet tried
    held,       \* the row that is locked and waits for the semaphore
    worker,     \* what the goroutine on each slot of the semaphore does
    results,    \* the channel jobResults
    procUp,     \* the result processor runs
    retryUp,    \* the goroutine MarkRetryFailedJobs runs
    \* Bounds.
    starts, faults

rows == <<status, attempts, due, lockedBy, lockedAt>>
memory == <<pc, batch, held, worker, results, procUp, retryUp>>
vars == <<rows, memory, starts, faults>>
-----------------------------------------------------------------------------
NoJob == [id |-> None, attempts |-> 0]
IdleSlot == [id |-> None, attempts |-> 0, phase |-> "idle"]

Snapshots == [id : Jobs, attempts : Nat]
Slots == [id : Jobs, attempts : Nat, phase : {"running", "succeeded", "failed"}]
            \cup {IdleSlot}
Reports == [id : Jobs, attempts : Nat, status : {"succeeded", "failed"}]

Exists(j) == status[j] \notin {"unborn", "removed"}

\* Slip: the comparison with scheduled_at is left out.
DueJobs_AnySchedule == {j \in Jobs : status[j] \in {"queued", "retrying"}}

\* The rows FetchDueJobs selects when the poll loop calls it.
DueJobs == {j \in Jobs : due[j] /\ status[j] \in {"queued", "retrying"}}

Init ==
    /\ status = [j \in Jobs |-> "unborn"]
    /\ attempts = [j \in Jobs |-> 0]
    /\ due = [j \in Jobs |-> FALSE]
    /\ lockedBy = [j \in Jobs |-> None]
    /\ lockedAt = [j \in Jobs |-> "null"]
    /\ pc = [s \in Servers |-> "down"]
    /\ batch = [s \in Servers |-> {}]
    /\ held = [s \in Servers |-> NoJob]
    /\ worker = [s \in Servers |-> [w \in Workers |-> IdleSlot]]
    /\ results = [s \in Servers |-> <<>>]
    /\ procUp = [s \in Servers |-> FALSE]
    /\ retryUp = [s \in Servers |-> FALSE]
    /\ starts = 0
    /\ faults = 0

\* One more failure of the environment happens in this step.
Fault == faults < MaxFaults /\ faults' = faults + 1
-----------------------------------------------------------------------------
(* Clients of the table, and time.                                         *)

\* Enqueue: one new row, due at once or scheduled for later.
Insert(j) ==
    /\ status[j] = "unborn"
    /\ status' = [status EXCEPT ![j] = "queued"]
    /\ \E d \in BOOLEAN : due' = [due EXCEPT ![j] = d]
    /\ UNCHANGED <<attempts, lockedBy, lockedAt, memory, starts, faults>>

\* RemoveEnqueue: the row goes whatever its status is.
RemoveByID(j) ==
    /\ Exists(j)
    /\ status' = [status EXCEPT ![j] = "removed"]
    /\ due' = [due EXCEPT ![j] = FALSE]
    /\ lockedBy' = [lockedBy EXCEPT ![j] = None]
    /\ lockedAt' = [lockedAt EXCEPT ![j] = "null"]
    /\ UNCHANGED <<attempts, memory, starts, faults>>

\* now() passes scheduled_at.
BecomeDue(j) ==
    /\ status[j] \in {"queued", "retrying"} /\ ~due[j]
    /\ due' = [due EXCEPT ![j] = TRUE]
    /\ UNCHANGED <<status, attempts, lockedBy, lockedAt, memory, starts, faults>>

\* now() passes locked_at plus every timeout the code mentions.
LockAges(j) ==
    /\ status[j] = "processing" /\ lockedAt[j] = "fresh"
    /\ lockedAt' = [lockedAt EXCEPT ![j] = "old"]
    /\ UNCHANGED <<status, attempts, due, lockedBy, memory, starts, faults>>
-----------------------------------------------------------------------------
(* The life of a server.                                                   *)

\* The WHERE clause of UnlockStaleJobs: locked_at <= NOW() holds of every
\* locked row, and the timeout that is passed is not used.  The slip honours
\* it, and a server that comes back quickly does not release its own locks.
Stale_Timeout(j) == status[j] = "processing" /\ lockedAt[j] = "old"
Stale(j) == status[j] = "processing" /\ lockedAt[j] # "null"

UnlockStaleJobs ==
    /\ status' = [j \in Jobs |-> IF Stale(j) THEN "queued" ELSE status[j]]
    /\ lockedBy' = [j \in Jobs |-> IF Stale(j) THEN None ELSE lockedBy[j]]
    /\ lockedAt' = [j \in Jobs |-> IF Stale(j) THEN "null" ELSE lockedAt[j]]
    /\ UNCHANGED <<attempts, due>>

\* The container starts the retry goroutine, in a server and in a process
\* that only enqueues alike.
NewContainer(s) ==
    /\ pc[s] = "down" /\ starts < MaxStarts
    /\ starts' = starts + 1
    /\ pc' = [pc EXCEPT ![s] = "booted"]
    /\ retryUp' = [retryUp EXCEPT ![s] = TRUE]
    /\ UNCHANGED <<rows, batch, held, worker, results, procUp, faults>>

\* AddServer: the result processor starts and the rows are unlocked before
\* the first poll.
Start(s) ==
    /\ pc[s] = "booted"
    /\ pc' = [pc EXCEPT ![s] = "up"]
    /\ procUp' = [procUp EXCEPT ![s] = TRUE]
    /\ UnlockStaleJobs
    /\ UNCHANGED <<batch, held, worker, results, retryUp, starts, faults>>

\* The context is cancelled.  From here on every statement of the poll loop
\* fails, and so does the wait for the semaphore: the rest of the batch is
\* dropped, and a row that is locked but not yet handed over stays locked.
Cancel(s) ==
    /\ pc[s] = "up"
    /\ pc' = [pc EXCEPT ![s] = "draining"]
    /\ batch' = [batch EXCEPT ![s] = {}]
    /\ held' = [held EXCEPT ![s] = NoJob]
    /\ UNCHANGED <<rows, worker, results, procUp, retryUp, starts, faults>>

\* The result processor sees ctx.Done() and returns.
ProcessorStops(s) ==
    /\ pc[s] = "draining" /\ procUp[s]
    /\ procUp' = [procUp EXCEPT ![s] = FALSE]
    /\ UNCHANGED <<rows, pc, batch, held, worker, results, retryUp, starts, faults>>

\* The process is gone, and with it all it had in memory.
Forget(s) ==
    /\ pc' = [pc EXCEPT ![s] = "down"]
    /\ batch' = [batch EXCEPT ![s] = {}]
    /\ held' = [held EXCEPT ![s] = NoJob]
    /\ worker' = [worker EXCEPT ![s] = [w \in Workers |-> IdleSlot]]
    /\ results' = [results EXCEPT ![s] = <<>>]
    /\ procUp' = [procUp EXCEPT ![s] = FALSE]
    /\ retryUp' = [retryUp EXCEPT ![s] = FALSE]

\* wg.Wait() returns when the last worker has left, GracefulExit closes the
\* stores and the process ends; results still in the channel are discarded.
Exit(s) ==
    /\ pc[s] = "draining"
    /\ \A w \in Workers : worker[s][w] = IdleSlot
    /\ Forget(s)
    /\ UNCHANGED <<rows, starts, faults>>

Crash(s) ==
    /\ pc[s] # "down"
    /\ Forget(s)
    /\ UNCHANGED <<rows, starts, faults>>
-----------------------------------------------------------------------------
(* The poll loop: processDueJobs.                                          *)

\* A page of due rows.  ORDER BY scheduled_at is abstracted: any BatchSize of
\* the due rows may be the earliest, and they may be tried in any order.  A
\* query that fails changes nothing and is repeated.
FetchDueJobs(s) ==
    /\ pc[s] = "up" /\ batch[s] = {} /\ held[s] = NoJob
    /\ \E page \in SUBSET DueJobs :
          /\ page # {}
          /\ IF Cardinality(DueJobs) <= BatchSize
                THEN page = DueJobs ELSE Cardinality(page) = BatchSize
          /\ batch' = [batch EXCEPT ![s] =
                         {[id |-> j, attempts |-> attempts[j]] : j \in page}]
    /\ UNCHANGED <<rows, pc, held, worker, results, procUp, retryUp, starts, faults>>

\* The WHERE clause of LockJob: the status only, not the schedule.
Lockable(j) == status[j] \in {"queued", "retrying"}

\* Slip: the row is stamped but keeps its status.
TakeLock_KeepsStatus(s, j) ==
    /\ lockedBy' = [lockedBy EXCEPT ![j] = s]
    /\ lockedAt' = [lockedAt EXCEPT ![j] = "fresh"]
    /\ UNCHANGED <<status, attempts, due>>

\* Slip: locked_at is not written.
TakeLock_NoStamp(s, j) ==
    /\ status' = [status EXCEPT ![j] = "processing"]
    /\ lockedBy' = [lockedBy EXCEPT ![j] = s]
    /\ UNCHANGED <<attempts, due, lockedAt>>

\* The UPDATE of LockJob.
TakeLock(s, j) ==
    /\ status' = [status EXCEPT ![j] = "processing"]
    /\ lockedBy' = [lockedBy EXCEPT ![j] = s]
    /\ lockedAt' = [lockedAt EXCEPT ![j] = "fresh"]
    /\ UNCHANGED <<attempts, due>>

\* The next row of the batch is locked and will be handed to a worker.
LockJob(s, x) ==
    /\ x \in batch[s] /\ held[s] = NoJob
    /\ Lockable(x.id)
    /\ TakeLock(s, x.id)
    /\ batch' = [batch EXCEPT ![s] = @ \ {x}]
    /\ held' = [held EXCEPT ![s] = x]
    /\ UNCHANGED <<pc, worker, results, procUp, retryUp, starts, faults>>

\* No row matched: someone else locked, finished or removed the job.
LockJobMisses(s, x) ==
    /\ x \in batch[s] /\ held[s] = NoJob
    /\ ~Lockable(x.id)
    /\ batch' = [batch EXCEPT ![s] = @ \ {x}]
    /\ UNCHANGED <<rows, pc, held, worker, results, procUp, retryUp, starts, faults>>

\* The statement reports an error, after the update or without it: the job
\* is skipped either way.
LockJobFails(s, x) ==
    /\ x \in batch[s] /\ held[s] = NoJob
    /\ Fault
    /\ \/ Lockable(x.id) /\ TakeLock(s, x.id)
       \/ UNCHANGED rows
    /\ batch' = [batch EXCEPT ![s] = @ \ {x}]
    /\ UNCHANGED <<pc, held, worker, results, procUp, retryUp, starts>>

\* Slip: when the semaphore is not free at once, the locked job is skipped.
AcquireWorker_Skips(s, w) ==
    /\ held[s] # NoJob
    /\ held' = [held EXCEPT ![s] = NoJob]
    /\ UNCHANGED <<rows, pc, batch, worker, results, procUp, retryUp, starts, faults>>

\* sem.Acquire succeeds and the goroutine handleJob is started.
AcquireWorker(s, w) ==
    /\ held[s] # NoJob
    /\ worker[s][w] = IdleSlot
    /\ worker' = [worker EXCEPT ![s][w] =
                    [id |-> held[s].id, attempts |-> held[s].attempts, phase |-> "running"]]
    /\ held' = [held EXCEPT ![s] = NoJob]
    /\ UNCHANGED <<rows, pc, batch, results, procUp, retryUp, starts, faults>>
-----------------------------------------------------------------------------
(* The workers: handleJob.  They do not look at the context.               *)

\* The handler returns, with an error or without one.  A handler that is not
\* registered and a payload that does not parse count as an error.
ExecuteHandler(s, w) ==
    /\ worker[s][w].phase = "running"
    /\ \E outcome \in {"succeeded", "failed"} :
          worker' = [worker EXCEPT ![s][w].phase = outcome]
    /\ UNCHANGED <<rows, pc, batch, held, results, procUp, retryUp, starts, faults>>

\* A free place in the channel; the slip treats it as unbounded.
HasRoom_Unbounded(s) == TRUE
HasRoom(s) == Len(results[s]) < ResultCap

\* What a worker reports; the slip counts the execution twice.
Report_CountsTwice(x) == [id |-> x.id, attempts |-> x.attempts + 2, status |-> x.phase]
Report(x) == [id |-> x.id, attempts |-> x.attempts + 1, status |-> x.phase]

\* The deferred sem.Release(1) and wg.Done(); the slip leaves them out.
ReleaseSlot_Missing(s, w) == worker' = [worker EXCEPT ![s][w].phase = "idle"]
ReleaseSlot(s, w) == worker' = [worker EXCEPT ![s][w] = IdleSlot]

\* The handler panics: recover() frees the slot, and nothing is reported.
HandlerPanics(s, w) ==
    /\ worker[s][w].phase = "running"
    /\ Fault
    /\ ReleaseSlot(s, w)
    /\ UNCHANGED <<rows, pc, batch, held, results, procUp, retryUp, starts>>

\* The result is put into the channel as soon as there is room.
SendResult(s, w) ==
    /\ worker[s][w].phase \in {"succeeded", "failed"}
    /\ HasRoom(s)
    /\ results' = [results EXCEPT ![s] = Append(@, Report(worker[s][w]))]
    /\ ReleaseSlot(s, w)
    /\ UNCHANGED <<rows, pc, batch, held, procUp, retryUp, starts, faults>>
-----------------------------------------------------------------------------
(* The result processor and the retry ticker.                              *)

\* An UPDATE by id: no guard on the status, no effect on a deleted row.
MarkSuccess(j) ==
    /\ status' = IF Exists(j) THEN [status EXCEPT ![j] = "succeeded"] ELSE status
    /\ UNCHANGED <<attempts, due, lockedBy, lockedAt>>

\* The status MarkFailure writes, and two slips of it: the attempt counted
\* twice, and the comparison with the attempts before this one.
FailureStatus_Early(tries) == IF tries + 1 >= MaxRetryAttempt THEN "dead" ELSE "failed"
FailureStatus_Late(tries) == IF tries > MaxRetryAttempt THEN "dead" ELSE "failed"
FailureStatus(tries) == IF tries >= MaxRetryAttempt THEN "dead" ELSE "failed"

\* tries is the number the worker computed from its snapshot; the row's own
\* counter is incremented by the statement.
MarkFailure(j, tries) ==
    /\ status' = IF Exists(j) THEN [status EXCEPT ![j] = FailureStatus(tries)] ELSE status
    /\ attempts' = IF Exists(j) THEN [attempts EXCEPT ![j] = @ + 1] ELSE attempts
    /\ UNCHANGED <<due, lockedBy, lockedAt>>

ProcessResult(s) ==
    /\ pc[s] = "up" /\ procUp[s] /\ results[s] # <<>>
    /\ LET res == Head(results[s]) IN
          /\ IsValidTransition("processing", res.status)
          /\ \/ res.status = "succeeded" /\ MarkSuccess(res.id)
             \/ res.status = "failed" /\ MarkFailure(res.id, res.attempts)
    /\ results' = [results EXCEPT ![s] = Tail(@)]
    /\ UNCHANGED <<pc, batch, held, worker, procUp, retryUp, starts, faults>>

\* The statement fails (it always does once the context is cancelled); the
\* error is logged and the result is gone.
DropResult(s) ==
    /\ procUp[s] /\ results[s] # <<>>
    /\ \/ pc[s] = "draining" /\ UNCHANGED faults
       \/ pc[s] = "up" /\ Fault
    /\ results' = [results EXCEPT ![s] = Tail(@)]
    /\ UNCHANGED <<rows, pc, batch, held, worker, procUp, retryUp, starts>>

\* Slip: the test lets dead rows through.
Retryable_Dead(j) == status[j] \in {"failed", "dead"}

\* The rows the ticker puts back on schedule.
Retryable(j) == status[j] = "failed" /\ attempts[j] < MaxRetryAttempt

\* The SET clause, for the rows of the sub-select: in one minute from now.
Reschedule ==
    /\ status' = [j \in Jobs |-> IF Retryable(j) THEN "retrying" ELSE status[j]]
    /\ due' = [j \in Jobs |-> IF Retryable(j) THEN FALSE ELSE due[j]]
    /\ UNCHANGED <<lockedBy, lockedAt>>

\* One tick under the advisory lock: all of the rows.
MarkRetryFailedJobs(s) ==
    /\ retryUp[s]
    /\ \E j \in Jobs : Retryable(j)
    /\ Reschedule
    /\ UNCHANGED <<attempts, memory, starts, faults>>

\* The same tick, overtaken on one of its rows by the late result of another
\* execution.  The UPDATE waits for the row, and READ COMMITTED then looks
\* again only at id IN (...), whose sub-select is not run a second time: the
\* row is rescheduled although it has left "failed" meanwhile.
OvertakenRetry(s, t) ==
    /\ retryUp[s]
    /\ pc[t] = "up" /\ procUp[t] /\ results[t] # <<>>
    /\ LET res == Head(results[t]) IN
          /\ Retryable(res.id)
          /\ attempts' = IF res.status = "failed"
                          THEN [attempts EXCEPT ![res.id] = @ + 1] ELSE attempts
    /\ Reschedule
    /\ results' = [results EXCEPT ![t] = Tail(@)]
    /\ UNCHANGED <<pc, batch, held, worker, procUp, retryUp, starts, faults>>

\* The advisory lock is not granted in time: the goroutine returns for good.
\* No fault is needed for that: an unlock that went to another connection
\* leaves the lock behind (module Bootstrap, RetryTimeout).
RetryLoopEnds(s) ==
    /\ retryUp[s]
    /\ retryUp' = [retryUp EXCEPT ![s] = FALSE]
    /\ UNCHANGED <<rows, pc, batch, held, worker, results, procUp, starts, faults>>
-----------------------------------------------------------------------------
TableStep(j) == Insert(j) \/ RemoveByID(j) \/ BecomeDue(j) \/ LockAges(j)

PollStep(s) ==
    \/ FetchDueJobs(s)
    \/ \E x \in batch[s] : LockJob(s, x) \/ LockJobMisses(s, x)
    \/ \E w \in Workers : AcquireWorker(s, w)

WorkerStep(s, w) == ExecuteHandler(s, w) \/ SendResult(s, w)

FaultStep(s) ==
    \/ \E x \in batch[s] : LockJobFails(s, x)
    \/ \E w \in Workers : HandlerPanics(s, w)

ServerStep(s) ==
    \/ NewContainer(s) \/ Start(s) \/ Cancel(s) \/ ProcessorStops(s)
    \/ Exit(s) \/ Crash(s)
    \/ PollStep(s)
    \/ \E w \in Workers : WorkerStep(s, w)
    \/ ProcessResult(s) \/ DropResult(s)
    \/ MarkRetryFailedJobs(s) \/ RetryLoopEnds(s)
    \/ \E t \in Servers : OvertakenRetry(s, t)
    \/ FaultStep(s)

Next ==
    \/ \E j \in Jobs : TableStep(j)
    \/ \E s \in Servers : ServerStep(s)

Spec == Init /\ [][Next]_vars

\* Goroutines are scheduled, statements and handlers end, time passes.  A
\* client, a start, a cancellation, a crash, a fault and the end of a ticker
\* are never owed.
Fairness ==
    /\ \A j \in Jobs : WF_vars(BecomeDue(j)) /\ WF_vars(LockAges(j))
    /\ \A s \in Servers :
          /\ WF_vars(PollStep(s))
          /\ WF_vars(ProcessResult(s)) /\ WF_vars(ProcessorStops(s))
          /\ WF_vars(MarkRetryFailedJobs(s))
          /\ WF_vars(Exit(s))
          /\ \A w \in Workers : WF_vars(WorkerStep(s, w))

FairSpec == Spec /\ Fairness
-----------------------------------------------------------------------------
(* Properties of any number of servers.                                    *)

\* Every variable keeps its type; the channel never holds more than its
\* capacity.
TypeOK ==
    /\ status \in [Jobs -> AllStatuses \cup {"unborn", "removed"}]
    /\ attempts \in [Jobs -> Nat]
    /\ due \in [Jobs -> BOOLEAN]
    /\ lockedBy \in [Jobs -> Servers \cup {None}]
    /\ lockedAt \in [Jobs -> {"null", "fresh", "old"}]
    /\ pc \in [Servers -> {"down", "booted", "up", "draining"}]
    /\ batch \in [Servers -> SUBSET Snapshots]
    /\ held \in [Servers -> Snapshots \cup {NoJob}]
    /\ worker \in [Servers -> [Workers -> Slots]]
    /\ results \in [Servers -> Seq(Reports)]
    /\ \A s \in Servers : Len(results[s]) <= ResultCap
    /\ procUp \in [Servers -> BOOLEAN]
    /\ retryUp \in [Servers -> BOOLEAN]
    /\ starts \in 0..MaxStarts
    /\ faults \in 0..MaxFaults

\* What a server remembers of a row is never ahead of the row: no batch, no
\* waiting job, no worker and no result carries more failed attempts than
\* the row has counted (a result counts its own execution).
SnapshotsNotAhead ==
    \A s \in Servers :
        /\ \A x \in batch[s] : x.attempts <= attempts[x.id]
        /\ held[s] # NoJob => held[s].attempts <= attempts[held[s].id]
        /\ \A w \in Workers : worker[s][w] # IdleSlot
                             => worker[s][w].attempts <= attempts[worker[s][w].id]
        /\ \A i \in DOMAIN results[s] :
              results[s][i].attempts <= attempts[results[s][i].id] + 1

\* A job is declared dead only when MaxRetryAttempt failures have been
\* counted on its row, although MarkFailure decides from a number that was
\* read before the execution began and other servers may have changed since.
DeadOnlyAfterMaxAttempts ==
    \A j \in Jobs : status[j] = "dead" => attempts[j] >= MaxRetryAttempt

\* Every start of a process costs a job at most one failure beyond the limit:
\* the start may requeue a job that is still executing, and no late result,
\* no ticker that was overtaken and no second copy makes more of it.
FailuresBounded ==
    \A j \in Jobs : attempts[j] > 0 => attempts[j] < MaxRetryAttempt + starts

\* A row marked as processing always has a time stamp and an owner, so that
\* the next start of any server finds it: in SQL, NULL <= NOW() is not true.
ProcessingIsReleasable ==
    \A j \in Jobs : status[j] = "processing"
                     => lockedAt[j] # "null" /\ lockedBy[j] # None

\* Server s has job j in hand: waiting for a worker, executing or reporting.
InHand(s, j) ==
    \/ held[s].id = j
    \/ \E w \in Workers : worker[s][w].id = j
    \/ \E i \in DOMAIN results[s] : results[s][i].id = j

\* As long as nothing fails, a row that is marked as processing by a server
\* that is up is really being processed there, so its result is still to
\* come; no order of locks, unlocks and late results leaves an orphan.
LockHasHolder ==
    \A j \in Jobs, s \in Servers :
        (faults = 0 /\ status[j] = "processing" /\ lockedBy[j] = s /\ pc[s] = "up")
        => InHand(s, j)

\* LockJob does not look at scheduled_at, so an execution may begin before its
\* time; but only where the row was read before the job last failed.  A batch
\* that is up to date never starts a job early, and never one that was
\* scheduled for later by its client.
EarlyStartIsStale ==
    [][\A s \in Servers :
          LET x == held'[s] IN
          x # held[s] /\ x # NoJob => due[x.id] \/ x.attempts < attempts[x.id]]_vars
-----------------------------------------------------------------------------
(* Properties of a single server, with crashes, restarts and faults.       *)

\* A job is in the hands of one worker at a time, from the lock until its
\* result is applied: the batch, the channel and restarts never make a
\* second execution of it.
SingleExecution ==
    \A j \in Jobs : \A s, t \in Servers :
        LET inWorkers(r) == {w \in Workers : worker[r][w].id = j}
            inChannel(r) == {i \in DOMAIN results[r] : results[r][i].id = j}
            waiting(r) == IF held[r].id = j THEN 1 ELSE 0
        IN  /\ Cardinality(inWorkers(s)) + Cardinality(inChannel(s)) + waiting(s) <= 1
            /\ InHand(s, j) /\ InHand(t, j) => s = t

\* "dead: job failed permanently after max retries": a job whose attempts
\* are used up is dead; it is never left failed, where no ticker and no poll
\* would look at it again.
ExhaustedIsDead ==
    \A j \in Jobs : Exists(j) /\ attempts[j] >= MaxRetryAttempt => status[j] = "dead"

Lifecycle == INSTANCE JobLifecycle WITH status <- status, attempts <- attempts

\* The table goes through the life JobLifecycle describes, and through no
\* other: final statuses are final, every failure is counted once and the
\* last one is the one that kills.  JobLifecycle has the two transitions the
\* stores make although ValidTransitions does not list them.
ImplementsLifecycle == Lifecycle!Spec
-----------------------------------------------------------------------------
(* Liveness, under FairSpec.                                               *)

\* While a server and its retry ticker stay up and no statement fails, every
\* job that is enqueued is executed until it succeeds or is dead, whatever
\* crashed or was cancelled before.
Completion ==
    (\E s \in Servers : <>[](pc[s] = "up" /\ retryUp[s])) /\ [](faults = 0)
    => \A j \in Jobs :
          status[j] = "queued" ~> status[j] \in {"succeeded", "dead", "removed"}

\* The workers of s that still have a result to send.
Unsent(s) == {w \in Workers : worker[s][w] # IdleSlot}

\* GracefulExit returns when the channel has room for what the workers still
\* have to send beside what is in it already: nobody needs to read it any
\* more.  Without that room the workers may wait for the processor, which has
\* returned, for ever.
ShutdownCompletes ==
    \A s \in Servers :
        pc[s] = "draining" /\ Len(results[s]) + Cardinality(Unsent(s)) <= ResultCap
        ~> pc[s] = "down"
=============================================================================
