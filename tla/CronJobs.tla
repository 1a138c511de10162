------------------------------ MODULE CronJobs ------------------------------
(***************************************************************************)
(* The recurring jobs of GoFire: the table cron_jobs, and on every server  *)
(* the poll loop of CronJobManager with its pages, the workers, the channel*)
(* of results and the processor that applies a result with two statements. *)
(*                                                                         *)
(* Unlike an enqueued job, a cron job is never deleted, has no attempts,   *)
(* goes from succeeded or failed back to processing, and nothing releases  *)
(* its lock but the result of the execution that took it.  The time of the *)
(* next run is kept as two facts: whether it has come, and which version of*)
(* the expression it was computed from.                                    *)
(***************************************************************************)
EXTENDS JobState, Integers, Sequences, FiniteSets

CONSTANTS
    Jobs,       \* names of cron jobs
    Servers,    \* processes that called AddServer
    Workers,    \* the slots of the semaphore: WorkerCount of them
    BatchSize,  \* rows of a page
    ResultCap,  \* capacity of the channel jobResults
    None,       \* no job, no server (a NULL column)
    MaxEdits,   \* bound: how often a client changes or (de)activates a job
    MaxStarts,  \* bound: how often a server is started, all together
    MaxFaults   \* bound: how many statements fail

ASSUME NoneAssumption == None \notin Jobs /\ None \notin Servers
ASSUME SizeAssumption == BatchSize \in Nat \ {0} /\ ResultCap \in Nat \ {0}
ASSUME BoundAssumption == MaxEdits \in Nat /\ MaxStarts \in Nat /\ MaxFaults \in Nat

VARIABLES
    \* The table cron_jobs.
    status,    \* a status, or "unborn" before the first AddOrUpdate
    active,    \* is_active
    due,       \* next_run_at <= now()
    expr,      \* version of expression
    nextOf,    \* the version next_run_at was computed from
    lockedBy,  \* locked_by
    lockedAt,  \* locked_at: "null", "fresh" or "old" (60 minutes and more)
    \* The memory of each server.
    pc,        \* "down", "up" (polling), "draining" (cancelled, waiting for workers)
    page,      \* the page the poll loop reads next
    batch,     \* rows of the current page not yet tried
    held,      \* the row that is locked and waits for the semaphore
    worker,    \* what the goroutine on each slot of the semaphore does
    results,   \* the channel jobResults
    applying,  \* the result whose status is written and whose run times are not
    \* Bounds.
    edits, starts, faults

rows == <<status, active, due, expr, nextOf, lockedBy, lockedAt>>
memory == <<pc, page, batch, held, worker, results, applying>>
vars == <<rows, memory, edits, starts, faults>>
-----------------------------------------------------------------------------
NoJob == [id |-> None, expr |-> 0]
IdleSlot == [id |-> None, expr |-> 0, phase |-> "idle"]

Versions == 0..MaxEdits
Snapshots == [id : Jobs, expr : Versions]
Slots == [id : Jobs, expr : Versions, phase : {"running", "succeeded", "failed"}]
            \cup {IdleSlot}
Reports == [id : Jobs, expr : Versions, status : {"succeeded", "failed"}]

Init ==
    /\ status = [j \in Jobs |-> "unborn"]
    /\ active = [j \in Jobs |-> FALSE]
    /\ due = [j \in Jobs |-> FALSE]
    /\ expr = [j \in Jobs |-> 0]
    /\ nextOf = [j \in Jobs |-> 0]
    /\ lockedBy = [j \in Jobs |-> None]
    /\ lockedAt = [j \in Jobs |-> "null"]
    /\ pc = [s \in Servers |-> "down"]
    /\ page = [s \in Servers |-> 1]
    /\ batch = [s \in Servers |-> {}]
    /\ held = [s \in Servers |-> NoJob]
    /\ worker = [s \in Servers |-> [w \in Workers |-> IdleSlot]]
    /\ results = [s \in Servers |-> <<>>]
    /\ applying = [s \in Servers |-> NoJob]
    /\ edits = 0
    /\ starts = 0
    /\ faults = 0

\* One more statement fails in this step.
Fault == faults < MaxFaults /\ faults' = faults + 1
-----------------------------------------------------------------------------
(* Clients of the table, and time.                                         *)

\* Schedule of a new name: an active row with status queued, to run at the
\* first match of its expression after now.
AddJob(j) ==
    /\ status[j] = "unborn"
    /\ status' = [status EXCEPT ![j] = "queued"]
    /\ active' = [active EXCEPT ![j] = TRUE]
    /\ UNCHANGED <<due, expr, nextOf, lockedBy, lockedAt, memory, edits, starts, faults>>

\* Schedule of a known name: expression and time of the next run change, the
\* status, the lock and is_active do not.  The slip writes the status of the
\* INSERT on conflict too.
UpdateJob_ResetsStatus(j) ==
    /\ status[j] # "unborn" /\ edits < MaxEdits
    /\ edits' = edits + 1
    /\ status' = [status EXCEPT ![j] = "queued"]
    /\ expr' = [expr EXCEPT ![j] = @ + 1]
    /\ nextOf' = [nextOf EXCEPT ![j] = expr[j] + 1]
    /\ due' = [due EXCEPT ![j] = FALSE]
    /\ UNCHANGED <<active, lockedBy, lockedAt, memory, starts, faults>>
UpdateJob(j) ==
    /\ status[j] # "unborn" /\ edits < MaxEdits
    /\ edits' = edits + 1
    /\ expr' = [expr EXCEPT ![j] = @ + 1]
    /\ nextOf' = [nextOf EXCEPT ![j] = expr[j] + 1]
    /\ due' = [due EXCEPT ![j] = FALSE]
    /\ UNCHANGED <<status, active, lockedBy, lockedAt, memory, starts, faults>>

\* ActivateSchedule and DeActivateSchedule.
SetActive(j) ==
    /\ status[j] # "unborn" /\ edits < MaxEdits
    /\ edits' = edits + 1
    /\ active' = [active EXCEPT ![j] = ~@]
    /\ UNCHANGED <<status, due, expr, nextOf, lockedBy, lockedAt, memory, starts, faults>>

\* now() passes next_run_at.
BecomeDue(j) ==
    /\ status[j] # "unborn" /\ ~due[j]
    /\ due' = [due EXCEPT ![j] = TRUE]
    /\ UNCHANGED <<status, active, expr, nextOf, lockedBy, lockedAt, memory, edits, starts, faults>>

\* now() passes locked_at + 60 minutes.
LockAges(j) ==
    /\ status[j] = "processing" /\ lockedAt[j] = "fresh"
    /\ lockedAt' = [lockedAt EXCEPT ![j] = "old"]
    /\ UNCHANGED <<status, active, due, expr, nextOf, lockedBy, memory, edits, starts, faults>>
-----------------------------------------------------------------------------
(* The life of a server.                                                   *)

\* The container starts the result processor, AddServer the poll loop.
Start(s) ==
    /\ pc[s] = "down" /\ starts < MaxStarts
    /\ starts' = starts + 1
    /\ pc' = [pc EXCEPT ![s] = "up"]
    /\ UNCHANGED <<rows, page, batch, held, worker, results, applying, edits, faults>>

\* The context is cancelled.  Statements and sem.Acquire of the poll loop
\* fail from here on; a row that is locked and not handed over stays locked.
Cancel(s) ==
    /\ pc[s] = "up"
    /\ pc' = [pc EXCEPT ![s] = "draining"]
    /\ page' = [page EXCEPT ![s] = 1]
    /\ batch' = [batch EXCEPT ![s] = {}]
    /\ held' = [held EXCEPT ![s] = NoJob]
    /\ UNCHANGED <<rows, worker, results, applying, edits, starts, faults>>

\* The process is gone, and with it all it had in memory.
Forget(s) ==
    /\ pc' = [pc EXCEPT ![s] = "down"]
    /\ page' = [page EXCEPT ![s] = 1]
    /\ batch' = [batch EXCEPT ![s] = {}]
    /\ held' = [held EXCEPT ![s] = NoJob]
    /\ worker' = [worker EXCEPT ![s] = [w \in Workers |-> IdleSlot]]
    /\ results' = [results EXCEPT ![s] = <<>>]
    /\ applying' = [applying EXCEPT ![s] = NoJob]

\* wg.Wait() returns when the last worker has left; GracefulExit closes the
\* store whether or not the processor has come to the end of the channel.
Exit(s) ==
    /\ pc[s] = "draining"
    /\ \A w \in Workers : worker[s][w] = IdleSlot
    /\ Forget(s)
    /\ UNCHANGED <<rows, edits, starts, faults>>

\* The process is killed, or a handler panics: executeJob does not recover.
Crash(s) ==
    /\ pc[s] # "down"
    /\ Forget(s)
    /\ UNCHANGED <<rows, edits, starts, faults>>
-----------------------------------------------------------------------------
(* The poll loop: processCronJobs.                                         *)

\* The WHERE clause of FetchDueCronJobs.  AND binds stronger than OR: a row
\* that is queued is selected whether or not it is active and due.  The slip
\* puts the statuses as a further condition, as the layout suggests.
Selected_AllConditions(j) ==
    /\ active[j] /\ due[j]
    /\ \/ status[j] \in {"queued", "retrying"}
       \/ status[j] = "processing" /\ lockedAt[j] = "old"
Selected(j) ==
    \/ active[j] /\ due[j]
    \/ status[j] \in {"queued", "retrying"}
    \/ status[j] = "processing" /\ lockedAt[j] = "old"

\* The expression a page brings with a row; the slip serves it from a cache
\* that was filled when the job was added.
ReadExpr_Cached(j) == 0
ReadExpr(j) == expr[j]

\* The page after page p of total rows: the next one while HasNextPage, else
\* the first one of the next poll; the slip counts pages from zero.
NextPage_FromZero(p, total) == IF p * BatchSize < total THEN p + 1 ELSE 0
NextPage(p, total) == IF p * BatchSize < total THEN p + 1 ELSE 1

\* One page of the selected rows, by OFFSET and LIMIT over the table as it is
\* now.  ORDER BY next_run_at is abstracted: any rows may be the ones at this
\* place.  The rows were counted by a statement before this one, so the count
\* may be of another state of the table.
FetchDueCronJobs(s) ==
    LET selected == {j \in Jobs : Selected(j)}
        rest == Cardinality(selected) - (page[s] - 1) * BatchSize
        size == IF rest <= 0 THEN 0 ELSE IF rest <= BatchSize THEN rest ELSE BatchSize
    IN  /\ pc[s] = "up" /\ batch[s] = {} /\ held[s] = NoJob
        /\ \E items \in SUBSET selected :
              /\ Cardinality(items) = size
              /\ batch' = [batch EXCEPT ![s] = {[id |-> j, expr |-> ReadExpr(j)] : j \in items}]
        /\ \E total \in 0..Cardinality(Jobs) : page' = [page EXCEPT ![s] = NextPage(@, total)]
        /\ UNCHANGED <<rows, pc, held, worker, results, applying, edits, starts, faults>>

\* The query fails: this poll is over, the next one begins with page 1.
FetchFails(s) ==
    /\ pc[s] = "up" /\ batch[s] = {} /\ held[s] = NoJob
    /\ Fault
    /\ page' = [page EXCEPT ![s] = 1]
    /\ UNCHANGED <<rows, pc, batch, held, worker, results, applying, edits, starts>>

\* The WHERE clause of LockJob; the slip also takes over rows that are
\* being processed, as the selection of expired locks suggests.
Lockable_Expired(j) ==
    \/ status[j] \in {"queued", "retrying", "succeeded", "failed"}
    \/ status[j] = "processing" /\ lockedAt[j] = "old"
Lockable(j) == status[j] \in {"queued", "retrying", "succeeded", "failed"}

\* The UPDATE of LockJob; the slip does not write locked_by.
TakeLock_NoOwner(s, j) ==
    /\ status' = [status EXCEPT ![j] = "processing"]
    /\ lockedAt' = [lockedAt EXCEPT ![j] = "fresh"]
    /\ UNCHANGED <<active, due, expr, nextOf, lockedBy>>
TakeLock(s, j) ==
    /\ status' = [status EXCEPT ![j] = "processing"]
    /\ lockedBy' = [lockedBy EXCEPT ![j] = s]
    /\ lockedAt' = [lockedAt EXCEPT ![j] = "fresh"]
    /\ UNCHANGED <<active, due, expr, nextOf>>

LockJob(s, x) ==
    /\ x \in batch[s] /\ held[s] = NoJob
    /\ Lockable(x.id)
    /\ TakeLock(s, x.id)
    /\ batch' = [batch EXCEPT ![s] = @ \ {x}]
    /\ held' = [held EXCEPT ![s] = x]
    /\ UNCHANGED <<pc, page, worker, results, applying, edits, starts, faults>>

LockJobMisses(s, x) ==
    /\ x \in batch[s] /\ held[s] = NoJob
    /\ ~Lockable(x.id)
    /\ batch' = [batch EXCEPT ![s] = @ \ {x}]
    /\ UNCHANGED <<rows, pc, page, held, worker, results, applying, edits, starts, faults>>

\* The statement reports an error, after the update or without it.
LockJobFails(s, x) ==
    /\ x \in batch[s] /\ held[s] = NoJob
    /\ Fault
    /\ \/ Lockable(x.id) /\ TakeLock(s, x.id)
       \/ UNCHANGED rows
    /\ batch' = [batch EXCEPT ![s] = @ \ {x}]
    /\ UNCHANGED <<pc, page, held, worker, results, applying, edits, starts>>

\* sem.Acquire succeeds and the goroutine executeJob is started.  The slip
\* goes on with the next row when the semaphore is not free.
AcquireWorker_Skips(s, w) ==
    /\ held[s] # NoJob
    /\ held' = [held EXCEPT ![s] = NoJob]
    /\ UNCHANGED <<rows, pc, page, batch, worker, results, applying, edits, starts, faults>>
AcquireWorker(s, w) ==
    /\ held[s] # NoJob
    /\ worker[s][w] = IdleSlot
    /\ worker' = [worker EXCEPT ![s][w] =
                    [id |-> held[s].id, expr |-> held[s].expr, phase |-> "running"]]
    /\ held' = [held EXCEPT ![s] = NoJob]
    /\ UNCHANGED <<rows, pc, page, batch, results, applying, edits, starts, faults>>
-----------------------------------------------------------------------------
(* The workers: executeJob.                                                *)

\* The handler returns.  A handler that is not registered and a payload that
\* does not parse count as an error.
ExecuteHandler(s, w) ==
    /\ worker[s][w].phase = "running"
    /\ \E outcome \in {"succeeded", "failed"} :
          worker' = [worker EXCEPT ![s][w].phase = outcome]
    /\ UNCHANGED <<rows, pc, page, batch, held, results, applying, edits, starts, faults>>

\* The result goes into the channel, with the next run computed from the
\* expression that was read with the page.
SendResult(s, w) ==
    /\ worker[s][w].phase \in {"succeeded", "failed"}
    /\ Len(results[s]) < ResultCap
    /\ results' = [results EXCEPT ![s] =
                     Append(@, [id |-> worker[s][w].id, expr |-> worker[s][w].expr,
                                status |-> worker[s][w].phase])]
    /\ worker' = [worker EXCEPT ![s][w] = IdleSlot]
    /\ UNCHANGED <<rows, pc, page, batch, held, applying, edits, starts, faults>>
-----------------------------------------------------------------------------
(* The result processor.  Its context is never cancelled.                  *)

\* The first statement of a result: MarkSuccess clears the lock, MarkFailure
\* leaves locked_by and locked_at as they are.
Mark(res) ==
    /\ IsValidTransition("processing", res.status)
    /\ status' = [status EXCEPT ![res.id] = res.status]
    /\ IF res.status = "succeeded"
          THEN /\ lockedBy' = [lockedBy EXCEPT ![res.id] = None]
               /\ lockedAt' = [lockedAt EXCEPT ![res.id] = "null"]
          ELSE UNCHANGED <<lockedBy, lockedAt>>
    /\ UNCHANGED <<active, due, expr, nextOf>>

\* The statement may fail; the processor goes on with the run times.
MarkResult(s) ==
    /\ pc[s] # "down" /\ results[s] # <<>> /\ applying[s] = NoJob
    /\ LET res == Head(results[s]) IN
          /\ \/ Mark(res) /\ UNCHANGED faults
             \/ Fault /\ UNCHANGED rows
          /\ applying' = [applying EXCEPT ![s] = [id |-> res.id, expr |-> res.expr]]
    /\ results' = [results EXCEPT ![s] = Tail(@)]
    /\ UNCHANGED <<pc, page, batch, held, worker, edits, starts>>

\* The columns UpdateJobRunTimes writes.  The time of the next run was taken
\* when the execution began, so it may have passed already.
RunTimes(x) ==
    /\ \E d \in BOOLEAN : due' = [due EXCEPT ![x.id] = d]
    /\ nextOf' = [nextOf EXCEPT ![x.id] = x.expr]

\* The second statement, which may fail like the first.
UpdateJobRunTimes(s) ==
    /\ applying[s] # NoJob
    /\ \/ RunTimes(applying[s]) /\ UNCHANGED faults
       \/ Fault /\ UNCHANGED <<due, nextOf>>
    /\ applying' = [applying EXCEPT ![s] = NoJob]
    /\ UNCHANGED <<status, active, expr, lockedBy, lockedAt,
                   pc, page, batch, held, worker, results, edits, starts>>
-----------------------------------------------------------------------------
TableStep(j) ==
    AddJob(j) \/ UpdateJob(j) \/ SetActive(j) \/ BecomeDue(j) \/ LockAges(j)

PollStep(s) ==
    \/ FetchDueCronJobs(s)
    \/ \E x \in batch[s] : LockJob(s, x) \/ LockJobMisses(s, x)
    \/ \E w \in Workers : AcquireWorker(s, w)

WorkerStep(s, w) == ExecuteHandler(s, w) \/ SendResult(s, w)

ProcessorStep(s) == MarkResult(s) \/ UpdateJobRunTimes(s)

ServerStep(s) ==
    \/ Start(s) \/ Cancel(s) \/ Exit(s) \/ Crash(s)
    \/ PollStep(s)
    \/ FetchFails(s)
    \/ \E x \in batch[s] : LockJobFails(s, x)
    \/ \E w \in Workers : WorkerStep(s, w)
    \/ ProcessorStep(s)

Next ==
    \/ \E j \in Jobs : TableStep(j)
    \/ \E s \in Servers : ServerStep(s)

Spec == Init /\ [][Next]_vars

\* Goroutines are scheduled, statements and handlers end, time passes.
Fairness ==
    /\ \A j \in Jobs : WF_vars(BecomeDue(j)) /\ WF_vars(LockAges(j))
    /\ \A s \in Servers :
          /\ WF_vars(PollStep(s)) /\ WF_vars(ProcessorStep(s)) /\ WF_vars(Exit(s))
          /\ \A w \in Workers : WF_vars(WorkerStep(s, w))

FairSpec == Spec /\ Fairness
-----------------------------------------------------------------------------
(* Properties of any number of servers, with crashes, restarts and faults. *)

\* Every variable keeps its type, no version is ahead of the edits that were
\* made, and the channel never holds more than its capacity.
TypeOK ==
    /\ status \in [Jobs -> AllStatuses \cup {"unborn"}]
    /\ active \in [Jobs -> BOOLEAN]
    /\ due \in [Jobs -> BOOLEAN]
    /\ expr \in [Jobs -> 0..edits]
    /\ nextOf \in [Jobs -> Versions]
    /\ lockedBy \in [Jobs -> Servers \cup {None}]
    /\ lockedAt \in [Jobs -> {"null", "fresh", "old"}]
    /\ pc \in [Servers -> {"down", "up", "draining"}]
    /\ page \in [Servers -> Nat \ {0}]
    /\ batch \in [Servers -> SUBSET Snapshots]
    /\ held \in [Servers -> Snapshots \cup {NoJob}]
    /\ worker \in [Servers -> [Workers -> Slots]]
    /\ results \in [Servers -> Seq(Reports)]
    /\ \A s \in Servers : Len(results[s]) <= ResultCap
    /\ applying \in [Servers -> Snapshots \cup {NoJob}]
    /\ edits \in 0..MaxEdits
    /\ starts \in 0..MaxStarts
    /\ faults \in 0..MaxFaults

InWorker(s, j) == \E w \in Workers : worker[s][w].id = j
InChannel(s, j) == \E i \in DOMAIN results[s] : results[s][i].id = j

\* Server s has an execution of j in hand: waiting for a worker, running, or
\* with a result not yet taken from the channel.
InHand(s, j) == held[s].id = j \/ InWorker(s, j) \/ InChannel(s, j)

\* The executions of a cron job never overlap: over all servers, at most one
\* is waiting, running or about to be reported.  There is no other mutual
\* exclusion than the WHERE clause of LockJob, although a page may be stale
\* and expired locks are selected.
NoOverlap ==
    \A j \in Jobs :
        /\ \A s, t \in Servers : InHand(s, j) /\ InHand(t, j) => s = t
        /\ \A s \in Servers :
              /\ ~(held[s].id = j /\ InWorker(s, j))
              /\ ~(held[s].id = j /\ InChannel(s, j))
              /\ ~(InWorker(s, j) /\ InChannel(s, j))
              /\ \A v, w \in Workers :
                    worker[s][v].id = j /\ worker[s][w].id = j => v = w
              /\ \A h, i \in DOMAIN results[s] :
                    results[s][h].id = j /\ results[s][i].id = j => h = i

\* As long as an execution is in hand its row says so, and names its server:
\* no edit, activation, late result or other server changes that.
ExecutionOwnsRow ==
    \A j \in Jobs, s \in Servers :
        InHand(s, j) => status[j] = "processing" /\ lockedBy[j] = s

Orphan(j) == status[j] = "processing" /\ \A s \in Servers : ~InHand(s, j)

\* A lock loses its execution only when a server is cancelled or ends or a
\* statement fails; the steps of polling, executing and reporting always
\* hand the job on or write its result.
OrphanOnlyByLoss ==
    [][\A j \in Jobs : ~Orphan(j) /\ Orphan(j)'
                       => (\E s \in Servers : pc'[s] # pc[s]) \/ faults' # faults]_vars
-----------------------------------------------------------------------------
(* Liveness, under FairSpec.  No lock may be orphaned by a crash, because   *)
(* nothing would ever release it.                                          *)

Serving ==
    /\ \E s \in Servers : <>[](pc[s] = "up")
    /\ [](\A j \in Jobs : ~Orphan(j))

\* A job that is active and due is executed, time after time, whether its
\* last run succeeded or failed.
RunsWhenDue ==
    Serving => \A j \in Jobs :
        (active[j] /\ due[j]) ~> (status[j] = "processing" \/ ~(active[j] /\ due[j]))

\* A changed expression takes effect in the end: an execution that began
\* before the change may overwrite the new time with one of the old
\* expression, but not for good.
ScheduleConverges ==
    Serving => \A j \in Jobs : <>[]active[j] => <>[](nextOf[j] = expr[j])

\* "Jobs in 'processing' status will be considered due again if locked_at is
\* older than this": an expired lock is taken over while a server polls.
ExpiredLockIsTakenOver ==
    (\E s \in Servers : <>[](pc[s] = "up"))
    => \A j \in Jobs : LET Expired == status[j] = "processing" /\ lockedAt[j] = "old"
                       IN  Expired ~> ~Expired

\* "FetchDueCronJobs fetches active cron jobs whose NextRunAt <= now": an
\* execution begins only of such a job.
OnlyActiveDueJobsRun ==
    [][\A j \in Jobs : status[j] # "processing" /\ status'[j] = "processing"
                       => active[j] /\ due[j]]_vars
=============================================================================
