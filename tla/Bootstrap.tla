----------------------------- MODULE Bootstrap ------------------------------
(***************************************************************************)
(* How a process comes up with jobmanager.New and goes down again: the     *)
(* container, whose retry ticker starts at once, the migrations under the  *)
(* migration lock, the first dashboard user, and GracefulExit.  The ticker *)
(* and the start-up share one pool, so that a statement of either may find *)
(* any connection of it free.                                              *)
(*                                                                         *)
(* Every statement is one step.  A statement that waits for a lock waits   *)
(* at most five seconds; the driver then closes its connection.            *)
(***************************************************************************)
EXTENDS AdvisoryLock, FiniteSets

CONSTANTS
    Scripts,     \* number of migration scripts
    MaxStarts,   \* bound: how often a process is started, all together
    MaxFaults    \* bound: statements that fail and connections that break

ASSUME BootAssumption ==
    /\ {"migration", "retry"} \subseteq Locks
    /\ Scripts \in Nat /\ MaxStarts \in Nat /\ MaxFaults \in Nat

VARIABLES
    tables,    \* how much is migrated: 0 nothing, 1 the schema, 1 + n also n scripts
    admin,     \* the row of the dashboard user exists
    boot,      \* where New is; "closed" after GracefulExit
    step,      \* statements of the migration that were executed
    failing,   \* New is going to return an error
    bootConn,  \* the connection on which start-up waits for the migration lock
    kept,      \* the connection of the DELETE, whose row is never scanned
    retry,     \* where the goroutine MarkRetryFailedJobs is
    retryConn, \* the connection on which it waits for the retry lock
    broken,    \* history: a process lost the migration lock while it migrated
    promised,  \* history: New has returned in a process with a dashboard user
    unborn,    \* history: a creation of the user ended between DELETE and INSERT
    starts, faults

memory == <<step, failing, bootConn, kept>>
process == <<boot, memory>>
ticker == <<retry, retryConn>>
history == <<broken, promised, unborn, starts>>
vars == <<lockVars, tables, admin, process, ticker, history, faults>>
-----------------------------------------------------------------------------
Statements == Scripts + 1

Running(p) == boot[p] \notin {"down", "closed"}
Migrating(p) == boot[p] = "migrate"
Free(p, c) == c \notin {bootConn[p], retryConn[p], kept[p]}

Goto(p, pc) == boot' = [boot EXCEPT ![p] = pc]
RetryGoto(p, pc) == retry' = [retry EXCEPT ![p] = pc]
Fault == faults < MaxFaults /\ faults' = faults + 1

\* The driver closes a connection, and whatever its session holds is free.
Lose(p, c) ==
    /\ EndSessions({<<p, c>>})
    /\ broken' = (broken \/ (Migrating(p) /\ holder["migration"] = <<p, c>>))

Init ==
    /\ LockInit
    /\ tables = 0 /\ admin = FALSE
    /\ boot = [p \in Procs |-> "down"]
    /\ step = [p \in Procs |-> 0]
    /\ failing = [p \in Procs |-> FALSE]
    /\ bootConn = [p \in Procs |-> None]
    /\ kept = [p \in Procs |-> None]
    /\ retry = [p \in Procs |-> "off"]
    /\ retryConn = [p \in Procs |-> None]
    /\ broken = FALSE /\ promised = FALSE /\ unborn = FALSE
    /\ starts = 0 /\ faults = 0

\* NewContainer: the pool is opened and NewEnqueueScheduler starts the ticker.
NewContainer(p) ==
    /\ boot[p] = "down" /\ starts < MaxStarts
    /\ Goto(p, "acquire") /\ RetryGoto(p, "tick")
    /\ step' = [step EXCEPT ![p] = 0]
    /\ failing' = [failing EXCEPT ![p] = FALSE]
    /\ starts' = starts + 1
    /\ UNCHANGED <<lockVars, tables, admin, bootConn, kept, retryConn, broken,
                   promised, unborn, faults>>
-----------------------------------------------------------------------------
(* Migrations.                                                             *)

\* Slip: the error of Acquire is not looked at.
AcquireTimeout_Ignored(p) ==
    /\ boot[p] = "waiting" /\ Blocked(<<p, bootConn[p]>>, "migration")
    /\ Lose(p, bootConn[p])
    /\ Goto(p, "migrate")
    /\ bootConn' = [bootConn EXCEPT ![p] = None]
    /\ UNCHANGED <<tables, admin, step, failing, kept, ticker, promised, unborn,
                   starts, faults>>

\* Slip: Acquire waits without a timeout.
AcquireTimeout_Never(p) == FALSE

\* Five seconds have passed: Init returns the error before its deferred calls exist.
AcquireTimeout(p) ==
    /\ boot[p] = "waiting" /\ Blocked(<<p, bootConn[p]>>, "migration")
    /\ Lose(p, bootConn[p])
    /\ Goto(p, "failed")
    /\ bootConn' = [bootConn EXCEPT ![p] = None]
    /\ UNCHANGED <<tables, admin, step, failing, kept, ticker, promised, unborn,
                   starts, faults>>

\* distributedLock.Acquire(migrationLock): the statement goes out.
AcquireMigration(p, c) ==
    /\ boot[p] = "acquire" /\ Free(p, c)
    /\ Goto(p, "waiting")
    /\ bootConn' = [bootConn EXCEPT ![p] = c]
    /\ UNCHANGED <<lockVars, tables, admin, step, failing, kept, ticker, history, faults>>

\* The statement, or the connection for it, fails otherwise: no lock, no release.
AcquireError(p) ==
    /\ boot[p] = "acquire" /\ Fault
    /\ Goto(p, "failed")
    /\ UNCHANGED <<lockVars, tables, admin, memory, ticker, history>>

MigrationGranted(p) ==
    /\ boot[p] = "waiting"
    /\ Grant(<<p, bootConn[p]>>, "migration")
    /\ Goto(p, "migrate")
    /\ bootConn' = [bootConn EXCEPT ![p] = None]
    /\ UNCHANGED <<tables, admin, step, failing, kept, ticker, history, faults>>

\* CREATE SCHEMA, then the scripts in order; all of them say IF NOT EXISTS.
Migrate(p) ==
    /\ Migrating(p) /\ ~failing[p] /\ step[p] < Statements
    /\ step' = [step EXCEPT ![p] = @ + 1]
    /\ tables' = IF tables < step[p] + 1 THEN step[p] + 1 ELSE tables
    /\ UNCHANGED <<lockVars, admin, boot, failing, bootConn, kept, ticker, history, faults>>

\* Slip: a statement that fails is logged and Init goes on.
MigrateError_GoesOn(p) ==
    /\ Migrating(p) /\ ~failing[p] /\ step[p] < Statements /\ Fault
    /\ step' = [step EXCEPT ![p] = @ + 1]
    /\ UNCHANGED <<lockVars, tables, admin, boot, failing, bootConn, kept, ticker, history>>

\* Ping or a statement fails: Init returns the error, after the deferred release.
MigrateError(p) ==
    /\ Migrating(p) /\ ~failing[p] /\ step[p] < Statements /\ Fault
    /\ failing' = [failing EXCEPT ![p] = TRUE]
    /\ UNCHANGED <<lockVars, tables, admin, boot, step, bootConn, kept, ticker, history>>

\* The deferred distributedLock.Release(migrationLock), over any free connection.
ReleaseMigration(p, c) ==
    /\ Migrating(p) /\ (failing[p] \/ step[p] = Statements) /\ Free(p, c)
    /\ Unlock(<<p, c>>, "migration")
    /\ Goto(p, IF failing[p] THEN "failed" ELSE "find")
    /\ step' = [step EXCEPT ![p] = 0]
    /\ failing' = [failing EXCEPT ![p] = FALSE]
    /\ UNCHANGED <<tables, admin, bootConn, kept, ticker, history, faults>>
-----------------------------------------------------------------------------
(* The dashboard user.                                                     *)

\* createDashboardAdminIfConfigured returns at once if nothing is configured.
NoAdminConfigured(p) ==
    /\ boot[p] = "find"
    /\ Goto(p, "ready")
    /\ UNCHANGED <<lockVars, tables, admin, memory, ticker, history, faults>>

FindByUsername(p) ==
    /\ boot[p] = "find"
    /\ promised' = (promised \/ admin)
    /\ Goto(p, IF admin THEN "ready" ELSE "delete")
    /\ UNCHANGED <<lockVars, tables, admin, memory, ticker, broken, unborn, starts, faults>>

\* Slip: Create deletes the old row after inserting.
DeleteUser_Last(p, c) ==
    /\ boot[p] = "delete" /\ Free(p, c)
    /\ admin' = FALSE
    /\ kept' = [kept EXCEPT ![p] = c]
    /\ promised' = TRUE
    /\ Goto(p, "ready")
    /\ UNCHANGED <<lockVars, tables, step, failing, bootConn, ticker, broken, unborn,
                   starts, faults>>

\* Create first deletes the user of that name, whoever has made it by now.  The
\* row of QueryRowContext is never scanned, so the connection stays in use: the
\* context of New is not cancelled before the process ends.
DeleteUser(p, c) ==
    /\ boot[p] = "delete" /\ Free(p, c)
    /\ admin' = FALSE
    /\ kept' = [kept EXCEPT ![p] = c]
    /\ Goto(p, "insert")
    /\ UNCHANGED <<lockVars, tables, step, failing, bootConn, ticker, history, faults>>

\* The DELETE fails: nobody looks, Create goes on with the old row in place.
DeleteError(p) ==
    /\ boot[p] = "delete" /\ Fault
    /\ Goto(p, "insert")
    /\ UNCHANGED <<lockVars, tables, admin, memory, ticker, history>>

\* username is unique: the INSERT fails when another process was faster.
InsertUser(p) ==
    /\ boot[p] = "insert"
    /\ admin' = TRUE
    /\ promised' = (promised \/ ~admin)
    /\ Goto(p, IF admin THEN "failed" ELSE "ready")
    /\ UNCHANGED <<lockVars, tables, memory, ticker, broken, unborn, starts, faults>>

\* FindByUsername, the hash or the INSERT fails.
CreateError(p) ==
    /\ boot[p] \in {"find", "insert"} /\ Fault
    /\ unborn' = (unborn \/ boot[p] = "insert")
    /\ Goto(p, "failed")
    /\ UNCHANGED <<lockVars, tables, admin, memory, ticker, broken, promised, starts>>
-----------------------------------------------------------------------------
(* The ticker of MarkRetryFailedJobs.                                      *)

\* A tick: lock.Acquire(retryLock) sends its statement.
RetryTick(p, c) ==
    /\ retry[p] = "tick" /\ Running(p) /\ Free(p, c)
    /\ RetryGoto(p, "waiting")
    /\ retryConn' = [retryConn EXCEPT ![p] = c]
    /\ UNCHANGED <<lockVars, tables, admin, process, history, faults>>

\* A connection that comes back to a closed pool is closed, and its locks are free.
RetryGranted(p) ==
    /\ retry[p] = "waiting" /\ Grantable(<<p, retryConn[p]>>, "retry")
    /\ IF boot[p] = "closed" THEN EndSessions({<<p, retryConn[p]>>})
       ELSE Grant(<<p, retryConn[p]>>, "retry")
    /\ RetryGoto(p, "mark")
    /\ retryConn' = [retryConn EXCEPT ![p] = None]
    /\ UNCHANGED <<tables, admin, process, history, faults>>

\* No lock within five seconds: the goroutine returns and is never started again.
RetryTimeout(p) ==
    /\ retry[p] = "waiting" /\ Blocked(<<p, retryConn[p]>>, "retry")
    /\ Lose(p, retryConn[p])
    /\ RetryGoto(p, "ended")
    /\ retryConn' = [retryConn EXCEPT ![p] = None]
    /\ UNCHANGED <<tables, admin, process, promised, unborn, starts, faults>>

\* The same when the pool is closed or the statement fails otherwise.
RetryError(p) ==
    /\ retry[p] = "tick"
    /\ IF boot[p] = "closed" THEN UNCHANGED faults ELSE Fault
    /\ RetryGoto(p, "ended")
    /\ UNCHANGED <<lockVars, tables, admin, process, retryConn, history>>

\* store.MarkRetryFailedJobs, which is the business of the enqueued jobs, then
\* lock.Release(retryLock) over any free connection; errors are logged.
RetryRelease(p, c) ==
    /\ retry[p] = "mark" /\ Free(p, c)
    /\ IF boot[p] = "closed" THEN UNCHANGED lockVars ELSE Unlock(<<p, c>>, "retry")
    /\ RetryGoto(p, "tick")
    /\ UNCHANGED <<tables, admin, process, retryConn, history, faults>>
-----------------------------------------------------------------------------
(* The end.                                                                *)

\* Slip: the stores stay open and the locks are released over connections that
\* do not hold them.
GracefulExit_KeepsPool(p) ==
    /\ boot[p] = "ready"
    /\ Goto(p, "closed")
    /\ UNCHANGED <<lockVars, tables, admin, memory, ticker, history, faults>>

\* GracefulExit closes the stores, and with them the idle connections of the
\* pool; the Releases that follow fail because the pool is closed.
GracefulExit(p) ==
    /\ boot[p] = "ready"
    /\ EndSessions({<<p, d>> : d \in {d \in Conns : Free(p, d)}})
    /\ Goto(p, "closed")
    /\ UNCHANGED <<tables, admin, memory, ticker, history, faults>>

\* The process ends, at any point of its life; PostgreSQL ends its sessions.
Exit(p) ==
    /\ boot[p] # "down"
    /\ Goto(p, "down") /\ RetryGoto(p, "off")
    /\ unborn' = (unborn \/ boot[p] = "insert")
    /\ EndSessions({p} \X Conns)
    /\ step' = [step EXCEPT ![p] = 0]
    /\ failing' = [failing EXCEPT ![p] = FALSE]
    /\ bootConn' = [bootConn EXCEPT ![p] = None]
    /\ kept' = [kept EXCEPT ![p] = None]
    /\ retryConn' = [retryConn EXCEPT ![p] = None]
    /\ UNCHANGED <<tables, admin, broken, promised, starts, faults>>

\* An idle connection breaks: its session ends.
ConnectionBreaks(p, c) ==
    /\ \E l \in Locks : holder[l] = <<p, c>>
    /\ Free(p, c) /\ Fault
    /\ Lose(p, c)
    /\ UNCHANGED <<tables, admin, process, ticker, promised, unborn, starts>>
-----------------------------------------------------------------------------
Boot(p) ==
    \/ \E c \in Conns : AcquireMigration(p, c) \/ ReleaseMigration(p, c) \/ DeleteUser(p, c)
    \/ MigrationGranted(p) \/ AcquireTimeout(p) \/ AcquireError(p)
    \/ Migrate(p) \/ MigrateError(p)
    \/ NoAdminConfigured(p) \/ FindByUsername(p)
    \/ DeleteError(p) \/ InsertUser(p) \/ CreateError(p)

Ticker(p) ==
    \/ \E c \in Conns : RetryTick(p, c) \/ RetryRelease(p, c)
    \/ RetryGranted(p) \/ RetryTimeout(p) \/ RetryError(p)

Next ==
    \E p \in Procs :
        \/ NewContainer(p) \/ Boot(p) \/ Ticker(p) \/ GracefulExit(p) \/ Exit(p)
        \/ \E c \in Conns : ConnectionBreaks(p, c)

\* New goes on while it can, and its wait for the lock ends after five seconds
\* at the latest.  Nothing forces the ticker to go on, or a process to start or
\* to end.
Fairness == \A p \in Procs : WF_vars(Boot(p))

Spec == Init /\ [][Next]_vars
FairSpec == Spec /\ Fairness
-----------------------------------------------------------------------------
\* The types of the database, the locks and the memory of every process.
TypeOK ==
    /\ LockTypeOK
    /\ tables \in 0..Statements /\ admin \in BOOLEAN
    /\ boot \in [Procs -> {"down", "acquire", "waiting", "migrate", "find",
                           "delete", "insert", "ready", "failed", "closed"}]
    /\ step \in [Procs -> 0..Statements]
    /\ failing \in [Procs -> BOOLEAN]
    /\ bootConn \in [Procs -> Conns \cup {None}]
    /\ kept \in [Procs -> Conns \cup {None}]
    /\ retry \in [Procs -> {"off", "tick", "waiting", "mark", "ended"}]
    /\ retryConn \in [Procs -> Conns \cup {None}]
    /\ broken \in BOOLEAN /\ promised \in BOOLEAN /\ unborn \in BOOLEAN
    /\ starts \in 0..MaxStarts /\ faults \in 0..MaxFaults

\* Two processes migrate at the same time only if one of them has lost the
\* migration lock on the way: Init has it on an idle connection of the pool while
\* its statements run on another one, and loses it unnoticed when that connection
\* breaks or the ticker waits on it in vain.
MigrationExclusive ==
    broken \/ \A p, q \in Procs : Migrating(p) /\ Migrating(q) => p = q

\* New gets past Init only with every table in place, although another process
\* may have done the work, or part of it before it failed.
TablesBeforeUse ==
    \A p \in Procs : boot[p] \in {"find", "delete", "insert", "ready"} => tables = Statements

\* Once New has returned in a process that is configured with a dashboard user,
\* the user exists for good, except while a process that looked for it earlier is
\* between its DELETE and its INSERT, or one ended there.
AdminKept ==
    promised => admin \/ unborn \/ \E q \in Procs : boot[q] = "insert"

\* GracefulExit leaves no lock behind, once the ticker has its answer, but on the
\* connection that Create never gave back: all its Releases fail, it is the end of
\* the sessions that frees the locks, those that an earlier Release missed included.
ShutdownFreesLocks ==
    \A p \in Procs : (boot[p] = "closed" /\ retry[p] # "waiting") =>
        \A l \in Locks : Holds(p, l) => holder[l] = <<p, kept[p]>>

\* Nobody waits for ever: New returns, with or without an error, whatever the
\* other processes hold, or the process ends.
StartupReturns ==
    \A p \in Procs : boot[p] = "acquire" ~> boot[p] \in {"ready", "failed", "down"}

\* Failed jobs are retried: while a process is ready, the ticker of some process
\* that runs goes on.
RetryAvailable ==
    (\E p \in Procs : boot[p] = "ready") =>
        \E p \in Procs : Running(p) /\ retry[p] \notin {"off", "ended"}
=============================================================================
