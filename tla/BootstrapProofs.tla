--------------------------- MODULE BootstrapProofs --------------------------
(***************************************************************************)
(* Proofs about AdvisoryLock and Bootstrap, for any number of processes,   *)
(* connections, lock ids and migration scripts.                            *)
(***************************************************************************)
EXTENDS Bootstrap, TLAPS

USE LockAssumption, BootAssumption
-----------------------------------------------------------------------------
(* The operations of the lock.                                             *)

\* The session of a process is not the session of nobody, and names both.
LEMMA SessionFacts ==
    /\ \A p \in Procs, c \in Conns :
          /\ <<p, c>> \in Sessions /\ <<p, c>> # NoSession
          /\ <<p, c>>[1] = p /\ <<p, c>>[2] = c
    /\ \A s \in Sessions : s[1] \in Procs /\ s[2] \in Conns /\ s = <<s[1], s[2]>>
    /\ NoSession[1] \notin Procs
  BY DEF Sessions, NoSession

\* A lock that is granted has a holder and a count.
LEMMA GrantTypes ==
    ASSUME LockTypeOK, NEW s \in Sessions, NEW l \in Locks, Grant(s, l)
    PROVE  LockTypeOK'
<1>1. s # NoSession
  BY SessionFacts
<1>2. depth[l] + 1 \in 0..MaxDepth /\ depth[l] + 1 # 0
  BY DEF Grant, Grantable, LockTypeOK
<1> QED
  BY <1>1, <1>2 DEF Grant, LockTypeOK

\* Giving a lock back once forgets the holder exactly when the count is zero.
LEMMA UnlockTypes ==
    ASSUME LockTypeOK, NEW s \in Sessions, NEW l \in Locks, Unlock(s, l)
    PROVE  LockTypeOK'
<1>1. CASE holder[l] = s
  <2>1. s # NoSession
    BY SessionFacts
  <2>2. depth[l] \in 1..MaxDepth
    BY <1>1, <2>1 DEF LockTypeOK
  <2>3. depth[l] - 1 \in 0..MaxDepth /\ (depth[l] - 1 = 0 <=> depth[l] = 1)
    BY <2>2
  <2> QED
    BY <1>1, <2>1, <2>3 DEF Unlock, LockTypeOK
<1>2. CASE holder[l] # s
  BY <1>2 DEF Unlock, LockTypeOK, lockVars
<1> QED
  BY <1>1, <1>2

\* The end of sessions frees their locks and leaves the others as they are.
LEMMA EndTypes ==
    ASSUME LockTypeOK, NEW S, EndSessions(S)
    PROVE  LockTypeOK'
  BY DEF EndSessions, LockTypeOK
-----------------------------------------------------------------------------
(* Types.                                                                  *)

\* A connection is reserved exactly while a statement waits on it, and a
\* process that is down has no ticker.  Without this a lock could be granted
\* to a session that does not exist.
WaitersHaveConn ==
    \A p \in Procs :
        /\ boot[p] = "waiting" <=> bootConn[p] # None
        /\ retry[p] = "waiting" <=> retryConn[p] # None
        /\ boot[p] = "down" => retry[p] = "off"

\* Every step keeps the types.
LEMMA TypeInduction == TypeOK /\ WaitersHaveConn /\ [Next]_vars => TypeOK' /\ WaitersHaveConn'
<1> SUFFICES ASSUME TypeOK, WaitersHaveConn, [Next]_vars PROVE TypeOK' /\ WaitersHaveConn'
  OBVIOUS
<1> USE DEF TypeOK, WaitersHaveConn, memory, process, ticker, history
<1>0. ASSUME UNCHANGED lockVars PROVE LockTypeOK'
  BY <1>0 DEF LockTypeOK, lockVars
<1>1. ASSUME NEW p \in Procs, NewContainer(p) PROVE TypeOK' /\ WaitersHaveConn'
  BY <1>0, <1>1 DEF NewContainer, Goto, RetryGoto, Statements
<1>2. ASSUME NEW p \in Procs, AcquireTimeout(p) PROVE TypeOK' /\ WaitersHaveConn'
  <2>1. LockTypeOK' /\ broken' \in BOOLEAN
    BY <1>2, EndTypes DEF AcquireTimeout, Lose
  <2> QED
    BY <1>2, <2>1 DEF AcquireTimeout, Goto
<1>3. ASSUME NEW p \in Procs, NEW c \in Conns, AcquireMigration(p, c)
      PROVE  TypeOK' /\ WaitersHaveConn'
  BY <1>0, <1>3 DEF AcquireMigration, Goto
<1>4. ASSUME NEW p \in Procs, MigrationGranted(p) PROVE TypeOK' /\ WaitersHaveConn'
  <2>1. LockTypeOK'
    BY <1>4, GrantTypes, SessionFacts DEF MigrationGranted
  <2> QED
    BY <1>4, <2>1 DEF MigrationGranted, Goto
<1>5. ASSUME NEW p \in Procs, Migrate(p) PROVE TypeOK' /\ WaitersHaveConn'
  <2>1. step[p] + 1 \in 0..Statements
    BY <1>5 DEF Migrate, Statements
  <2> QED
    BY <1>0, <1>5, <2>1 DEF Migrate
<1>6. ASSUME NEW p \in Procs, MigrateError(p) PROVE TypeOK' /\ WaitersHaveConn'
  BY <1>0, <1>6 DEF MigrateError, Fault
<1>7. ASSUME NEW p \in Procs, NEW c \in Conns, ReleaseMigration(p, c)
      PROVE  TypeOK' /\ WaitersHaveConn'
  <2>1. LockTypeOK'
    BY <1>7, UnlockTypes, SessionFacts DEF ReleaseMigration
  <2> QED
    BY <1>7, <2>1 DEF ReleaseMigration, Migrating, Goto, Statements
<1>8. ASSUME NEW p \in Procs,
             \/ AcquireError(p) \/ NoAdminConfigured(p) \/ FindByUsername(p)
             \/ DeleteError(p) \/ InsertUser(p) \/ CreateError(p)
             \/ \E c \in Conns : DeleteUser(p, c)
      PROVE  TypeOK' /\ WaitersHaveConn'
  <2>1. CASE FindByUsername(p)
    BY <1>0, <2>1 DEF FindByUsername, Goto
  <2>2. CASE \E c \in Conns : DeleteUser(p, c)
    <3>1. PICK c \in Conns : DeleteUser(p, c)
      BY <2>2
    <3>2. kept' \in [Procs -> Conns \cup {None}]
      BY <3>1 DEF DeleteUser
    <3> QED
      BY <1>0, <3>1, <3>2 DEF DeleteUser, Goto
  <2>3. CASE InsertUser(p)
    BY <1>0, <2>3 DEF InsertUser, Goto
  <2>4. CASE CreateError(p)
    BY <1>0, <2>4 DEF CreateError, Goto, Fault
  <2>5. CASE AcquireError(p)
    BY <1>0, <2>5 DEF AcquireError, Goto, Fault
  <2>6. CASE NoAdminConfigured(p)
    BY <1>0, <2>6 DEF NoAdminConfigured, Goto
  <2>7. CASE DeleteError(p)
    BY <1>0, <2>7 DEF DeleteError, Goto, Fault
  <2> QED
    BY <1>8, <2>1, <2>2, <2>3, <2>4, <2>5, <2>6, <2>7
<1>9. ASSUME NEW p \in Procs, NEW c \in Conns, RetryTick(p, c) PROVE TypeOK' /\ WaitersHaveConn'
  BY <1>0, <1>9 DEF RetryTick, Running, RetryGoto
<1>10. ASSUME NEW p \in Procs, RetryGranted(p) PROVE TypeOK' /\ WaitersHaveConn'
  <2>1. LockTypeOK'
    BY <1>10, GrantTypes, EndTypes, SessionFacts DEF RetryGranted
  <2> QED
    BY <1>10, <2>1 DEF RetryGranted, RetryGoto
<1>11. ASSUME NEW p \in Procs, RetryTimeout(p) PROVE TypeOK' /\ WaitersHaveConn'
  <2>1. LockTypeOK' /\ broken' \in BOOLEAN
    BY <1>11, EndTypes DEF RetryTimeout, Lose
  <2> QED
    BY <1>11, <2>1 DEF RetryTimeout, RetryGoto
<1>12. ASSUME NEW p \in Procs, RetryError(p) PROVE TypeOK' /\ WaitersHaveConn'
  BY <1>0, <1>12 DEF RetryError, RetryGoto, Fault
<1>13. ASSUME NEW p \in Procs, NEW c \in Conns, RetryRelease(p, c)
       PROVE  TypeOK' /\ WaitersHaveConn'
  <2>1. LockTypeOK'
    BY <1>0, <1>13, UnlockTypes, SessionFacts DEF RetryRelease
  <2> QED
    BY <1>13, <2>1 DEF RetryRelease, RetryGoto
<1>14. ASSUME NEW p \in Procs, GracefulExit(p) PROVE TypeOK' /\ WaitersHaveConn'
  <2>1. LockTypeOK'
    BY <1>14, EndTypes DEF GracefulExit
  <2> QED
    BY <1>14, <2>1 DEF GracefulExit, Goto
<1>15. ASSUME NEW p \in Procs, Exit(p) PROVE TypeOK' /\ WaitersHaveConn'
  <2>1. LockTypeOK'
    BY <1>15, EndTypes DEF Exit
  <2> QED
    BY <1>15, <2>1 DEF Exit, Goto, RetryGoto, Statements
<1>16. ASSUME NEW p \in Procs, NEW c \in Conns, ConnectionBreaks(p, c)
       PROVE  TypeOK' /\ WaitersHaveConn'
  <2>1. LockTypeOK' /\ broken' \in BOOLEAN
    BY <1>16, EndTypes DEF ConnectionBreaks, Lose
  <2> QED
    BY <1>16, <2>1 DEF ConnectionBreaks, Fault
<1>17. ASSUME UNCHANGED vars PROVE TypeOK' /\ WaitersHaveConn'
  BY <1>0, <1>17 DEF vars
<1> QED
  BY <1>1, <1>2, <1>3, <1>4, <1>5, <1>6, <1>7, <1>8, <1>9, <1>10, <1>11, <1>12, <1>13,
     <1>14, <1>15, <1>16, <1>17 DEF Next, Boot, Ticker

\* Types and reserved connections, in every behaviour.
LEMMA WiringInvariant == Spec => [](TypeOK /\ WaitersHaveConn)
<1>1. Init => TypeOK /\ WaitersHaveConn
  <2> SUFFICES ASSUME Init PROVE TypeOK /\ WaitersHaveConn
    OBVIOUS
  <2>1. LockTypeOK
    BY DEF Init, LockInit, LockTypeOK
  <2>2. 0 \in 0..Statements /\ 0 \in 0..MaxStarts /\ 0 \in 0..MaxFaults
    BY DEF Statements
  <2>3. WaitersHaveConn
    BY DEF Init, WaitersHaveConn
  <2> QED
    BY <2>1, <2>2, <2>3 DEF Init, TypeOK
<1>2. TypeOK /\ WaitersHaveConn /\ [Next]_vars => (TypeOK /\ WaitersHaveConn)'
  BY TypeInduction
<1> QED
  BY <1>1, <1>2, PTL DEF Spec

\* The database, the locks and the memory of every process keep their types:
\* a lock counts as taken exactly while it has a holder, and its holder is a
\* connection of some pool.
THEOREM TypeCorrect == Spec => []TypeOK
  BY WiringInvariant, PTL
-----------------------------------------------------------------------------
(* Tables.                                                                 *)

\* What a process has executed of the migration is in the database, and stays
\* there: the scripts only create what does not exist.
StepsDone == \A p \in Procs : step[p] <= tables

\* No step gets a process past Init before the tables are there.
LEMMA TablesInduction ==
    TypeOK /\ StepsDone /\ TablesBeforeUse /\ [Next]_vars => StepsDone' /\ TablesBeforeUse'
<1> SUFFICES ASSUME TypeOK, StepsDone, TablesBeforeUse, [Next]_vars
             PROVE  StepsDone' /\ TablesBeforeUse'
  OBVIOUS
<1>0. Statements \in Nat /\ tables \in 0..Statements
  BY DEF Statements, TypeOK
<1>1. ASSUME NEW p \in Procs, Migrate(p) PROVE StepsDone' /\ TablesBeforeUse'
  <2>1. /\ step[p] + 1 <= tables' /\ tables <= tables' /\ tables' \in 0..Statements
        /\ step \in [Procs -> 0..Statements]
    BY <1>0, <1>1 DEF Migrate, TypeOK
  <2>2. StepsDone'
    BY <1>0, <1>1, <2>1 DEF Migrate, StepsDone
  <2>3. TablesBeforeUse'
    BY <1>0, <1>1, <2>1 DEF Migrate, TablesBeforeUse
  <2> QED
    BY <2>2, <2>3
<1>2. ASSUME NEW p \in Procs, NEW c \in Conns, ReleaseMigration(p, c)
      PROVE  StepsDone' /\ TablesBeforeUse'
  <2>1. failing[p] \/ tables = Statements
    <3>1. step[p] \in 0..Statements /\ step[p] <= tables
      BY DEF StepsDone, TypeOK
    <3> QED
      BY <1>0, <1>2, <3>1 DEF ReleaseMigration
  <2>2. failing[p] \in BOOLEAN
    BY DEF TypeOK
  <2> QED
    BY <1>0, <1>2, <2>1, <2>2 DEF ReleaseMigration, Goto, StepsDone, TablesBeforeUse, TypeOK
<1>3. ASSUME NEW p \in Procs, NewContainer(p) \/ Exit(p) PROVE StepsDone' /\ TablesBeforeUse'
  <2>1. StepsDone'
    BY <1>0, <1>3 DEF NewContainer, Exit, StepsDone, TypeOK
  <2>2. TablesBeforeUse'
    BY <1>3 DEF NewContainer, Exit, Goto, TablesBeforeUse, TypeOK
  <2> QED
    BY <2>1, <2>2
<1>4. ASSUME UNCHANGED <<tables, step>>,
             \A p \in Procs : boot'[p] \in {"find", "delete", "insert", "ready"}
                               => boot[p] \in {"find", "delete", "insert", "ready"}
      PROVE  StepsDone' /\ TablesBeforeUse'
  BY <1>4 DEF StepsDone, TablesBeforeUse
<1>5. ASSUME NEW p \in Procs,
             \/ AcquireTimeout(p) \/ AcquireError(p) \/ MigrationGranted(p) \/ MigrateError(p)
             \/ NoAdminConfigured(p) \/ FindByUsername(p)
             \/ DeleteError(p) \/ InsertUser(p) \/ CreateError(p) \/ GracefulExit(p)
             \/ \E c \in Conns : AcquireMigration(p, c) \/ DeleteUser(p, c)
      PROVE  StepsDone' /\ TablesBeforeUse'
  <2>1. UNCHANGED <<tables, step>>
    BY <1>5 DEF AcquireTimeout, AcquireError, MigrationGranted, MigrateError,
       NoAdminConfigured, FindByUsername, DeleteUser, DeleteError, InsertUser, CreateError,
       GracefulExit, AcquireMigration, memory
  <2>2. \A q \in Procs : boot'[q] \in {"find", "delete", "insert", "ready"}
                          => boot[q] \in {"find", "delete", "insert", "ready"}
    BY <1>5 DEF AcquireTimeout, AcquireError, MigrationGranted, MigrateError,
       NoAdminConfigured, FindByUsername, DeleteUser, DeleteError, InsertUser, CreateError,
       GracefulExit, AcquireMigration, Goto, TypeOK
  <2> QED
    BY <1>4, <2>1, <2>2
<1>6. ASSUME NEW p \in Procs, Ticker(p) \/ \E c \in Conns : ConnectionBreaks(p, c)
      PROVE  StepsDone' /\ TablesBeforeUse'
  BY <1>4, <1>6 DEF Ticker, RetryTick, RetryRelease, RetryGranted, RetryTimeout, RetryError,
     ConnectionBreaks, process, memory
<1>7. ASSUME UNCHANGED vars PROVE StepsDone' /\ TablesBeforeUse'
  BY <1>4, <1>7 DEF vars, process, memory
<1> QED
  BY <1>1, <1>2, <1>3, <1>5, <1>6, <1>7 DEF Next, Boot

\* Whoever gets past the migration finds every table in place, also when the
\* scripts were executed by several processes, some of which failed half way.
THEOREM TablesComplete == Spec => []TablesBeforeUse
<1>1. Init => StepsDone /\ TablesBeforeUse
  BY DEF Init, StepsDone, TablesBeforeUse
<1>2. TypeOK /\ StepsDone /\ TablesBeforeUse /\ [Next]_vars => (StepsDone /\ TablesBeforeUse)'
  BY TablesInduction
<1> QED
  BY <1>1, <1>2, TypeCorrect, PTL DEF Spec
-----------------------------------------------------------------------------
(* The migration lock.                                                     *)

\* As long as nobody has lost the migration lock on the way, whoever migrates
\* holds it on one of its connections.
MigratorHolds == broken \/ \A p \in Procs : Migrating(p) => Holds(p, "migration")

\* A lock has one holder.
LEMMA HolderIsUnique == MigratorHolds => MigrationExclusive
  BY DEF MigratorHolds, MigrationExclusive, Holds

\* No step takes the lock from a process that migrates, unless a connection
\* is lost with it.
LEMMA MigratorInduction ==
    TypeOK /\ WaitersHaveConn /\ MigratorHolds /\ [Next]_vars => MigratorHolds'
<1> SUFFICES ASSUME TypeOK, WaitersHaveConn, MigratorHolds, [Next]_vars,
                    ~broken', NEW q \in Procs, Migrating(q)'
             PROVE  Holds(q, "migration")'
  BY DEF MigratorHolds, TypeOK
<1>0. ASSUME ~broken, Migrating(q), holder'["migration"] = holder["migration"]
      PROVE  Holds(q, "migration")'
  BY <1>0 DEF MigratorHolds, Holds
<1>1. ASSUME NEW p \in Procs, NEW c, Lose(p, c), Migrating(q) PROVE Holds(q, "migration")'
  <2>1. ~broken /\ ~(Migrating(p) /\ holder["migration"] = <<p, c>>)
    BY <1>1 DEF Lose, TypeOK
  <2>2. holder["migration"] # <<p, c>>
    BY <1>1, <2>1 DEF MigratorHolds, Holds
  <2>3. holder'["migration"] = holder["migration"]
    BY <1>1, <2>2 DEF Lose, EndSessions
  <2> QED
    BY <1>0, <1>1, <2>1, <2>3
<1>2. ASSUME NEW p \in Procs, MigrationGranted(p) PROVE Holds(q, "migration")'
  <2>1. bootConn[p] \in Conns /\ ~broken
    BY <1>2 DEF MigrationGranted, history, WaitersHaveConn, TypeOK
  <2>2. /\ holder["migration"] \in {NoSession, <<p, bootConn[p]>>}
        /\ holder'["migration"] = <<p, bootConn[p]>>
    BY <1>2 DEF MigrationGranted, Grant, Grantable, TypeOK, LockTypeOK
  <2>3. CASE q = p
    BY <2>1, <2>2, <2>3, SessionFacts DEF Holds
  <2>4. CASE q # p
    <3>1. Migrating(q)
      BY <1>2, <2>4 DEF MigrationGranted, Goto, Migrating, TypeOK
    <3> QED
      BY <2>1, <2>2, <2>4, <3>1, SessionFacts DEF MigratorHolds, Holds
  <2> QED
    BY <2>3, <2>4
<1>3. ASSUME NEW p \in Procs, AcquireTimeout(p) \/ RetryTimeout(p)
             \/ \E c \in Conns : ConnectionBreaks(p, c)
      PROVE  Holds(q, "migration")'
  <2>1. Migrating(q)
    BY <1>3 DEF AcquireTimeout, RetryTimeout, ConnectionBreaks, Goto, Migrating, process, TypeOK
  <2> QED
    BY <1>1, <1>3, <2>1 DEF AcquireTimeout, RetryTimeout, ConnectionBreaks
<1>4. ASSUME NEW p \in Procs, NEW c \in Conns, ReleaseMigration(p, c)
      PROVE  Holds(q, "migration")'
  <2>1. q # p /\ Migrating(q) /\ ~broken
    BY <1>4 DEF ReleaseMigration, Goto, Migrating, history, TypeOK
  <2>2. holder["migration"] # <<p, c>>
    BY <2>1, SessionFacts DEF MigratorHolds, Holds
  <2> QED
    BY <1>0, <1>4, <2>1, <2>2 DEF ReleaseMigration, Unlock, lockVars
<1>5. ASSUME NEW p \in Procs, NEW S \in SUBSET ({p} \X Conns), EndSessions(S),
             ~Migrating(p), Migrating(q), ~broken
      PROVE  Holds(q, "migration")'
  <2>1. holder["migration"] \notin S
    BY <1>5 DEF MigratorHolds, Holds
  <2> QED
    BY <1>0, <1>5, <2>1 DEF EndSessions
<1>6. ASSUME NEW p \in Procs, RetryGranted(p) PROVE Holds(q, "migration")'
  <2>1. Migrating(q) /\ ~broken /\ retryConn[p] \in Conns
    BY <1>6 DEF RetryGranted, Migrating, process, history, WaitersHaveConn, TypeOK
  <2>2. CASE boot[p] = "closed"
    <3>1. EndSessions({<<p, retryConn[p]>>}) /\ ~Migrating(p)
      BY <1>6, <2>2 DEF RetryGranted, Migrating
    <3> QED
      BY <1>5, <2>1, <3>1
  <2>3. CASE boot[p] # "closed"
    BY <1>0, <1>6, <2>1, <2>3 DEF RetryGranted, Grant, TypeOK, LockTypeOK
  <2> QED
    BY <2>2, <2>3
<1>7. ASSUME NEW p \in Procs, NEW c \in Conns, RetryRelease(p, c) PROVE Holds(q, "migration")'
  <2>1. Migrating(q) /\ ~broken
    BY <1>7 DEF RetryRelease, Migrating, process, history
  <2>2. holder'["migration"] = holder["migration"]
    BY <1>7 DEF RetryRelease, Unlock, lockVars, TypeOK, LockTypeOK
  <2> QED
    BY <1>0, <2>1, <2>2
<1>8. ASSUME NEW p \in Procs, GracefulExit(p) PROVE Holds(q, "migration")'
  <2>1. Migrating(q) /\ ~broken /\ ~Migrating(p)
    BY <1>8 DEF GracefulExit, Goto, Migrating, history, TypeOK
  <2> QED
    BY <1>5, <1>8, <2>1 DEF GracefulExit
<1>9. ASSUME NEW p \in Procs, Exit(p) PROVE Holds(q, "migration")'
  <2>1. q # p /\ Migrating(q) /\ ~broken
    BY <1>9 DEF Exit, Goto, Migrating, TypeOK
  <2>2. holder["migration"] \notin {p} \X Conns
    BY <2>1 DEF MigratorHolds, Holds
  <2> QED
    BY <1>0, <1>9, <2>1, <2>2 DEF Exit, EndSessions
<1>10. ASSUME NEW p \in Procs,
              \/ NewContainer(p) \/ AcquireError(p) \/ Migrate(p) \/ MigrateError(p)
              \/ NoAdminConfigured(p) \/ FindByUsername(p) \/ DeleteError(p)
              \/ InsertUser(p) \/ CreateError(p) \/ RetryError(p)
              \/ \E c \in Conns : AcquireMigration(p, c) \/ DeleteUser(p, c) \/ RetryTick(p, c)
       PROVE  Holds(q, "migration")'
  <2>1. UNCHANGED <<holder, broken>>
    BY <1>10 DEF NewContainer, AcquireError, Migrate, MigrateError, RetryError,
       NoAdminConfigured, FindByUsername, DeleteUser, DeleteError, InsertUser, CreateError,
       AcquireMigration, RetryTick, lockVars, history
  <2>2. Migrating(q)
    BY <1>10 DEF NewContainer, AcquireError, Migrate, MigrateError, RetryError,
       NoAdminConfigured, FindByUsername, DeleteUser, DeleteError, InsertUser, CreateError,
       AcquireMigration, RetryTick, process, Goto, Migrating, TypeOK
  <2> QED
    BY <1>0, <2>1, <2>2
<1>11. ASSUME UNCHANGED vars PROVE Holds(q, "migration")'
  BY <1>0, <1>11 DEF vars, lockVars, process, history, Migrating
<1> QED
  BY <1>2, <1>3, <1>4, <1>6, <1>7, <1>8, <1>9, <1>10, <1>11 DEF Next, Boot, Ticker

\* Two processes execute the scripts at the same time only after one of them has
\* lost the connection with the migration lock while it was migrating.
THEOREM OneMigrator == Spec => []MigrationExclusive
<1>1. Init => MigratorHolds
  BY DEF Init, MigratorHolds, Migrating
<1>2. TypeOK /\ WaitersHaveConn /\ MigratorHolds /\ [Next]_vars => MigratorHolds'
  BY MigratorInduction
<1> QED
  BY <1>1, <1>2, HolderIsUnique, WiringInvariant, PTL DEF Spec
-----------------------------------------------------------------------------
(* The dashboard user.                                                     *)

\* Whoever deletes the user is going to insert it again, or has ended between
\* the two; whoever returns with a user has seen it or has inserted it.
LEMMA AdminInduction == TypeOK /\ AdminKept /\ [Next]_vars => AdminKept'
<1> SUFFICES ASSUME TypeOK, AdminKept, [Next]_vars PROVE AdminKept'
  OBVIOUS
<1>1. ASSUME admin' = TRUE PROVE AdminKept'
  BY <1>1 DEF AdminKept
<1>2. ASSUME NEW p \in Procs, boot'[p] = "insert" PROVE AdminKept'
  BY <1>2 DEF AdminKept
<1>3. ASSUME unborn' = TRUE PROVE AdminKept'
  BY <1>3 DEF AdminKept
<1>4. ASSUME UNCHANGED <<admin, promised, unborn>>,
             \A p \in Procs : boot[p] = "insert" => boot'[p] = "insert"
      PROVE  AdminKept'
  BY <1>4 DEF AdminKept
<1>5. ASSUME NEW p \in Procs, FindByUsername(p) PROVE AdminKept'
  <2>1. CASE admin
    BY <1>1, <1>5, <2>1 DEF FindByUsername, TypeOK
  <2>2. CASE ~admin
    <3>1. UNCHANGED <<admin, promised, unborn>>
      BY <1>5, <2>2 DEF FindByUsername, TypeOK
    <3>2. \A r \in Procs : boot[r] = "insert" => boot'[r] = "insert"
      BY <1>5 DEF FindByUsername, Goto, TypeOK
    <3> QED
      BY <1>4, <3>1, <3>2
  <2> QED
    BY <2>1, <2>2
<1>6. ASSUME NEW p \in Procs, DeleteError(p) \/ \E c \in Conns : DeleteUser(p, c)
      PROVE  AdminKept'
  BY <1>2, <1>6 DEF DeleteUser, DeleteError, Goto, TypeOK
<1>7. ASSUME NEW p \in Procs, InsertUser(p) PROVE AdminKept'
  BY <1>1, <1>7 DEF InsertUser
<1>8. ASSUME NEW p \in Procs, CreateError(p) \/ Exit(p) PROVE AdminKept'
  <2>1. CASE boot[p] = "insert"
    BY <1>3, <1>8, <2>1 DEF CreateError, Exit
  <2>2. CASE boot[p] # "insert"
    <3>1. UNCHANGED <<admin, promised, unborn>>
      BY <1>8, <2>2 DEF CreateError, Exit, TypeOK
    <3>2. \A r \in Procs : boot[r] = "insert" => boot'[r] = "insert"
      BY <1>8, <2>2 DEF CreateError, Exit, Goto, TypeOK
    <3> QED
      BY <1>4, <3>1, <3>2
  <2> QED
    BY <2>1, <2>2
<1>9. ASSUME NEW p \in Procs,
             \/ NewContainer(p) \/ AcquireTimeout(p) \/ AcquireError(p) \/ MigrationGranted(p)
             \/ Migrate(p) \/ MigrateError(p) \/ NoAdminConfigured(p) \/ GracefulExit(p)
             \/ \E c \in Conns : AcquireMigration(p, c) \/ ReleaseMigration(p, c)
      PROVE  AdminKept'
  <2>1. UNCHANGED <<admin, promised, unborn>>
    BY <1>9 DEF NewContainer, AcquireTimeout, AcquireError, MigrationGranted, Migrate,
       MigrateError, NoAdminConfigured, GracefulExit, AcquireMigration, ReleaseMigration, history
  <2>2. \A r \in Procs : boot[r] = "insert" => boot'[r] = "insert"
    BY <1>9 DEF NewContainer, AcquireTimeout, AcquireError, MigrationGranted, Migrate,
       MigrateError, NoAdminConfigured, GracefulExit, AcquireMigration, ReleaseMigration,
       Migrating, Goto, TypeOK
  <2> QED
    BY <1>4, <2>1, <2>2
<1>10. ASSUME NEW p \in Procs, Ticker(p) \/ \E c \in Conns : ConnectionBreaks(p, c)
       PROVE  AdminKept'
  BY <1>4, <1>10 DEF Ticker, RetryTick, RetryRelease, RetryGranted, RetryTimeout, RetryError,
     ConnectionBreaks, process, history
<1>11. ASSUME UNCHANGED vars PROVE AdminKept'
  BY <1>4, <1>11 DEF vars, process, history
<1> QED
  BY <1>5, <1>6, <1>7, <1>8, <1>9, <1>10, <1>11 DEF Next, Boot

\* Once New has returned in a process with a dashboard user, the user is gone only
\* between the DELETE and the INSERT of another process, or because one ended there.
THEOREM AdminPresent == Spec => []AdminKept
<1>1. Init => AdminKept
  BY DEF Init, AdminKept
<1> QED
  BY <1>1, AdminInduction, TypeCorrect, PTL DEF Spec
-----------------------------------------------------------------------------
(* The locks of a process that has shut down.                              *)

\* After GracefulExit only the connection on which the ticker still waits and the
\* one that Create has kept can be the session of a lock: the others were closed.
ClosedPool ==
    \A p \in Procs : boot[p] = "closed" =>
        \A l \in Locks : Holds(p, l) => holder[l][2] \in {retryConn[p], kept[p]}

\* A ticker that does not wait has no connection.
LEMMA ClosedPoolFreesLocks ==
    TypeOK /\ WaitersHaveConn /\ ClosedPool => ShutdownFreesLocks
<1> SUFFICES ASSUME TypeOK, WaitersHaveConn, ClosedPool,
                    NEW p \in Procs, boot[p] = "closed", retry[p] # "waiting",
                    NEW l \in Locks, Holds(p, l)
             PROVE  holder[l] = <<p, kept[p]>>
  BY DEF ShutdownFreesLocks
<1>1. retryConn[p] = None /\ holder[l][2] \in {None, kept[p]}
  BY DEF WaitersHaveConn, ClosedPool
<1>2. holder[l] \in Sessions
  BY SessionFacts DEF TypeOK, LockTypeOK, Holds
<1>3. holder[l][2] # None /\ holder[l] = <<p, holder[l][2]>>
  BY <1>2, SessionFacts DEF Holds
<1> QED
  BY <1>1, <1>3

\* No step gives a lock to a process that has shut down.
LEMMA ClosedInduction ==
    TypeOK /\ WaitersHaveConn /\ ClosedPool /\ [Next]_vars => ClosedPool'
<1> SUFFICES ASSUME TypeOK, WaitersHaveConn, ClosedPool, [Next]_vars,
                    NEW q \in Procs, boot'[q] = "closed",
                    NEW l \in Locks, Holds(q, l)'
             PROVE  holder'[l][2] \in {retryConn'[q], kept'[q]}
  BY DEF ClosedPool
<1>0. ASSUME boot[q] = "closed", holder'[l] = holder[l],
             retryConn'[q] = retryConn[q], kept'[q] = kept[q]
      PROVE  holder'[l][2] \in {retryConn'[q], kept'[q]}
  BY <1>0 DEF ClosedPool, Holds
\* Ending sessions only makes holders disappear.
<1>1. ASSUME NEW S, EndSessions(S) PROVE holder'[l] = holder[l] /\ holder[l] \notin S
  BY <1>1, SessionFacts DEF EndSessions, Holds
\* What is not the connection of the ticker is the one that was kept.
<1>13. ASSUME boot[q] = "closed", holder'[l] = holder[l], holder[l] # <<q, retryConn[q]>>
       PROVE  holder'[l][2] = kept[q]
  <2>1. Holds(q, l) /\ holder[l] \in Sessions
    BY <1>13, SessionFacts DEF Holds, TypeOK, LockTypeOK
  <2>2. holder[l] = <<q, holder[l][2]>>
    BY <2>1, SessionFacts DEF Holds
  <2> QED
    BY <1>13, <2>1, <2>2 DEF ClosedPool
<1>2. ASSUME NEW p \in Procs, MigrationGranted(p) PROVE holder'[l][2] \in {retryConn'[q], kept'[q]}
  <2>1. q # p /\ boot[q] = "closed" /\ UNCHANGED <<retryConn, kept>>
    BY <1>2 DEF MigrationGranted, Goto, memory, ticker, TypeOK
  <2>2. holder'[l] = holder[l]
    <3>1. bootConn[p] \in Conns
      BY <1>2 DEF MigrationGranted, WaitersHaveConn, TypeOK
    <3> QED
      BY <1>2, <2>1, <3>1, SessionFacts DEF MigrationGranted, Grant, Holds, TypeOK, LockTypeOK
  <2> QED
    BY <1>0, <2>1, <2>2
<1>3. ASSUME NEW p \in Procs, AcquireTimeout(p) \/ \E c \in Conns : ConnectionBreaks(p, c)
      PROVE  holder'[l][2] \in {retryConn'[q], kept'[q]}
  <2>1. boot[q] = "closed" /\ UNCHANGED <<retryConn, kept>>
    BY <1>3 DEF AcquireTimeout, ConnectionBreaks, Goto, process, memory, ticker, TypeOK
  <2>2. holder'[l] = holder[l]
    BY <1>1, <1>3 DEF AcquireTimeout, ConnectionBreaks, Lose
  <2> QED
    BY <1>0, <2>1, <2>2
<1>4. ASSUME NEW p \in Procs, NEW c \in Conns, ReleaseMigration(p, c)
      PROVE  holder'[l][2] \in {retryConn'[q], kept'[q]}
  <2>1. q # p /\ boot[q] = "closed" /\ UNCHANGED <<retryConn, kept>>
    BY <1>4 DEF ReleaseMigration, Goto, memory, ticker, TypeOK
  <2>2. holder'[l] = holder[l]
    BY <1>4, <2>1, SessionFacts
       DEF ReleaseMigration, Unlock, lockVars, Holds, TypeOK, LockTypeOK
  <2> QED
    BY <1>0, <2>1, <2>2
<1>5. ASSUME NEW p \in Procs, RetryGranted(p)
      PROVE  holder'[l][2] \in {retryConn'[q], kept'[q]}
  <2>1. /\ boot[q] = "closed" /\ retryConn[p] \in Conns /\ kept' = kept
        /\ q # p => retryConn'[q] = retryConn[q]
    BY <1>5 DEF RetryGranted, process, memory, WaitersHaveConn, TypeOK
  <2>2. CASE q = p
    <3>1. EndSessions({<<q, retryConn[q]>>})
      BY <1>5, <2>1, <2>2 DEF RetryGranted
    <3>2. holder'[l] = holder[l] /\ holder[l] # <<q, retryConn[q]>>
      BY <1>1, <3>1
    <3> QED
      BY <1>13, <2>1, <3>2
  <2>3. CASE q # p
    <3>1. holder'[l] = holder[l]
      <4>1. CASE boot[p] = "closed"
        BY <1>1, <1>5, <4>1 DEF RetryGranted
      <4>2. CASE boot[p] # "closed"
        BY <1>5, <2>1, <2>3, <4>2, SessionFacts DEF RetryGranted, Grant, Holds, TypeOK, LockTypeOK
      <4> QED
        BY <4>1, <4>2
    <3> QED
      BY <1>0, <2>1, <2>3, <3>1
  <2> QED
    BY <2>2, <2>3
<1>6. ASSUME NEW p \in Procs, RetryTimeout(p)
      PROVE  holder'[l][2] \in {retryConn'[q], kept'[q]}
  <2>1. boot[q] = "closed" /\ kept' = kept /\ (q # p => retryConn'[q] = retryConn[q])
    BY <1>6 DEF RetryTimeout, process, memory, TypeOK
  <2>2. holder'[l] = holder[l] /\ holder[l] # <<p, retryConn[p]>>
    BY <1>1, <1>6 DEF RetryTimeout, Lose
  <2>3. CASE q = p
    BY <1>13, <2>1, <2>2, <2>3
  <2>4. CASE q # p
    BY <1>0, <2>1, <2>2, <2>4
  <2> QED
    BY <2>3, <2>4
<1>7. ASSUME NEW p \in Procs, NEW c \in Conns, RetryRelease(p, c)
      PROVE  holder'[l][2] \in {retryConn'[q], kept'[q]}
  <2>1. boot[q] = "closed" /\ UNCHANGED <<retryConn, kept>>
    BY <1>7 DEF RetryRelease, process, memory
  <2>2. holder'[l] = holder[l]
    <3>1. CASE boot[p] = "closed"
      BY <1>7, <3>1 DEF RetryRelease, lockVars
    <3>2. CASE boot[p] # "closed"
      BY <1>7, <2>1, <3>2, SessionFacts
         DEF RetryRelease, Unlock, lockVars, Holds, TypeOK, LockTypeOK
    <3> QED
      BY <3>1, <3>2
  <2> QED
    BY <1>0, <2>1, <2>2
<1>8. ASSUME NEW p \in Procs, GracefulExit(p)
      PROVE  holder'[l][2] \in {retryConn'[q], kept'[q]}
  <2>1. /\ holder'[l] = holder[l] /\ UNCHANGED <<retryConn, kept>>
        /\ holder[l] \notin {<<p, d>> : d \in {d \in Conns : Free(p, d)}}
    BY <1>1, <1>8 DEF GracefulExit, memory, ticker
  <2>2. CASE q = p
    <3>1. bootConn[q] = None
      BY <1>8, <2>2 DEF GracefulExit, WaitersHaveConn
    <3>2. PICK d \in Conns : holder[l] = <<q, d>>
      BY <2>1, SessionFacts DEF Holds, TypeOK, LockTypeOK
    <3>3. ~Free(q, d)
      BY <2>1, <2>2, <3>2
    <3>4. d \in {retryConn[q], kept[q]}
      BY <3>1, <3>3 DEF Free
    <3> QED
      BY <2>1, <3>2, <3>4
  <2>3. CASE q # p
    BY <1>0, <1>8, <2>1, <2>3 DEF GracefulExit, Goto, TypeOK
  <2> QED
    BY <2>2, <2>3
<1>9. ASSUME NEW p \in Procs, Exit(p) PROVE holder'[l][2] \in {retryConn'[q], kept'[q]}
  <2>1. q # p /\ boot[q] = "closed" /\ retryConn'[q] = retryConn[q] /\ kept'[q] = kept[q]
    BY <1>9 DEF Exit, Goto, TypeOK
  <2>2. holder'[l] = holder[l]
    BY <1>1, <1>9 DEF Exit
  <2> QED
    BY <1>0, <2>1, <2>2
<1>10. ASSUME NEW p \in Procs, NEW c \in Conns, RetryTick(p, c)
       PROVE  holder'[l][2] \in {retryConn'[q], kept'[q]}
  <2>1. /\ q # p /\ boot[q] = "closed"
        /\ retryConn'[q] = retryConn[q] /\ UNCHANGED <<holder, kept>>
    BY <1>10 DEF RetryTick, Running, process, memory, lockVars, TypeOK
  <2> QED
    BY <1>0, <2>1
<1>11. ASSUME NEW p \in Procs,
              \/ NewContainer(p) \/ AcquireError(p) \/ Migrate(p) \/ MigrateError(p)
              \/ NoAdminConfigured(p) \/ FindByUsername(p) \/ DeleteError(p)
              \/ InsertUser(p) \/ CreateError(p) \/ RetryError(p)
              \/ \E c \in Conns : AcquireMigration(p, c) \/ DeleteUser(p, c)
       PROVE  holder'[l][2] \in {retryConn'[q], kept'[q]}
  <2>1. UNCHANGED <<holder, retryConn>>
    BY <1>11 DEF NewContainer, AcquireError, Migrate, MigrateError, RetryError,
       NoAdminConfigured, FindByUsername, DeleteUser, DeleteError, InsertUser, CreateError,
       AcquireMigration, lockVars, ticker
  <2>2. boot[q] = "closed" /\ kept'[q] = kept[q]
    BY <1>11 DEF NewContainer, AcquireError, Migrate, MigrateError, RetryError,
       NoAdminConfigured, FindByUsername, DeleteUser, DeleteError, InsertUser, CreateError,
       AcquireMigration, process, memory, Goto, TypeOK
  <2> QED
    BY <1>0, <2>1, <2>2
<1>12. ASSUME UNCHANGED vars PROVE holder'[l][2] \in {retryConn'[q], kept'[q]}
  BY <1>0, <1>12 DEF vars, lockVars, process, memory, ticker
<1> QED
  BY <1>2, <1>3, <1>4, <1>5, <1>6, <1>7, <1>8, <1>9, <1>10, <1>11, <1>12 DEF Next, Boot, Ticker

\* GracefulExit leaves no lock behind once the ticker has its answer, but on the
\* connection whose row Create has never scanned, although
\* every Release after the stores are closed fails, and although an earlier
\* Release may have gone to a connection that did not hold the lock.
THEOREM NoLockLeft == Spec => []ShutdownFreesLocks
<1>1. Init => ClosedPool
  BY DEF Init, ClosedPool
<1>2. TypeOK /\ WaitersHaveConn /\ ClosedPool /\ [Next]_vars => ClosedPool'
  BY ClosedInduction
<1> QED
  BY <1>1, <1>2, ClosedPoolFreesLocks, WiringInvariant, PTL DEF Spec
=============================================================================
