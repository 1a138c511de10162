------------------------- MODULE EnqueuedJobsProofs -------------------------
(***************************************************************************)
(* Proofs about EnqueuedJobs, for any sets of jobs, servers and workers    *)
(* and any values of the other constants.                                  *)
(***************************************************************************)
EXTENDS EnqueuedJobs, TLAPS

USE NoneAssumption, SizeAssumption, BoundAssumption

\* A slot is idle, or it holds a job and a phase of its execution.
LEMMA SlotFacts ==
    /\ IdleSlot \in Slots
    /\ \A x \in Slots : x.phase # "idle" =>
          /\ x.id \in Jobs
          /\ x.attempts \in Nat
          /\ x.phase \in {"running", "succeeded", "failed"}
          /\ x # IdleSlot
    /\ \A j \in Jobs, n \in Nat, p \in {"running", "succeeded", "failed"} :
          [id |-> j, attempts |-> n, phase |-> p] \in Slots
  BY DEF Slots, IdleSlot

\* What a worker that has finished reports is a report.
LEMMA ReportFacts ==
    \A x \in Slots : x.phase \in {"succeeded", "failed"} =>
        /\ Report(x) \in Reports
        /\ Report(x).id = x.id /\ Report(x).attempts = x.attempts + 1
  BY SlotFacts DEF Report, Reports

\* Every step of EnqueuedJobs keeps the types.
LEMMA TypeInduction == TypeOK /\ [Next]_vars => TypeOK'
<1> SUFFICES ASSUME TypeOK, [Next]_vars PROVE TypeOK'
  OBVIOUS
<1> USE DEF TypeOK, rows, memory
<1>1. ASSUME NEW j \in Jobs, Insert(j) PROVE TypeOK'
  BY <1>1 DEF Insert, AllStatuses
<1>2. ASSUME NEW j \in Jobs, RemoveByID(j) PROVE TypeOK'
  BY <1>2 DEF RemoveByID, AllStatuses
<1>3. ASSUME NEW j \in Jobs, BecomeDue(j) PROVE TypeOK'
  BY <1>3 DEF BecomeDue
<1>4. ASSUME NEW j \in Jobs, LockAges(j) PROVE TypeOK'
  BY <1>4 DEF LockAges
<1>5. ASSUME NEW s \in Servers, NewContainer(s) PROVE TypeOK'
  BY <1>5 DEF NewContainer
<1>6. ASSUME NEW s \in Servers, Start(s) PROVE TypeOK'
  BY <1>6 DEF Start, UnlockStaleJobs, AllStatuses
<1>7. ASSUME NEW s \in Servers, Cancel(s) PROVE TypeOK'
  BY <1>7 DEF Cancel
<1>8. ASSUME NEW s \in Servers, ProcessorStops(s) PROVE TypeOK'
  BY <1>8 DEF ProcessorStops
<1>9. ASSUME NEW s \in Servers, Exit(s) \/ Crash(s) PROVE TypeOK'
  <2>1. Forget(s) /\ UNCHANGED <<rows, starts, faults>>
    BY <1>9 DEF Exit, Crash
  <2> QED
    BY <2>1, SlotFacts DEF Forget
<1>10. ASSUME NEW s \in Servers, FetchDueJobs(s) PROVE TypeOK'
  BY <1>10 DEF FetchDueJobs, DueJobs, Snapshots
<1>11. ASSUME NEW s \in Servers, NEW x \in batch[s], LockJob(s, x) PROVE TypeOK'
  BY <1>11 DEF LockJob, TakeLock, Snapshots, AllStatuses
<1>12. ASSUME NEW s \in Servers, NEW x \in batch[s], LockJobMisses(s, x) PROVE TypeOK'
  BY <1>12 DEF LockJobMisses
<1>13. ASSUME NEW s \in Servers, NEW x \in batch[s], LockJobFails(s, x) PROVE TypeOK'
  <2>1. CASE TakeLock(s, x.id)
    BY <1>13, <2>1 DEF LockJobFails, Fault, TakeLock, Snapshots, AllStatuses
  <2>2. CASE UNCHANGED rows
    BY <1>13, <2>2 DEF LockJobFails, Fault
  <2> QED
    BY <1>13, <2>1, <2>2 DEF LockJobFails
<1>14. ASSUME NEW s \in Servers, NEW w \in Workers, AcquireWorker(s, w) PROVE TypeOK'
  BY <1>14 DEF AcquireWorker, Snapshots, Slots
<1>15. ASSUME NEW s \in Servers, NEW w \in Workers, ExecuteHandler(s, w) PROVE TypeOK'
  <2>1. PICK outcome \in {"succeeded", "failed"} :
          worker' = [worker EXCEPT ![s][w].phase = outcome]
    BY <1>15 DEF ExecuteHandler
  <2>2. worker[s][w] \in Slots /\ worker[s][w].phase = "running"
    BY <1>15 DEF ExecuteHandler
  <2> DEFINE Busy == [id : Jobs, attempts : Nat, phase : {"running", "succeeded", "failed"}]
  <2>2a. worker[s][w] \in Busy
    BY <2>2 DEF Slots, IdleSlot
  <2>2b. [worker[s][w] EXCEPT !.phase = outcome] \in Busy
    BY <2>2a
  <2>3. [worker[s][w] EXCEPT !.phase = outcome] \in Slots
    BY <2>2b DEF Slots
  <2>4. worker' \in [Servers -> [Workers -> Slots]]
    BY <2>1, <2>3
  <2> QED
    BY <1>15, <2>4 DEF ExecuteHandler
<1>16. ASSUME NEW s \in Servers, NEW w \in Workers, HandlerPanics(s, w) PROVE TypeOK'
  BY <1>16, SlotFacts DEF HandlerPanics, ReleaseSlot, Fault
<1>17. ASSUME NEW s \in Servers, NEW w \in Workers, SendResult(s, w) PROVE TypeOK'
  <2>1. Report(worker[s][w]) \in Reports
    BY <1>17, ReportFacts DEF SendResult
  <2>2. results[s] \in Seq(Reports) /\ Len(results[s]) < ResultCap
    BY <1>17 DEF SendResult, HasRoom
  <2>3. /\ Append(results[s], Report(worker[s][w])) \in Seq(Reports)
        /\ Len(Append(results[s], Report(worker[s][w]))) <= ResultCap
    BY <2>1, <2>2
  <2>4. /\ results' \in [Servers -> Seq(Reports)]
        /\ \A t \in Servers : Len(results'[t]) <= ResultCap
    BY <1>17, <2>3 DEF SendResult
  <2> QED
    BY <1>17, <2>4, SlotFacts DEF SendResult, ReleaseSlot
<1>18. ASSUME NEW s \in Servers, ProcessResult(s) PROVE TypeOK'
  <2>1. PICK res \in Reports : res = Head(results[s])
    BY <1>18 DEF ProcessResult
  <2>2. /\ Tail(results[s]) \in Seq(Reports)
        /\ Len(Tail(results[s])) <= ResultCap
    BY <1>18 DEF ProcessResult
  <2>3. /\ results' \in [Servers -> Seq(Reports)]
        /\ \A t \in Servers : Len(results'[t]) <= ResultCap
    BY <1>18, <2>2 DEF ProcessResult
  <2>4. res.id \in Jobs
    BY DEF Reports
  <2>5. CASE MarkSuccess(res.id)
    BY <1>18, <2>3, <2>4, <2>5 DEF ProcessResult, MarkSuccess, AllStatuses
  <2>6. CASE MarkFailure(res.id, res.attempts)
    BY <1>18, <2>3, <2>4, <2>6 DEF ProcessResult, MarkFailure, FailureStatus, AllStatuses
  <2> QED
    BY <1>18, <2>1, <2>5, <2>6 DEF ProcessResult
<1>19. ASSUME NEW s \in Servers, DropResult(s) PROVE TypeOK'
  BY <1>19 DEF DropResult, Fault
<1>20. ASSUME NEW s \in Servers, MarkRetryFailedJobs(s) PROVE TypeOK'
  BY <1>20 DEF MarkRetryFailedJobs, Reschedule, AllStatuses
<1>20a. ASSUME NEW s \in Servers, NEW t \in Servers, OvertakenRetry(s, t) PROVE TypeOK'
  <2>1. PICK res \in Reports : res = Head(results[t])
    BY <1>20a DEF OvertakenRetry
  <2>2. res.id \in Jobs
    BY DEF Reports
  <2>3. /\ Tail(results[t]) \in Seq(Reports)
        /\ Len(Tail(results[t])) <= ResultCap
    BY <1>20a DEF OvertakenRetry
  <2>4. /\ results' \in [Servers -> Seq(Reports)]
        /\ \A u \in Servers : Len(results'[u]) <= ResultCap
    BY <1>20a, <2>3 DEF OvertakenRetry
  <2>5. attempts' \in [Jobs -> Nat]
    BY <1>20a, <2>1, <2>2 DEF OvertakenRetry
  <2> QED
    BY <1>20a, <2>4, <2>5 DEF OvertakenRetry, Reschedule, AllStatuses
<1>21. ASSUME NEW s \in Servers, RetryLoopEnds(s) PROVE TypeOK'
  BY <1>21 DEF RetryLoopEnds
<1>22. ASSUME UNCHANGED vars PROVE TypeOK'
  BY <1>22 DEF vars
<1> QED
  BY <1>1, <1>2, <1>3, <1>4, <1>5, <1>6, <1>7, <1>8, <1>9, <1>10, <1>11, <1>12,
     <1>13, <1>14, <1>15, <1>16, <1>17, <1>18, <1>19, <1>20, <1>20a, <1>21, <1>22
  DEF Next, TableStep, ServerStep, PollStep, WorkerStep, FaultStep
-----------------------------------------------------------------------------
(* How a step changes the memory of the servers, variable by variable.     *)

\* A batch is read by FetchDueJobs and only shrinks otherwise.
LEMMA BatchChange ==
    ASSUME TypeOK, [Next]_vars, NEW s \in Servers
    PROVE  batch'[s] \subseteq batch[s] \/ FetchDueJobs(s)
<1>1. \/ UNCHANGED batch
      \/ \E t \in Servers : batch' = [batch EXCEPT ![t] = {}]
      \/ \E t \in Servers, x \in Snapshots : batch' = [batch EXCEPT ![t] = @ \ {x}]
      \/ \E t \in Servers : FetchDueJobs(t)
  BY DEF TypeOK, Next, TableStep, ServerStep, PollStep, WorkerStep, FaultStep, vars, rows, memory,
     Insert, RemoveByID, BecomeDue, LockAges, NewContainer, Start, Cancel,
     ProcessorStops, Exit, Crash, Forget, LockJob, LockJobMisses, LockJobFails,
     AcquireWorker, ExecuteHandler, HandlerPanics, SendResult, ReleaseSlot,
     ProcessResult, DropResult, MarkRetryFailedJobs, OvertakenRetry, RetryLoopEnds
<1>2. ASSUME NEW t \in Servers, t # s, FetchDueJobs(t) PROVE batch'[s] = batch[s]
  BY <1>2 DEF FetchDueJobs, TypeOK
<1>3. CASE UNCHANGED batch
  BY <1>3
<1>4. ASSUME NEW t \in Servers, batch' = [batch EXCEPT ![t] = {}] PROVE batch'[s] \subseteq batch[s]
  BY <1>4 DEF TypeOK
<1>5. ASSUME NEW t \in Servers, NEW x \in Snapshots, batch' = [batch EXCEPT ![t] = @ \ {x}]
      PROVE  batch'[s] \subseteq batch[s]
  BY <1>5 DEF TypeOK
<1>6. ASSUME NEW t \in Servers, FetchDueJobs(t)
      PROVE  batch'[s] \subseteq batch[s] \/ FetchDueJobs(s)
  BY <1>2, <1>6
<1> QED
  BY <1>1, <1>3, <1>4, <1>5, <1>6

\* The waiting job comes from the batch, and leaves without being replaced.
LEMMA HeldChange ==
    ASSUME TypeOK, [Next]_vars, NEW s \in Servers
    PROVE  held'[s] \in {held[s], NoJob} \cup batch[s]
<1>1. \/ UNCHANGED held
      \/ \E t \in Servers : held' = [held EXCEPT ![t] = NoJob]
      \/ \E t \in Servers : \E x \in batch[t] : held' = [held EXCEPT ![t] = x]
  BY DEF FetchDueJobs, Next, TableStep, ServerStep, PollStep, WorkerStep, FaultStep, vars, rows, memory,
     Insert, RemoveByID, BecomeDue, LockAges, NewContainer, Start, Cancel,
     ProcessorStops, Exit, Crash, Forget, LockJob, LockJobMisses, LockJobFails,
     AcquireWorker, ExecuteHandler, HandlerPanics, SendResult, ReleaseSlot,
     ProcessResult, DropResult, MarkRetryFailedJobs, OvertakenRetry, RetryLoopEnds
<1> QED
  BY <1>1 DEF TypeOK

\* A slot is filled by AcquireWorker, changed by the handler, and emptied.
LEMMA WorkerChange ==
    ASSUME TypeOK, [Next]_vars, NEW s \in Servers, NEW w \in Workers
    PROVE  \/ worker'[s][w] \in {worker[s][w], IdleSlot}
           \/ ExecuteHandler(s, w)
           \/ AcquireWorker(s, w)
<1>1. \/ UNCHANGED worker
      \/ \E t \in Servers : worker' = [worker EXCEPT ![t] = [v \in Workers |-> IdleSlot]]
      \/ \E t \in Servers, v \in Workers : ReleaseSlot(t, v)
      \/ \E t \in Servers, v \in Workers : ExecuteHandler(t, v) \/ AcquireWorker(t, v)
  BY DEF FetchDueJobs, Next, TableStep, ServerStep, PollStep, WorkerStep, FaultStep, vars, rows, memory,
     Insert, RemoveByID, BecomeDue, LockAges, NewContainer, Start, Cancel,
     ProcessorStops, Exit, Crash, Forget, LockJob, LockJobMisses, LockJobFails,
     HandlerPanics, SendResult, ProcessResult, DropResult, MarkRetryFailedJobs,
     OvertakenRetry, RetryLoopEnds
<1>2. CASE UNCHANGED worker
  BY <1>2
<1>3. ASSUME NEW t \in Servers, worker' = [worker EXCEPT ![t] = [v \in Workers |-> IdleSlot]]
      PROVE  worker'[s][w] \in {worker[s][w], IdleSlot}
  BY <1>3 DEF TypeOK
<1>4. ASSUME NEW t \in Servers, NEW v \in Workers, ReleaseSlot(t, v)
      PROVE  worker'[s][w] \in {worker[s][w], IdleSlot}
  BY <1>4 DEF TypeOK, ReleaseSlot
<1>5. ASSUME NEW t \in Servers, NEW v \in Workers, t # s \/ v # w,
             ExecuteHandler(t, v) \/ AcquireWorker(t, v)
      PROVE  worker'[s][w] = worker[s][w]
  <2>1. PICK x : worker' = [worker EXCEPT ![t][v] = x]
    <3>1. CASE ExecuteHandler(t, v)
      <4>1. PICK outcome : worker' = [worker EXCEPT ![t][v].phase = outcome]
        BY <3>1 DEF ExecuteHandler
      <4>2. worker' = [worker EXCEPT ![t][v] = [worker[t][v] EXCEPT !.phase = outcome]]
        BY <4>1
      <4> QED
        BY <4>2
    <3>2. CASE AcquireWorker(t, v)
      BY <3>2 DEF AcquireWorker
    <3> QED
      BY <1>5, <3>1, <3>2
  <2> QED
    BY <1>5, <2>1 DEF TypeOK
<1>6. ASSUME NEW t \in Servers, NEW v \in Workers, ExecuteHandler(t, v) \/ AcquireWorker(t, v)
      PROVE  \/ worker'[s][w] \in {worker[s][w], IdleSlot}
             \/ ExecuteHandler(s, w)
             \/ AcquireWorker(s, w)
  <2>1. CASE t = s /\ v = w
    BY <1>6, <2>1
  <2> QED
    BY <1>5, <1>6, <2>1
<1>7. CASE \E t \in Servers, v \in Workers : ExecuteHandler(t, v) \/ AcquireWorker(t, v)
  BY <1>6, <1>7
<1> QED
  BY <1>1, <1>2, <1>3, <1>4, <1>7

\* The channel is first in, first out; it is emptied when the process ends.
LEMMA ResultsChange ==
    ASSUME TypeOK, [Next]_vars, NEW s \in Servers
    PROVE  \/ results'[s] = results[s]
           \/ results'[s] = <<>>
           \/ results[s] # <<>> /\ results'[s] = Tail(results[s])
           \/ \E w \in Workers : SendResult(s, w)
<1>1. \/ UNCHANGED results
      \/ \E t \in Servers : results' = [results EXCEPT ![t] = <<>>]
      \/ \E t \in Servers : results[t] # <<>> /\ results' = [results EXCEPT ![t] = Tail(@)]
      \/ \E t \in Servers, w \in Workers : SendResult(t, w)
  BY DEF FetchDueJobs, Next, TableStep, ServerStep, PollStep, WorkerStep, FaultStep, vars, rows, memory,
     Insert, RemoveByID, BecomeDue, LockAges, NewContainer, Start, Cancel,
     ProcessorStops, Exit, Crash, Forget, LockJob, LockJobMisses, LockJobFails,
     AcquireWorker, ExecuteHandler, HandlerPanics, ProcessResult, DropResult,
     MarkRetryFailedJobs, OvertakenRetry, RetryLoopEnds
<1>2. ASSUME NEW t \in Servers, t # s, NEW w \in Workers, SendResult(t, w)
      PROVE  results'[s] = results[s]
  BY <1>2 DEF SendResult, TypeOK
<1>3. CASE UNCHANGED results
  BY <1>3
<1>4. ASSUME NEW t \in Servers, results' = [results EXCEPT ![t] = <<>>]
      PROVE  results'[s] = results[s] \/ results'[s] = <<>>
  BY <1>4 DEF TypeOK
<1>5. ASSUME NEW t \in Servers, results[t] # <<>>, results' = [results EXCEPT ![t] = Tail(@)]
      PROVE  results'[s] = results[s] \/ (results[s] # <<>> /\ results'[s] = Tail(results[s]))
  BY <1>5 DEF TypeOK
<1>6. ASSUME NEW t \in Servers, NEW w \in Workers, SendResult(t, w)
      PROVE  results'[s] = results[s] \/ SendResult(s, w)
  BY <1>2, <1>6
<1> QED
  BY <1>1, <1>3, <1>4, <1>5, <1>6
-----------------------------------------------------------------------------
(* The counter of a row only grows, so what was read of it stays a lower   *)
(* bound.                                                                  *)

\* No step decreases the attempts of a row.
LEMMA AttemptsGrow ==
    TypeOK /\ [Next]_vars => \A j \in Jobs : attempts[j] <= attempts'[j]
<1> SUFFICES ASSUME TypeOK, [Next]_vars, NEW j \in Jobs PROVE attempts[j] <= attempts'[j]
  OBVIOUS
<1>1. attempts \in [Jobs -> Nat]
  BY DEF TypeOK
<1>2. ASSUME NEW s \in Servers, ProcessResult(s) PROVE attempts[j] <= attempts'[j]
  <2>1. Head(results[s]) \in Reports
    BY <1>2 DEF ProcessResult, TypeOK
  <2>2. CASE UNCHANGED attempts
    BY <1>1, <2>2
  <2>3. CASE MarkFailure(Head(results[s]).id, Head(results[s]).attempts)
    BY <1>1, <2>1, <2>3 DEF MarkFailure, Reports
  <2> QED
    BY <1>2, <2>2, <2>3 DEF ProcessResult, MarkSuccess
<1>3. ASSUME UNCHANGED attempts PROVE attempts[j] <= attempts'[j]
  BY <1>1, <1>3
<1>4. ASSUME NEW s \in Servers, NEW t \in Servers, OvertakenRetry(s, t)
      PROVE  attempts[j] <= attempts'[j]
  <2>1. Head(results[t]) \in Reports
    BY <1>4 DEF OvertakenRetry, TypeOK
  <2> QED
    BY <1>1, <1>4, <2>1 DEF OvertakenRetry, Reports
<1> QED
  BY <1>2, <1>3, <1>4 DEF Next, TableStep, ServerStep, PollStep, WorkerStep, FaultStep, vars, rows,
     Insert, RemoveByID, BecomeDue, LockAges, NewContainer, Start, UnlockStaleJobs, Cancel,
     ProcessorStops, Exit, Crash, FetchDueJobs, LockJob, LockJobMisses, LockJobFails, TakeLock,
     AcquireWorker, ExecuteHandler, HandlerPanics, SendResult, DropResult,
     MarkRetryFailedJobs, RetryLoopEnds

\* No step makes a memory run ahead of the rows.
LEMMA SnapshotsInduction ==
    TypeOK /\ SnapshotsNotAhead /\ [Next]_vars => SnapshotsNotAhead'
<1> SUFFICES ASSUME TypeOK, SnapshotsNotAhead, [Next]_vars, NEW s \in Servers
             PROVE  /\ \A x \in batch'[s] : x.attempts <= attempts'[x.id]
                    /\ held'[s] # NoJob => held'[s].attempts <= attempts'[held'[s].id]
                    /\ \A w \in Workers : worker'[s][w] # IdleSlot
                          => worker'[s][w].attempts <= attempts'[worker'[s][w].id]
                    /\ \A i \in DOMAIN results'[s] :
                          results'[s][i].attempts <= attempts'[results'[s][i].id] + 1
  BY DEF SnapshotsNotAhead
<1>0. TypeOK' /\ \A j \in Jobs : attempts[j] <= attempts'[j]
  BY TypeInduction, AttemptsGrow
<1>1. ASSUME NEW x \in batch'[s] PROVE x.attempts <= attempts'[x.id]
  <2>1. CASE x \in batch[s]
    <3>1. x.attempts <= attempts[x.id] /\ x.id \in Jobs /\ x.attempts \in Nat
      BY <2>1 DEF SnapshotsNotAhead, TypeOK, Snapshots
    <3> QED
      BY <3>1, <1>0 DEF TypeOK
  <2>2. CASE FetchDueJobs(s)
    BY <2>2, <1>1 DEF FetchDueJobs, DueJobs, rows, TypeOK
  <2>3. batch'[s] \subseteq batch[s] \/ FetchDueJobs(s)
    BY BatchChange
  <2> QED
    BY <1>1, <2>1, <2>2, <2>3
<1>2. ASSUME held'[s] # NoJob PROVE held'[s].attempts <= attempts'[held'[s].id]
  <2>1. held'[s] \in batch[s] \/ (held'[s] = held[s] /\ held[s] # NoJob)
    BY <1>2, HeldChange
  <2>2. held'[s].attempts <= attempts[held'[s].id]
    BY <2>1 DEF SnapshotsNotAhead
  <2>3. held'[s].id \in Jobs /\ held'[s].attempts \in Nat
    BY <1>0, <1>2 DEF TypeOK, Snapshots
  <2> QED
    BY <1>0, <2>2, <2>3 DEF TypeOK
<1>3. ASSUME NEW w \in Workers, worker'[s][w] # IdleSlot
      PROVE  worker'[s][w].attempts <= attempts'[worker'[s][w].id]
  <2>1. \/ worker'[s][w] = worker[s][w] /\ worker[s][w] # IdleSlot
        \/ ExecuteHandler(s, w)
        \/ AcquireWorker(s, w)
    BY <1>3, WorkerChange
  <2>2. worker'[s][w].attempts <= attempts[worker'[s][w].id]
    <3>1. CASE worker'[s][w] = worker[s][w] /\ worker[s][w] # IdleSlot
      BY <3>1 DEF SnapshotsNotAhead
    <3>2. CASE ExecuteHandler(s, w)
      <4>1. worker[s][w] \in Slots /\ worker[s][w].phase = "running"
        BY <3>2 DEF ExecuteHandler, TypeOK
      <4>2. worker[s][w] # IdleSlot
        BY <4>1 DEF IdleSlot
      <4>3. /\ worker'[s][w].attempts = worker[s][w].attempts
            /\ worker'[s][w].id = worker[s][w].id
        BY <3>2 DEF ExecuteHandler, TypeOK
      <4> QED
        BY <4>2, <4>3 DEF SnapshotsNotAhead
    <3>3. CASE AcquireWorker(s, w)
      BY <3>3 DEF AcquireWorker, SnapshotsNotAhead, TypeOK
    <3> QED
      BY <2>1, <3>1, <3>2, <3>3
  <2>3. worker'[s][w].id \in Jobs /\ worker'[s][w].attempts \in Nat
    BY <1>0, <1>3 DEF TypeOK, Slots
  <2> QED
    BY <1>0, <2>2, <2>3 DEF TypeOK
<1>4. ASSUME NEW i \in DOMAIN results'[s]
      PROVE  results'[s][i].attempts <= attempts'[results'[s][i].id] + 1
  <2>1. \/ results'[s] = results[s]
        \/ results'[s] = <<>>
        \/ results[s] # <<>> /\ results'[s] = Tail(results[s])
        \/ \E w \in Workers : SendResult(s, w)
    BY ResultsChange
  <2>2. results'[s][i].attempts <= attempts[results'[s][i].id] + 1
    <3>1. CASE results'[s] = results[s]
      BY <3>1, <1>4 DEF SnapshotsNotAhead
    <3>2. CASE results'[s] = <<>>
      BY <3>2, <1>4
    <3>3. CASE results[s] # <<>> /\ results'[s] = Tail(results[s])
      <4>1. i + 1 \in DOMAIN results[s] /\ results'[s][i] = results[s][i + 1]
        BY <3>3, <1>4 DEF TypeOK
      <4> QED
        BY <4>1 DEF SnapshotsNotAhead
    <3>4. ASSUME NEW w \in Workers, SendResult(s, w)
          PROVE  results'[s][i].attempts <= attempts[results'[s][i].id] + 1
      <4>1. results'[s] = Append(results[s], Report(worker[s][w]))
        BY <3>4 DEF SendResult, TypeOK
      <4>2. CASE i \in DOMAIN results[s]
        BY <4>1, <4>2 DEF SnapshotsNotAhead, TypeOK
      <4>3. CASE results'[s][i] = Report(worker[s][w])
        <5>1. worker[s][w] \in Slots /\ worker[s][w].phase \in {"succeeded", "failed"}
          BY <3>4 DEF SendResult, TypeOK
        <5>2. worker[s][w] # IdleSlot /\ worker[s][w].attempts \in Nat /\ worker[s][w].id \in Jobs
          BY <5>1, SlotFacts
        <5>3. worker[s][w].attempts <= attempts[worker[s][w].id]
          BY <5>2 DEF SnapshotsNotAhead
        <5> QED
          BY <4>3, <5>1, <5>2, <5>3, ReportFacts DEF TypeOK
      <4> QED
        BY <1>4, <4>1, <4>2, <4>3 DEF TypeOK
    <3> QED
      BY <2>1, <3>1, <3>2, <3>3, <3>4
  <2>3. results'[s][i] \in Reports
    BY <1>0, <1>4 DEF TypeOK
  <2> QED
    BY <1>0, <2>2, <2>3 DEF TypeOK, Reports
<1> QED
  BY <1>1, <1>2, <1>3, <1>4
-----------------------------------------------------------------------------
(* The invariants of the rows.                                             *)

\* What is claimed of every row, whoever writes it.  A job that was never
\* inserted has no attempts: without this the insert could not be shown to
\* leave attempts.
RowsInv ==
    /\ ProcessingIsReleasable
    /\ DeadOnlyAfterMaxAttempts
    /\ \A j \in Jobs : status[j] = "unborn" => attempts[j] = 0

\* Every statement keeps the invariants of the rows; applying a result needs
\* that the number it carries is not ahead of the row.
LEMMA RowsInduction ==
    TypeOK /\ SnapshotsNotAhead /\ RowsInv /\ [Next]_vars => RowsInv'
<1> SUFFICES ASSUME TypeOK, SnapshotsNotAhead, RowsInv, [Next]_vars PROVE RowsInv'
  OBVIOUS
<1> USE DEF RowsInv, ProcessingIsReleasable, DeadOnlyAfterMaxAttempts
<1>1. ASSUME NEW j \in Jobs, TableStep(j) PROVE RowsInv'
  <2>1. CASE Insert(j)
    BY <2>1 DEF Insert, TypeOK
  <2>2. CASE RemoveByID(j)
    BY <2>2 DEF RemoveByID, TypeOK
  <2>3. CASE BecomeDue(j)
    BY <2>3 DEF BecomeDue
  <2>4. CASE LockAges(j)
    BY <2>4 DEF LockAges, TypeOK
  <2> QED
    BY <1>1, <2>1, <2>2, <2>3, <2>4 DEF TableStep
<1>2. ASSUME NEW s \in Servers, Start(s) PROVE RowsInv'
  BY <1>2 DEF Start, UnlockStaleJobs, Stale, TypeOK
<1>3. ASSUME NEW s \in Servers, NEW j \in Jobs, Lockable(j), TakeLock(s, j) PROVE RowsInv'
  BY <1>3 DEF Lockable, TakeLock, TypeOK
<1>4. ASSUME NEW s \in Servers, MarkRetryFailedJobs(s) PROVE RowsInv'
  BY <1>4 DEF MarkRetryFailedJobs, Reschedule, Retryable, TypeOK
<1>4a. ASSUME NEW s \in Servers, NEW t \in Servers, OvertakenRetry(s, t) PROVE RowsInv'
  <2>1. \A j \in Jobs : status'[j] # status[j] => status'[j] = "retrying"
    BY <1>4a DEF OvertakenRetry, Reschedule, TypeOK
  <2>2. UNCHANGED <<lockedBy, lockedAt>> /\ \A j \in Jobs : attempts[j] <= attempts'[j]
    BY <1>4a, AttemptsGrow DEF OvertakenRetry, Reschedule
  <2>3. Head(results[t]) \in Reports /\ Retryable(Head(results[t]).id)
    BY <1>4a DEF OvertakenRetry, TypeOK
  <2>4. ASSUME NEW j \in Jobs, status'[j] = "unborn" PROVE attempts'[j] = attempts[j]
    BY <1>4a, <2>1, <2>3, <2>4 DEF OvertakenRetry, Retryable, Reports, TypeOK
  <2>5. attempts \in [Jobs -> Nat] /\ attempts' \in [Jobs -> Nat] /\ MaxRetryAttempt \in Nat
    BY TypeInduction DEF TypeOK
  <2> QED
    BY <2>1, <2>2, <2>4, <2>5
<1>5. ASSUME NEW s \in Servers, ProcessResult(s) PROVE RowsInv'
  <2>1. PICK res \in Reports : res = Head(results[s])
    BY <1>5 DEF ProcessResult, TypeOK
  <2>2. res.id \in Jobs /\ res.attempts \in Nat /\ res.attempts <= attempts[res.id] + 1
    <3>1. 1 \in DOMAIN results[s] /\ res = results[s][1]
      BY <1>5, <2>1 DEF ProcessResult, TypeOK
    <3> QED
      BY <3>1 DEF SnapshotsNotAhead, Reports
  <2>3. CASE MarkSuccess(res.id)
    BY <2>2, <2>3 DEF MarkSuccess, TypeOK
  <2>4. CASE MarkFailure(res.id, res.attempts)
    BY <2>2, <2>4 DEF MarkFailure, FailureStatus, TypeOK
  <2> QED
    BY <1>5, <2>1, <2>3, <2>4 DEF ProcessResult
<1>6. ASSUME UNCHANGED rows PROVE RowsInv'
  BY <1>6 DEF rows
<1>7. ASSUME NEW s \in Servers, NEW x \in batch[s], LockJob(s, x) \/ LockJobFails(s, x)
      PROVE  RowsInv'
  BY <1>3, <1>6, <1>7 DEF LockJob, LockJobFails, TypeOK, Snapshots
<1>8. ASSUME NEW s \in Servers, ServerStep(s) PROVE RowsInv'
  <2>1. \/ UNCHANGED rows
        \/ Start(s) \/ MarkRetryFailedJobs(s) \/ ProcessResult(s)
        \/ \E t \in Servers : OvertakenRetry(s, t)
        \/ \E x \in batch[s] : LockJob(s, x) \/ LockJobFails(s, x)
    BY <1>8 DEF ServerStep, PollStep, WorkerStep, FaultStep, NewContainer, Cancel,
       ProcessorStops, Exit, Crash, FetchDueJobs, LockJobMisses, AcquireWorker,
       ExecuteHandler, HandlerPanics, SendResult, DropResult, RetryLoopEnds
  <2> QED
    BY <2>1, <1>2, <1>4, <1>4a, <1>5, <1>6, <1>7
<1> QED
  BY <1>1, <1>6, <1>8 DEF Next, vars
-----------------------------------------------------------------------------
(* The lock of a server that is up is backed by work it has in hand.       *)

\* No step orphans a lock of a server that is up, unless something fails.
LEMMA HolderInduction ==
    TypeOK /\ ProcessingIsReleasable /\ LockHasHolder /\ [Next]_vars => LockHasHolder'
<1> SUFFICES ASSUME TypeOK, ProcessingIsReleasable, LockHasHolder, [Next]_vars,
                    NEW j \in Jobs, NEW s \in Servers,
                    faults' = 0, status'[j] = "processing", lockedBy'[j] = s, pc'[s] = "up"
             PROVE  InHand(s, j)'
  BY DEF LockHasHolder
<1> DEFINE Locked == status[j] = "processing" /\ lockedBy[j] = s /\ pc[s] = "up"
<1>1. faults = 0 /\ ~Fault
  <2>1. ~Fault
    BY DEF Fault, TypeOK
  <2>2. UNCHANGED faults
    BY <2>1 DEF Next, TableStep, ServerStep, PollStep, WorkerStep, FaultStep, vars,
       Insert, RemoveByID, BecomeDue, LockAges, NewContainer, Start, Cancel, ProcessorStops,
       Exit, Crash, FetchDueJobs, LockJob, LockJobMisses, LockJobFails, AcquireWorker,
       ExecuteHandler, HandlerPanics, SendResult, ProcessResult, DropResult,
       MarkRetryFailedJobs, OvertakenRetry, RetryLoopEnds
  <2> QED
    BY <2>1, <2>2
<1>2. ASSUME Locked PROVE InHand(s, j)
  BY <1>1, <1>2 DEF LockHasHolder
\* A step that does not touch what s has in hand.
<1>3. ASSUME Locked, held'[s] = held[s], worker'[s] = worker[s], results'[s] = results[s]
      PROVE  InHand(s, j)'
  BY <1>2, <1>3 DEF InHand
<1>4. ASSUME NEW k \in Jobs, TableStep(k) PROVE InHand(s, j)'
  <2>1. Locked
    BY <1>4 DEF TableStep, Insert, RemoveByID, BecomeDue, LockAges, TypeOK, memory
  <2> QED
    BY <1>3, <1>4, <2>1 DEF TableStep, Insert, RemoveByID, BecomeDue, LockAges, memory
<1>5. ASSUME UNCHANGED vars PROVE InHand(s, j)'
  BY <1>3, <1>5 DEF vars, rows, memory
<1>6. ASSUME NEW t \in Servers, Start(t) PROVE FALSE
  BY <1>6 DEF Start, UnlockStaleJobs, Stale, ProcessingIsReleasable
<1>7. ASSUME NEW t \in Servers, NewContainer(t) \/ ProcessorStops(t) \/ FetchDueJobs(t)
      PROVE  InHand(s, j)'
  BY <1>3, <1>7 DEF NewContainer, ProcessorStops, FetchDueJobs, rows, TypeOK
<1>8. ASSUME NEW t \in Servers, Cancel(t) \/ Exit(t) \/ Crash(t) PROVE InHand(s, j)'
  <2>1. t # s
    BY <1>8 DEF Cancel, Exit, Crash, Forget, TypeOK
  <2> QED
    BY <1>3, <1>8, <2>1 DEF Cancel, Exit, Crash, Forget, rows, TypeOK
<1>9. ASSUME NEW t \in Servers, NEW x \in batch[t], LockJob(t, x) PROVE InHand(s, j)'
  <2>1. CASE t = s /\ x.id = j
    BY <1>9, <2>1 DEF LockJob, InHand, TypeOK
  <2>2. CASE t # s /\ x.id = j
    BY <1>9, <2>2 DEF LockJob, TakeLock, TypeOK
  <2>3. CASE t # s /\ x.id # j
    BY <1>3, <1>9, <2>3 DEF LockJob, TakeLock, TypeOK
  <2>4. CASE t = s /\ x.id # j
    <3>1. Locked /\ held[s].id # j
      BY <1>9, <2>4 DEF LockJob, TakeLock, NoJob, TypeOK
    <3> QED
      BY <1>2, <1>9, <2>4, <3>1 DEF LockJob, InHand
  <2> QED
    BY <2>1, <2>2, <2>3, <2>4
<1>10. ASSUME NEW t \in Servers, NEW x \in batch[t], LockJobMisses(t, x) PROVE InHand(s, j)'
  BY <1>3, <1>10 DEF LockJobMisses, rows
<1>11. ASSUME NEW t \in Servers, NEW w \in Workers, AcquireWorker(t, w) PROVE InHand(s, j)'
  <2>1. Locked /\ InHand(s, j)
    BY <1>2, <1>11 DEF AcquireWorker, rows
  <2>2. CASE t # s
    BY <1>3, <1>11, <2>1, <2>2 DEF AcquireWorker, TypeOK
  <2>3. CASE t = s /\ held[s].id = j
    BY <1>11, <2>3 DEF AcquireWorker, InHand, TypeOK
  <2>4. CASE t = s /\ \E v \in Workers : worker[s][v].id = j
    <3>1. PICK v \in Workers : worker[s][v].id = j
      BY <2>4
    <3>2. v # w
      BY <1>11, <2>4, <3>1 DEF AcquireWorker, IdleSlot
    <3>3. worker'[s][v] = worker[s][v]
      BY <1>11, <2>4, <3>2 DEF AcquireWorker, TypeOK
    <3> QED
      BY <3>1, <3>3 DEF InHand
  <2>5. CASE t = s /\ \E i \in DOMAIN results[s] : results[s][i].id = j
    BY <1>11, <2>5 DEF AcquireWorker, InHand
  <2> QED
    BY <2>1, <2>2, <2>3, <2>4, <2>5 DEF InHand
<1>12. ASSUME NEW t \in Servers, NEW w \in Workers, ExecuteHandler(t, w) PROVE InHand(s, j)'
  <2>1. Locked /\ InHand(s, j)
    BY <1>2, <1>12 DEF ExecuteHandler, rows
  <2>2. held' = held /\ results' = results
    BY <1>12 DEF ExecuteHandler
  <2>3. \A v \in Workers : worker'[s][v].id = worker[s][v].id
    BY <1>12 DEF ExecuteHandler, TypeOK
  <2> QED
    BY <2>1, <2>2, <2>3 DEF InHand
<1>13. ASSUME NEW t \in Servers, NEW w \in Workers, SendResult(t, w) PROVE InHand(s, j)'
  <2>1. Locked /\ InHand(s, j) /\ held' = held
    BY <1>2, <1>13 DEF SendResult, rows
  <2>2. CASE t # s
    BY <1>3, <1>13, <2>1, <2>2 DEF SendResult, ReleaseSlot, TypeOK
  <2>3. ASSUME t = s PROVE results'[s] = Append(results[s], Report(worker[s][w]))
    BY <1>13, <2>3 DEF SendResult, TypeOK
  <2>4. CASE t = s /\ held[s].id = j
    BY <2>1, <2>4 DEF InHand
  <2>5. CASE t = s /\ worker[s][w].id = j
    <3>1. Len(results[s]) + 1 \in DOMAIN results'[s]
      BY <2>3, <2>5 DEF TypeOK
    <3>2. results'[s][Len(results[s]) + 1] = Report(worker[s][w])
      BY <2>3, <2>5 DEF TypeOK
    <3> QED
      BY <2>5, <3>1, <3>2 DEF InHand, Report
  <2>6. ASSUME t = s, NEW v \in Workers, v # w, worker[s][v].id = j PROVE InHand(s, j)'
    <3>1. worker'[s][v] = worker[s][v]
      BY <1>13, <2>6 DEF SendResult, ReleaseSlot, TypeOK
    <3> QED
      BY <2>6, <3>1 DEF InHand
  <2>7. ASSUME t = s, NEW i \in DOMAIN results[s], results[s][i].id = j PROVE InHand(s, j)'
    <3>1. results[s] \in Seq(Reports) /\ i \in 1..Len(results[s])
      BY <2>7 DEF TypeOK
    <3>2. i \in DOMAIN results'[s] /\ results'[s][i] = results[s][i]
      BY <2>3, <2>7, <3>1
    <3> QED
      BY <2>7, <3>2 DEF InHand
  <2> QED
    BY <2>1, <2>2, <2>4, <2>5, <2>6, <2>7 DEF InHand
<1>14. ASSUME NEW t \in Servers, ProcessResult(t) PROVE InHand(s, j)'
  <2>1. PICK res \in Reports : res = Head(results[t])
    BY <1>14 DEF ProcessResult, TypeOK
  <2>2. res.id # j
    BY <1>14, <2>1 DEF ProcessResult, MarkSuccess, MarkFailure, FailureStatus, Exists, Reports, TypeOK
  <2>3. Locked
    BY <1>14, <2>1, <2>2 DEF ProcessResult, MarkSuccess, MarkFailure, Reports, TypeOK
  <2>4. CASE t # s
    BY <1>3, <1>14, <2>3, <2>4 DEF ProcessResult, TypeOK
  <2>5. CASE t = s /\ (held[s].id = j \/ \E w \in Workers : worker[s][w].id = j)
    BY <1>14, <2>5 DEF ProcessResult, InHand
  <2>6. ASSUME t = s, NEW i \in DOMAIN results[s], results[s][i].id = j PROVE InHand(s, j)'
    <3>1. results[s] \in Seq(Reports) /\ results[s] # <<>> /\ results'[s] = Tail(results[s])
      BY <1>14, <2>6 DEF ProcessResult, TypeOK
    <3>2. i # 1
      BY <2>1, <2>2, <2>6, <3>1
    <3>3. i \in Nat /\ i > 1 /\ i <= Len(results[s])
      BY <2>6, <3>1, <3>2
    <3>4. i - 1 \in DOMAIN results'[s] /\ results'[s][i - 1] = results[s][i]
      BY <3>1, <3>3
    <3> QED
      BY <2>6, <3>4 DEF InHand
  <2> QED
    BY <1>2, <2>3, <2>4, <2>5, <2>6 DEF InHand
<1>15. ASSUME NEW t \in Servers, DropResult(t) PROVE InHand(s, j)'
  <2>1. t # s
    BY <1>1, <1>15 DEF DropResult
  <2> QED
    BY <1>3, <1>15, <2>1 DEF DropResult, rows, TypeOK
<1>16. ASSUME NEW t \in Servers, MarkRetryFailedJobs(t) PROVE InHand(s, j)'
  BY <1>3, <1>16 DEF MarkRetryFailedJobs, Reschedule, memory
<1>17. ASSUME NEW t \in Servers, FaultStep(t) PROVE FALSE
  BY <1>1, <1>17 DEF FaultStep, LockJobFails, HandlerPanics
<1>18. ASSUME NEW t \in Servers, RetryLoopEnds(t) PROVE InHand(s, j)'
  BY <1>3, <1>18 DEF RetryLoopEnds, rows
<1>19. ASSUME NEW u \in Servers, NEW t \in Servers, OvertakenRetry(u, t) PROVE InHand(s, j)'
  <2>1. Locked /\ ~Retryable(j)
    BY <1>19 DEF OvertakenRetry, Reschedule, Retryable, TypeOK
  <2>2. /\ results[t] \in Seq(Reports) /\ results[t] # <<>>
        /\ Head(results[t]).id # j /\ results' = [results EXCEPT ![t] = Tail(@)]
        /\ held' = held /\ worker' = worker
    BY <1>19, <2>1 DEF OvertakenRetry, TypeOK
  <2>3. CASE t # s
    BY <1>3, <2>1, <2>2, <2>3 DEF TypeOK
  <2>4. CASE t = s /\ (held[s].id = j \/ \E w \in Workers : worker[s][w].id = j)
    BY <2>2, <2>4 DEF InHand
  <2>5. ASSUME t = s, NEW i \in DOMAIN results[s], results[s][i].id = j PROVE InHand(s, j)'
    <3>1. results[s] \in Seq(Reports) /\ results[s] # <<>> /\ results'[s] = Tail(results[s])
      BY <2>2, <2>5 DEF TypeOK
    <3>2. i # 1
      BY <2>2, <2>5, <3>1
    <3>3. i \in Nat /\ i > 1 /\ i <= Len(results[s])
      BY <2>5, <3>1, <3>2
    <3>4. i - 1 \in DOMAIN results'[s] /\ results'[s][i - 1] = results[s][i]
      BY <3>1, <3>3
    <3> QED
      BY <2>5, <3>4 DEF InHand
  <2> QED
    BY <1>2, <2>1, <2>3, <2>4, <2>5 DEF InHand
<1> QED
  BY <1>4, <1>5, <1>6, <1>7, <1>8, <1>9, <1>10, <1>11, <1>12, <1>13, <1>14, <1>15, <1>16,
     <1>17, <1>18, <1>19
  DEF Next, ServerStep, PollStep, WorkerStep
-----------------------------------------------------------------------------
(* What can have happened to a row since it was read into a batch.         *)

\* A row of a batch exists or was deleted; where it has failed or its schedule
\* has been moved, a failure was counted since it was read.
BatchInv ==
    \A s \in Servers : \A x \in batch[s] :
        /\ status[x.id] # "unborn"
        /\ \/ status[x.id] = "removed"
           \/ (status[x.id] = "failed" \/ ~due[x.id]) => x.attempts < attempts[x.id]

\* Every statement keeps what is claimed of the rows of a batch.
LEMMA BatchInduction ==
    TypeOK /\ SnapshotsNotAhead /\ BatchInv /\ [Next]_vars => BatchInv'
<1> SUFFICES ASSUME TypeOK, SnapshotsNotAhead, BatchInv, [Next]_vars,
                    NEW s \in Servers, NEW x \in batch'[s]
             PROVE  /\ status'[x.id] # "unborn"
                    /\ \/ status'[x.id] = "removed"
                       \/ (status'[x.id] = "failed" \/ ~due'[x.id])
                          => x.attempts < attempts'[x.id]
  BY DEF BatchInv
<1> DEFINE Goal == /\ status'[x.id] # "unborn"
                   /\ \/ status'[x.id] = "removed"
                      \/ (status'[x.id] = "failed" \/ ~due'[x.id])
                         => x.attempts < attempts'[x.id]
<1>1. CASE FetchDueJobs(s)
  <2>1. PICK j \in DueJobs : x = [id |-> j, attempts |-> attempts[j]]
    BY <1>1 DEF FetchDueJobs, TypeOK
  <2> QED
    BY <1>1, <2>1 DEF FetchDueJobs, DueJobs, rows
<1>2. CASE ~FetchDueJobs(s)
  <2>1. /\ x \in batch[s] /\ x.id \in Jobs /\ x.attempts \in Nat
        /\ x.attempts <= attempts[x.id] /\ attempts[x.id] \in Nat
    <3>1. x \in batch[s]
      BY <1>2, BatchChange
    <3> QED
      BY <3>1 DEF TypeOK, Snapshots, SnapshotsNotAhead
  <2>2. /\ status[x.id] # "unborn"
        /\ \/ status[x.id] = "removed"
           \/ (status[x.id] = "failed" \/ ~due[x.id]) => x.attempts < attempts[x.id]
    BY <2>1 DEF BatchInv
  <2>3. ASSUME NEW j \in Jobs, TableStep(j) PROVE Goal
    BY <2>1, <2>2, <2>3 DEF TableStep, Insert, RemoveByID, BecomeDue, LockAges, TypeOK
  <2>4. ASSUME NEW t \in Servers, Start(t) PROVE Goal
    BY <2>1, <2>2, <2>4 DEF Start, UnlockStaleJobs, Stale, TypeOK
  <2>5. ASSUME UNCHANGED rows PROVE Goal
    BY <2>2, <2>5 DEF rows
  <2>6. ASSUME NEW t \in Servers, NEW y \in batch[t], LockJob(t, y) \/ LockJobFails(t, y)
        PROVE  Goal
    <3>1. ASSUME Lockable(y.id), TakeLock(t, y.id) PROVE Goal
      BY <2>1, <2>2, <3>1 DEF Lockable, TakeLock, TypeOK
    <3> QED
      BY <2>5, <2>6, <3>1 DEF LockJob, LockJobFails
  <2>7. ASSUME NEW t \in Servers, MarkRetryFailedJobs(t) PROVE Goal
    BY <2>1, <2>2, <2>7 DEF MarkRetryFailedJobs, Reschedule, Retryable, TypeOK
  <2>8. ASSUME NEW t \in Servers, NEW u \in Servers, OvertakenRetry(t, u) PROVE Goal
    <3>1. attempts'[x.id] \in Nat /\ attempts[x.id] <= attempts'[x.id]
      BY <2>1, TypeInduction, AttemptsGrow DEF TypeOK
    <3>2. \/ status'[x.id] = status[x.id] /\ due'[x.id] = due[x.id]
          \/ status[x.id] = "failed" /\ status'[x.id] = "retrying"
      BY <2>1, <2>8 DEF OvertakenRetry, Reschedule, Retryable, TypeOK
    <3> QED
      BY <2>1, <2>2, <3>1, <3>2
  <2>9. ASSUME NEW t \in Servers, ProcessResult(t) PROVE Goal
    <3>1. PICK res \in Reports : res = Head(results[t])
      BY <2>9 DEF ProcessResult, TypeOK
    <3>2. res.id \in Jobs
      BY DEF Reports
    <3>3. CASE MarkSuccess(res.id)
      BY <2>1, <2>2, <3>2, <3>3 DEF MarkSuccess, Exists, TypeOK
    <3>4. CASE MarkFailure(res.id, res.attempts)
      BY <2>1, <2>2, <3>2, <3>4 DEF MarkFailure, FailureStatus, Exists, TypeOK
    <3> QED
      BY <2>9, <3>1, <3>3, <3>4 DEF ProcessResult
  <2>10. ASSUME NEW t \in Servers, ServerStep(t) PROVE Goal
    <3>1. \/ UNCHANGED rows
          \/ Start(t) \/ MarkRetryFailedJobs(t) \/ ProcessResult(t)
          \/ \E u \in Servers : OvertakenRetry(t, u)
          \/ \E y \in batch[t] : LockJob(t, y) \/ LockJobFails(t, y)
      BY <2>10 DEF ServerStep, PollStep, WorkerStep, FaultStep, NewContainer, Cancel,
         ProcessorStops, Exit, Crash, FetchDueJobs, LockJobMisses, AcquireWorker,
         ExecuteHandler, HandlerPanics, SendResult, DropResult, RetryLoopEnds
    <3> QED
      BY <3>1, <2>4, <2>5, <2>6, <2>7, <2>8, <2>9
  <2> QED
    BY <2>3, <2>5, <2>10 DEF Next, vars
<1> QED
  BY <1>1, <1>2
-----------------------------------------------------------------------------
\* The variables always have their types, and no channel ever exceeds its
\* capacity, whatever the numbers of jobs, servers, workers and starts.
THEOREM TypeCorrect == Spec => []TypeOK
<1>1. Init => TypeOK
  BY SlotFacts DEF Init, TypeOK, AllStatuses
<1> QED
  BY <1>1, TypeInduction, PTL DEF Spec

\* The inductive invariant: types, what is remembered of the rows, the rows
\* themselves, the locks and the batches.
IndInv == TypeOK /\ SnapshotsNotAhead /\ RowsInv /\ LockHasHolder /\ BatchInv

\* Every reachable state satisfies the inductive invariant.
LEMMA Safety == Spec => []IndInv
<1>1. Init => IndInv
  <2> SUFFICES ASSUME Init PROVE IndInv
    OBVIOUS
  <2>1. TypeOK
    BY SlotFacts DEF Init, TypeOK, AllStatuses
  <2>2. SnapshotsNotAhead
    BY DEF Init, SnapshotsNotAhead
  <2>3. RowsInv
    BY DEF Init, RowsInv, ProcessingIsReleasable, DeadOnlyAfterMaxAttempts
  <2>4. LockHasHolder
    BY DEF Init, LockHasHolder
  <2>5. BatchInv
    BY DEF Init, BatchInv
  <2> QED
    BY <2>1, <2>2, <2>3, <2>4, <2>5 DEF IndInv
<1>2. IndInv /\ [Next]_vars => IndInv'
  BY TypeInduction, SnapshotsInduction, RowsInduction, HolderInduction, BatchInduction
  DEF IndInv, RowsInv
<1> QED
  BY <1>1, <1>2, PTL DEF Spec

\* MarkFailure never declares a job dead too early, whatever number of
\* servers executes it and however stale the attempts they have read.
THEOREM DeadIsExhausted == Spec => []DeadOnlyAfterMaxAttempts
  BY Safety, PTL DEF IndInv, RowsInv

\* No memory of a server is ahead of the rows, in any interleaving.
THEOREM MemoryNotAhead == Spec => []SnapshotsNotAhead
  BY Safety, PTL DEF IndInv

\* As long as nothing fails, no server that is up holds a lock without the
\* work that will release it.
THEOREM NoOrphanLock == Spec => []LockHasHolder
  BY Safety, PTL DEF IndInv

\* Every row marked as processing is one that the next start of a server
\* puts back in the queue.
THEOREM LocksAreReleasable == Spec => []ProcessingIsReleasable
  BY Safety, PTL DEF IndInv, RowsInv

\* With any number of servers, an execution that begins before its time comes
\* from a batch that was read before the job's last failure: the delay of a
\* retry and the time a client asked for are kept by every fresh batch,
\* although the statement that locks the row does not compare the schedule.
THEOREM EarlyOnlyWhenStale == Spec => EarlyStartIsStale
<1>1. IndInv /\ [Next]_vars
      => [\A s \in Servers :
            LET x == held'[s] IN
            x # held[s] /\ x # NoJob => due[x.id] \/ x.attempts < attempts[x.id]]_vars
  <2> SUFFICES ASSUME IndInv, [Next]_vars, NEW s \in Servers,
                      held'[s] # held[s], held'[s] # NoJob
               PROVE  due[held'[s].id] \/ held'[s].attempts < attempts[held'[s].id]
    OBVIOUS
  <2>1. \/ UNCHANGED held
        \/ \E t \in Servers : held' = [held EXCEPT ![t] = NoJob]
        \/ \E t \in Servers : \E x \in batch[t] : LockJob(t, x)
    BY DEF FetchDueJobs, Next, TableStep, ServerStep, PollStep, WorkerStep, FaultStep, vars, rows, memory,
       Insert, RemoveByID, BecomeDue, LockAges, NewContainer, Start, Cancel,
       ProcessorStops, Exit, Crash, Forget, LockJobMisses, LockJobFails,
       AcquireWorker, ExecuteHandler, HandlerPanics, SendResult,
       ProcessResult, DropResult, MarkRetryFailedJobs, OvertakenRetry, RetryLoopEnds
  <2>2. PICK t \in Servers : \E x \in batch[t] : LockJob(t, x)
    BY <2>1 DEF IndInv, TypeOK
  <2>3. PICK x \in batch[t] : LockJob(t, x)
    BY <2>2
  <2>4. t = s /\ held'[s] = x /\ Lockable(x.id)
    BY <2>3 DEF LockJob, IndInv, TypeOK
  <2>5. \/ status[x.id] = "removed"
        \/ ~due[x.id] => x.attempts < attempts[x.id]
    BY DEF IndInv, BatchInv
  <2> QED
    BY <2>4, <2>5 DEF Lockable
<1> QED
  BY <1>1, Safety, PTL DEF Spec, EarlyStartIsStale
=============================================================================
