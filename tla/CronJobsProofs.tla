--------------------------- MODULE CronJobsProofs ---------------------------
(***************************************************************************)
(* Proofs about CronJobs, for any sets of jobs, servers and workers, any   *)
(* page size, any capacity of the channel and any bounds.                  *)
(***************************************************************************)
EXTENDS CronJobs, TLAPS

USE NoneAssumption, SizeAssumption, BoundAssumption

\* A slot is idle, or it holds a job, the version of its expression and a
\* phase of its execution.
LEMMA SlotFacts ==
    /\ IdleSlot \in Slots
    /\ IdleSlot.id = None
    /\ \A x \in Slots : x.id \in Jobs \cup {None}
    /\ \A x \in Slots : x.phase # "idle" =>
          /\ x.id \in Jobs
          /\ x.expr \in Versions
          /\ x.phase \in {"running", "succeeded", "failed"}
    /\ \A j \in Jobs, n \in Versions, p \in {"running", "succeeded", "failed"} :
          [id |-> j, expr |-> n, phase |-> p] \in Slots
  BY DEF Slots, IdleSlot

\* What waits for a worker is nothing or a row of a page.
LEMMA SnapshotFacts ==
    /\ NoJob.id = None
    /\ \A x \in Snapshots : x.id \in Jobs /\ x.expr \in Versions /\ x # NoJob
  BY DEF Snapshots, NoJob

\* The handler's return changes the phase of a running slot, and only that.
LEMMA HandlerChange ==
    ASSUME TypeOK, NEW s \in Servers, NEW w \in Workers, ExecuteHandler(s, w)
    PROVE  /\ worker' \in [Servers -> [Workers -> Slots]]
           /\ \A t \in Servers, v \in Workers : worker'[t][v].id = worker[t][v].id
<1>1. PICK outcome \in {"succeeded", "failed"} :
        worker' = [worker EXCEPT ![s][w].phase = outcome]
  BY DEF ExecuteHandler
<1> DEFINE Busy == [id : Jobs, expr : Versions, phase : {"running", "succeeded", "failed"}]
           x == [worker[s][w] EXCEPT !.phase = outcome]
<1>2. worker \in [Servers -> [Workers -> Slots]]
  BY DEF TypeOK
<1>3. worker[s][w] \in Slots /\ worker[s][w].phase = "running"
  BY <1>2 DEF ExecuteHandler
<1>4. worker[s][w] \in Busy
  BY <1>3 DEF Slots, IdleSlot
<1>5. x \in Busy /\ x.id = worker[s][w].id
  BY <1>4
<1>6. x \in Slots
  BY <1>5 DEF Slots
<1>7. worker' = [worker EXCEPT ![s][w] = x]
  BY <1>1
<1> QED
  BY <1>2, <1>5, <1>6, <1>7

\* Every step of CronJobs keeps the types.
LEMMA TypeInduction == TypeOK /\ [Next]_vars => TypeOK'
<1> SUFFICES ASSUME TypeOK, [Next]_vars PROVE TypeOK'
  OBVIOUS
<1> USE DEF TypeOK, rows, memory
<1>1. ASSUME NEW j \in Jobs, AddJob(j) PROVE TypeOK'
  BY <1>1 DEF AddJob, AllStatuses
<1>2. ASSUME NEW j \in Jobs, UpdateJob(j) PROVE TypeOK'
  <2>1. /\ edits' \in 0..MaxEdits /\ expr[j] + 1 \in 0..edits'
        /\ expr \in [Jobs -> 0..edits'] /\ expr[j] + 1 \in Versions
    <3>1. edits \in Nat /\ edits < MaxEdits /\ edits' = edits + 1 /\ expr[j] \in 0..edits
      BY <1>2 DEF UpdateJob
    <3> QED
      BY <3>1 DEF Versions
  <2> QED
    BY <1>2, <2>1 DEF UpdateJob
<1>3. ASSUME NEW j \in Jobs, SetActive(j) PROVE TypeOK'
  <2>1. edits' \in 0..MaxEdits /\ expr \in [Jobs -> 0..edits']
    <3>1. edits \in Nat /\ edits < MaxEdits /\ edits' = edits + 1
      BY <1>3 DEF SetActive
    <3> QED
      BY <3>1
  <2>2. active' \in [Jobs -> BOOLEAN]
    BY <1>3 DEF SetActive
  <2> QED
    BY <1>3, <2>1, <2>2 DEF SetActive
<1>4. ASSUME NEW j \in Jobs, BecomeDue(j) PROVE TypeOK'
  BY <1>4 DEF BecomeDue
<1>5. ASSUME NEW j \in Jobs, LockAges(j) PROVE TypeOK'
  BY <1>5 DEF LockAges
<1>6. ASSUME NEW s \in Servers, Start(s) PROVE TypeOK'
  BY <1>6 DEF Start
<1>7. ASSUME NEW s \in Servers, Cancel(s) PROVE TypeOK'
  BY <1>7 DEF Cancel
<1>8. ASSUME NEW s \in Servers, Exit(s) \/ Crash(s) PROVE TypeOK'
  <2>1. Forget(s) /\ UNCHANGED <<rows, edits, starts, faults>>
    BY <1>8 DEF Exit, Crash
  <2> QED
    BY <2>1, SlotFacts DEF Forget
<1>9. ASSUME NEW s \in Servers, FetchDueCronJobs(s) PROVE TypeOK'
  <2>1. \A j \in Jobs : [id |-> j, expr |-> ReadExpr(j)] \in Snapshots
    BY DEF ReadExpr, Snapshots, Versions
  <2>2. batch' \in [Servers -> SUBSET Snapshots]
    BY <1>9, <2>1 DEF FetchDueCronJobs
  <2>3. page' \in [Servers -> Nat \ {0}]
    BY <1>9 DEF FetchDueCronJobs, NextPage
  <2> QED
    BY <1>9, <2>2, <2>3 DEF FetchDueCronJobs
<1>10. ASSUME NEW s \in Servers, FetchFails(s) PROVE TypeOK'
  BY <1>10 DEF FetchFails, Fault
<1>11. ASSUME NEW s \in Servers, NEW x \in batch[s], LockJob(s, x) PROVE TypeOK'
  BY <1>11, SnapshotFacts DEF LockJob, TakeLock, AllStatuses
<1>12. ASSUME NEW s \in Servers, NEW x \in batch[s], LockJobMisses(s, x) PROVE TypeOK'
  BY <1>12 DEF LockJobMisses
<1>13. ASSUME NEW s \in Servers, NEW x \in batch[s], LockJobFails(s, x) PROVE TypeOK'
  <2>1. CASE TakeLock(s, x.id)
    BY <1>13, <2>1, SnapshotFacts DEF LockJobFails, Fault, TakeLock, AllStatuses
  <2>2. CASE UNCHANGED rows
    BY <1>13, <2>2 DEF LockJobFails, Fault
  <2> QED
    BY <1>13, <2>1, <2>2 DEF LockJobFails
<1>14. ASSUME NEW s \in Servers, NEW w \in Workers, AcquireWorker(s, w) PROVE TypeOK'
  <2>1. [id |-> held[s].id, expr |-> held[s].expr, phase |-> "running"] \in Slots
    BY <1>14, SlotFacts, SnapshotFacts DEF AcquireWorker
  <2> QED
    BY <1>14, <2>1 DEF AcquireWorker
<1>15. ASSUME NEW s \in Servers, NEW w \in Workers, ExecuteHandler(s, w) PROVE TypeOK'
  BY <1>15, HandlerChange DEF ExecuteHandler
<1>16. ASSUME NEW s \in Servers, NEW w \in Workers, SendResult(s, w) PROVE TypeOK'
  <2> DEFINE r == [id |-> worker[s][w].id, expr |-> worker[s][w].expr,
                   status |-> worker[s][w].phase]
  <2>1. r \in Reports
    BY <1>16, SlotFacts DEF SendResult, Reports
  <2>2. results[s] \in Seq(Reports) /\ Len(results[s]) < ResultCap
    BY <1>16 DEF SendResult
  <2>3. Append(results[s], r) \in Seq(Reports) /\ Len(Append(results[s], r)) <= ResultCap
    BY <2>1, <2>2
  <2>4. /\ results' \in [Servers -> Seq(Reports)]
        /\ \A t \in Servers : Len(results'[t]) <= ResultCap
    BY <1>16, <2>3 DEF SendResult
  <2> QED
    BY <1>16, <2>4, SlotFacts DEF SendResult
<1>17. ASSUME NEW s \in Servers, MarkResult(s) PROVE TypeOK'
  <2>1. PICK res \in Reports : res = Head(results[s])
    BY <1>17 DEF MarkResult
  <2>2. Tail(results[s]) \in Seq(Reports) /\ Len(Tail(results[s])) <= ResultCap
    BY <1>17 DEF MarkResult
  <2>3. /\ results' \in [Servers -> Seq(Reports)]
        /\ \A t \in Servers : Len(results'[t]) <= ResultCap
    BY <1>17, <2>2 DEF MarkResult
  <2>4. res.id \in Jobs /\ res.status \in AllStatuses /\ [id |-> res.id, expr |-> res.expr] \in Snapshots
    BY DEF Reports, Snapshots, AllStatuses
  <2>5. applying' \in [Servers -> Snapshots \cup {NoJob}]
    BY <1>17, <2>1, <2>4 DEF MarkResult
  <2>6. CASE Mark(res) /\ UNCHANGED faults
    BY <1>17, <2>3, <2>4, <2>5, <2>6 DEF MarkResult, Mark
  <2>7. CASE Fault /\ UNCHANGED rows
    BY <1>17, <2>3, <2>5, <2>7 DEF MarkResult, Fault
  <2> QED
    BY <1>17, <2>1, <2>6, <2>7 DEF MarkResult
<1>18. ASSUME NEW s \in Servers, UpdateJobRunTimes(s) PROVE TypeOK'
  <2>1. applying[s].id \in Jobs /\ applying[s].expr \in Versions
    BY <1>18, SnapshotFacts DEF UpdateJobRunTimes
  <2>2. due' \in [Jobs -> BOOLEAN] /\ nextOf' \in [Jobs -> Versions]
    BY <1>18, <2>1 DEF UpdateJobRunTimes, RunTimes
  <2>3. faults' \in 0..MaxFaults
    BY <1>18 DEF UpdateJobRunTimes, Fault
  <2> QED
    BY <1>18, <2>2, <2>3 DEF UpdateJobRunTimes
<1>19. ASSUME UNCHANGED vars PROVE TypeOK'
  BY <1>19 DEF vars
<1> QED
  BY <1>1, <1>2, <1>3, <1>4, <1>5, <1>6, <1>7, <1>8, <1>9, <1>10, <1>11, <1>12,
     <1>13, <1>14, <1>15, <1>16, <1>17, <1>18, <1>19
  DEF Next, TableStep, ServerStep, PollStep, WorkerStep, ProcessorStep

\* Every variable of CronJobs keeps its type: no version of an expression is
\* ahead of the edits, no page has number zero, and no channel of results
\* holds more than its capacity.
THEOREM TypeCorrect == Spec => []TypeOK
<1>1. Init => TypeOK
  BY SlotFacts DEF Init, TypeOK, AllStatuses, Versions
<1>2. TypeOK /\ [Next]_vars => TypeOK'
  BY TypeInduction
<1> QED
  BY <1>1, <1>2, PTL DEF Spec
-----------------------------------------------------------------------------
(* The mutual exclusion of executions.                                     *)

\* Nobody has an execution of a row in hand that LockJob would take.
LEMMA LockableIsFree ==
    ASSUME ExecutionOwnsRow, NEW j \in Jobs, Lockable(j), NEW s \in Servers
    PROVE  ~InHand(s, j)
  BY DEF ExecutionOwnsRow, Lockable

\* A step that only empties places where executions are in hand, and changes
\* the status and owner of no row that is in hand, overlaps nothing.
LEMMA EmptyingKeepsExclusion ==
    ASSUME TypeOK, TypeOK', NoOverlap, ExecutionOwnsRow,
           \A s \in Servers :
              /\ held'[s].id \in {held[s].id, None}
              /\ \A w \in Workers : worker'[s][w].id \in {worker[s][w].id, None}
              /\ results'[s] \in {results[s], <<>>},
           \A j \in Jobs, s \in Servers :
              InHand(s, j) => status'[j] = status[j] /\ lockedBy'[j] = lockedBy[j]
    PROVE  NoOverlap' /\ ExecutionOwnsRow'
<1>1. ASSUME NEW j \in Jobs, NEW s \in Servers
      PROVE  /\ held'[s].id = j => held[s].id = j
             /\ \A w \in Workers : worker'[s][w].id = j => worker[s][w].id = j
             /\ InWorker(s, j)' => InWorker(s, j)
             /\ InChannel(s, j)' => InChannel(s, j)
             /\ \A i \in DOMAIN results'[s] : results'[s] = results[s]
  BY DEF InWorker, InChannel
<1>2. ASSUME NEW j \in Jobs, NEW s \in Servers, InHand(s, j)' PROVE InHand(s, j)
  BY <1>1, <1>2 DEF InHand
<1>3. ExecutionOwnsRow'
  BY <1>2 DEF ExecutionOwnsRow
<1>4. NoOverlap'
  <2> SUFFICES ASSUME NEW j \in Jobs
               PROVE  /\ \A s, t \in Servers : InHand(s, j)' /\ InHand(t, j)' => s = t
                      /\ \A s \in Servers :
                            /\ ~(held'[s].id = j /\ InWorker(s, j)')
                            /\ ~(held'[s].id = j /\ InChannel(s, j)')
                            /\ ~(InWorker(s, j)' /\ InChannel(s, j)')
                            /\ \A v, w \in Workers :
                                  worker'[s][v].id = j /\ worker'[s][w].id = j => v = w
                            /\ \A h, i \in DOMAIN results'[s] :
                                  results'[s][h].id = j /\ results'[s][i].id = j => h = i
    BY DEF NoOverlap
  <2>1. \A s, t \in Servers : InHand(s, j)' /\ InHand(t, j)' => s = t
    BY <1>2 DEF NoOverlap
  <2>2. ASSUME NEW s \in Servers
        PROVE  /\ ~(held'[s].id = j /\ InWorker(s, j)')
               /\ ~(held'[s].id = j /\ InChannel(s, j)')
               /\ ~(InWorker(s, j)' /\ InChannel(s, j)')
               /\ \A v, w \in Workers :
                     worker'[s][v].id = j /\ worker'[s][w].id = j => v = w
    BY <1>1 DEF NoOverlap
  <2>3. ASSUME NEW s \in Servers, NEW h \in DOMAIN results'[s], NEW i \in DOMAIN results'[s],
               results'[s][h].id = j, results'[s][i].id = j
        PROVE  h = i
    <3>1. results'[s] = results[s]
      BY <1>1, <2>3
    <3> QED
      BY <2>3, <3>1 DEF NoOverlap
  <2> QED
    BY <2>1, <2>2, <2>3
<1> QED
  BY <1>3, <1>4

\* LockJob gives an execution to a server, of a row nobody has in hand.
LEMMA LockKeepsExclusion ==
    ASSUME TypeOK, NoOverlap, ExecutionOwnsRow,
           NEW s \in Servers, NEW x \in batch[s], LockJob(s, x)
    PROVE  NoOverlap' /\ ExecutionOwnsRow'
<1>1. x \in Snapshots /\ x.id \in Jobs
  BY SnapshotFacts DEF TypeOK
<1>2. \A t \in Servers : ~InHand(t, x.id)
  BY <1>1, LockableIsFree DEF LockJob
<1>3. /\ worker' = worker /\ results' = results
      /\ held'[s] = x /\ held[s].id = None
      /\ \A t \in Servers \ {s} : held'[t] = held[t]
  BY SnapshotFacts DEF LockJob, TypeOK
<1>4. \A k \in Jobs, t \in Servers :
         /\ InWorker(t, k)' <=> InWorker(t, k)
         /\ InChannel(t, k)' <=> InChannel(t, k)
         /\ held'[t].id = k <=> (held[t].id = k \/ (t = s /\ k = x.id))
  BY <1>3 DEF InWorker, InChannel
<1>5. \A k \in Jobs, t \in Servers :
         InHand(t, k)' <=> (InHand(t, k) \/ (t = s /\ k = x.id))
  BY <1>4 DEF InHand
<1>6. ExecutionOwnsRow'
  <2>1. /\ status'[x.id] = "processing" /\ lockedBy'[x.id] = s
        /\ \A k \in Jobs \ {x.id} : status'[k] = status[k] /\ lockedBy'[k] = lockedBy[k]
    BY <1>1 DEF LockJob, TakeLock, TypeOK
  <2> QED
    BY <1>2, <1>5, <2>1 DEF ExecutionOwnsRow
<1>7. NoOverlap'
  <2>1. \A k \in Jobs, t, u \in Servers : InHand(t, k)' /\ InHand(u, k)' => t = u
    BY <1>2, <1>5 DEF NoOverlap
  <2>2. \A k \in Jobs, t \in Servers :
           /\ ~(held'[t].id = k /\ InWorker(t, k)')
           /\ ~(held'[t].id = k /\ InChannel(t, k)')
           /\ ~(InWorker(t, k)' /\ InChannel(t, k)')
    BY <1>2, <1>4 DEF NoOverlap, InHand
  <2> QED
    BY <1>3, <2>1, <2>2 DEF NoOverlap
<1> QED
  BY <1>6, <1>7

\* The semaphore moves an execution from the poll loop to a worker.
LEMMA AcquireKeepsExclusion ==
    ASSUME TypeOK, NoOverlap, ExecutionOwnsRow,
           NEW s \in Servers, NEW w \in Workers, AcquireWorker(s, w)
    PROVE  NoOverlap' /\ ExecutionOwnsRow'
<1> DEFINE j == held[s].id
<1>1. j \in Jobs
  BY SnapshotFacts DEF AcquireWorker, TypeOK
<1>2. /\ results' = results /\ status' = status /\ lockedBy' = lockedBy
      /\ held'[s].id = None
      /\ \A t \in Servers \ {s} : held'[t] = held[t]
  BY SnapshotFacts DEF AcquireWorker, TypeOK, rows
<1>3. /\ worker'[s][w].id = j /\ worker[s][w].id = None
      /\ \A t \in Servers, v \in Workers : t # s \/ v # w => worker'[t][v] = worker[t][v]
  BY SlotFacts DEF AcquireWorker, TypeOK
<1>4. \A k \in Jobs, t \in Servers :
         /\ held'[t].id = k <=> (held[t].id = k /\ ~(t = s))
         /\ InWorker(t, k)' <=> (InWorker(t, k) \/ (t = s /\ k = j))
         /\ InChannel(t, k)' <=> InChannel(t, k)
  <2>1. \A k \in Jobs, t \in Servers : held'[t].id = k <=> (held[t].id = k /\ ~(t = s))
    BY <1>1, <1>2
  <2>2. \A k \in Jobs, t \in Servers :
           InWorker(t, k)' <=> (InWorker(t, k) \/ (t = s /\ k = j))
    BY <1>1, <1>3 DEF InWorker
  <2> QED
    BY <1>2, <2>1, <2>2 DEF InChannel
<1>5. \A k \in Jobs, t \in Servers : InHand(t, k)' <=> InHand(t, k)
  BY <1>4 DEF InHand
<1>6. ExecutionOwnsRow'
  BY <1>2, <1>5 DEF ExecutionOwnsRow
<1>7. NoOverlap'
  <2>1. \A k \in Jobs, t, u \in Servers : InHand(t, k)' /\ InHand(u, k)' => t = u
    BY <1>5 DEF NoOverlap
  <2>2. \A k \in Jobs, t \in Servers :
           /\ ~(held'[t].id = k /\ InWorker(t, k)')
           /\ ~(held'[t].id = k /\ InChannel(t, k)')
           /\ ~(InWorker(t, k)' /\ InChannel(t, k)')
    BY <1>1, <1>4 DEF NoOverlap
  <2>3. ASSUME NEW k \in Jobs, NEW t \in Servers, NEW u \in Workers, NEW v \in Workers,
               worker'[t][u].id = k, worker'[t][v].id = k
        PROVE  u = v
    <3>1. CASE t = s /\ k = j
      <4>1. \A y \in Workers : worker[s][y].id # j
        BY <1>1 DEF NoOverlap, InWorker
      <4> QED
        BY <1>3, <2>3, <3>1, <4>1
    <3>2. CASE ~(t = s /\ k = j)
      BY <1>1, <1>3, <2>3, <3>2 DEF NoOverlap
    <3> QED
      BY <3>1, <3>2
  <2> QED
    BY <1>2, <2>1, <2>2, <2>3 DEF NoOverlap
<1> QED
  BY <1>6, <1>7

\* SendResult moves an execution from a worker to the end of the channel.
LEMMA SendKeepsExclusion ==
    ASSUME TypeOK, NoOverlap, ExecutionOwnsRow,
           NEW s \in Servers, NEW w \in Workers, SendResult(s, w)
    PROVE  NoOverlap' /\ ExecutionOwnsRow'
<1> DEFINE j == worker[s][w].id
           r == [id |-> j, expr |-> worker[s][w].expr, status |-> worker[s][w].phase]
<1>1. j \in Jobs /\ r.id = j
  BY SlotFacts DEF SendResult, TypeOK
<1>2. /\ held' = held /\ status' = status /\ lockedBy' = lockedBy
      /\ \A t \in Servers \ {s} : results'[t] = results[t]
      /\ results'[s] = Append(results[s], r)
  BY DEF SendResult, TypeOK, rows
<1>3. /\ worker'[s][w].id = None
      /\ \A t \in Servers, v \in Workers : t # s \/ v # w => worker'[t][v] = worker[t][v]
  BY SlotFacts DEF SendResult, TypeOK
<1>4. /\ DOMAIN results'[s] = DOMAIN results[s] \cup {Len(results[s]) + 1}
      /\ Len(results[s]) + 1 \notin DOMAIN results[s]
      /\ results'[s][Len(results[s]) + 1] = r
      /\ \A i \in DOMAIN results[s] : results'[s][i] = results[s][i]
  <2>1. results[s] \in Seq(Reports)
    BY DEF TypeOK
  <2>2. Append(results[s], r) = [i \in 1..(Len(results[s]) + 1) |->
                                   IF i = Len(results[s]) + 1 THEN r ELSE results[s][i]]
    BY <2>1
  <2> QED
    BY <1>2, <2>1, <2>2
<1>5. \A k \in Jobs, t \in Servers :
         /\ held'[t].id = k <=> held[t].id = k
         /\ InWorker(t, k)' <=> (InWorker(t, k) /\ ~(t = s /\ k = j))
         /\ InChannel(t, k)' <=> (InChannel(t, k) \/ (t = s /\ k = j))
  <2>1. ASSUME NEW k \in Jobs, NEW t \in Servers
        PROVE  InWorker(t, k)' <=> (InWorker(t, k) /\ ~(t = s /\ k = j))
    <3>1. CASE t = s /\ k = j
      <4>1. \A v \in Workers : v # w => worker[s][v].id # j
        BY <1>1 DEF NoOverlap
      <4> QED
        BY <1>1, <1>3, <3>1, <4>1 DEF InWorker
    <3>2. CASE ~(t = s /\ k = j)
      BY <1>3, <3>2 DEF InWorker
    <3> QED
      BY <3>1, <3>2
  <2>2. \A k \in Jobs, t \in Servers :
           InChannel(t, k)' <=> (InChannel(t, k) \/ (t = s /\ k = j))
    BY <1>1, <1>2, <1>4 DEF InChannel
  <2> QED
    BY <1>2, <2>1, <2>2
<1>6. \A k \in Jobs, t \in Servers : InHand(t, k)' <=> InHand(t, k)
  <2>1. InWorker(s, j)
    BY DEF InWorker
  <2> QED
    BY <1>5, <2>1 DEF InHand
<1>7. ExecutionOwnsRow'
  BY <1>2, <1>6 DEF ExecutionOwnsRow
<1>8. NoOverlap'
  <2>0. InWorker(s, j)
    BY DEF InWorker
  <2>1. \A k \in Jobs, t, u \in Servers : InHand(t, k)' /\ InHand(u, k)' => t = u
    BY <1>6 DEF NoOverlap
  <2>2. \A k \in Jobs, t \in Servers :
           /\ ~(held'[t].id = k /\ InWorker(t, k)')
           /\ ~(held'[t].id = k /\ InChannel(t, k)')
           /\ ~(InWorker(t, k)' /\ InChannel(t, k)')
    BY <1>1, <1>5, <2>0 DEF NoOverlap
  <2>3. \A k \in Jobs, t \in Servers, u, v \in Workers :
           worker'[t][u].id = k /\ worker'[t][v].id = k => u = v
    BY <1>3 DEF NoOverlap
  <2>4. ASSUME NEW k \in Jobs, NEW t \in Servers,
               NEW h \in DOMAIN results'[t], NEW i \in DOMAIN results'[t],
               results'[t][h].id = k, results'[t][i].id = k
        PROVE  h = i
    <3>1. CASE t # s
      BY <1>2, <2>4, <3>1 DEF NoOverlap
    <3>2. CASE t = s /\ k = j
      <4>1. \A y \in DOMAIN results[s] : results[s][y].id # j
        BY <1>1, <2>0 DEF NoOverlap, InChannel
      <4> QED
        BY <1>4, <2>4, <3>2, <4>1
    <3>3. CASE t = s /\ k # j
      <4>1. h \in DOMAIN results[s] /\ i \in DOMAIN results[s]
        BY <1>1, <1>4, <2>4, <3>3
      <4> QED
        BY <1>4, <2>4, <3>3, <4>1 DEF NoOverlap
    <3> QED
      BY <3>1, <3>2, <3>3
  <2> QED
    BY <2>1, <2>2, <2>3, <2>4 DEF NoOverlap
<1> QED
  BY <1>7, <1>8

\* MarkResult takes the only execution of its job out of the channel, so that
\* the row may change.
LEMMA MarkKeepsExclusion ==
    ASSUME TypeOK, NoOverlap, ExecutionOwnsRow, NEW s \in Servers, MarkResult(s)
    PROVE  NoOverlap' /\ ExecutionOwnsRow'
<1>0. PICK res \in Reports : res = Head(results[s])
  BY DEF MarkResult, TypeOK
<1>1. results[s] \in Seq(Reports) /\ results[s] # <<>>
  BY DEF MarkResult, TypeOK
<1>2. PICK j \in Jobs : j = res.id /\ 1 \in DOMAIN results[s] /\ results[s][1].id = j
  BY <1>0, <1>1 DEF Reports
<1>3. /\ held' = held /\ worker' = worker
      /\ \A t \in Servers \ {s} : results'[t] = results[t]
      /\ results'[s] = Tail(results[s])
  BY DEF MarkResult, TypeOK
<1>4. \A i \in DOMAIN results'[s] :
         i + 1 \in DOMAIN results[s] /\ i + 1 # 1 /\ results'[s][i] = results[s][i + 1]
  BY <1>1, <1>3
<1>5. InChannel(s, j)
  BY <1>2 DEF InChannel
<1>6. \A k \in Jobs, t \in Servers :
         /\ InWorker(t, k)' <=> InWorker(t, k)
         /\ InChannel(t, k)' => InChannel(t, k) /\ ~(t = s /\ k = j)
  <2>1. ~InChannel(s, j)'
    <3> SUFFICES ASSUME NEW i \in DOMAIN results'[s], results'[s][i].id = j PROVE FALSE
      BY DEF InChannel
    <3> QED
      BY <1>2, <1>4 DEF NoOverlap
  <2>2. \A k \in Jobs : InChannel(s, k)' => InChannel(s, k)
    BY <1>4 DEF InChannel
  <2>3. \A k \in Jobs, t \in Servers \ {s} : InChannel(t, k)' => InChannel(t, k)
    BY <1>3 DEF InChannel
  <2> QED
    BY <1>3, <2>1, <2>2, <2>3 DEF InWorker
<1>7. \A k \in Jobs, t \in Servers : InHand(t, k)' => InHand(t, k) /\ k # j
  <2>1. InHand(s, j) /\ held[s].id # j /\ ~InWorker(s, j)
    BY <1>2, <1>5 DEF InHand, NoOverlap
  <2>2. \A t \in Servers \ {s} : ~InHand(t, j)
    BY <1>2, <2>1 DEF NoOverlap
  <2>3. \A k \in Jobs, t \in Servers : InHand(t, k)' => InHand(t, k)
    BY <1>3, <1>6 DEF InHand
  <2>4. ~InHand(s, j)'
    BY <1>2, <1>3, <1>6, <2>1 DEF InHand
  <2> QED
    BY <2>2, <2>3, <2>4
<1>8. ExecutionOwnsRow'
  <2>1. \A k \in Jobs \ {j} : status'[k] = status[k] /\ lockedBy'[k] = lockedBy[k]
    BY <1>0, <1>2 DEF MarkResult, Mark, rows, TypeOK
  <2> QED
    BY <1>7, <2>1 DEF ExecutionOwnsRow
<1>9. NoOverlap'
  <2>1. \A k \in Jobs, t, u \in Servers : InHand(t, k)' /\ InHand(u, k)' => t = u
    BY <1>7 DEF NoOverlap
  <2>2. \A k \in Jobs, t \in Servers :
           /\ ~(held'[t].id = k /\ InWorker(t, k)')
           /\ ~(held'[t].id = k /\ InChannel(t, k)')
           /\ ~(InWorker(t, k)' /\ InChannel(t, k)')
    BY <1>3, <1>6 DEF NoOverlap
  <2>3. ASSUME NEW k \in Jobs, NEW t \in Servers,
               NEW h \in DOMAIN results'[t], NEW i \in DOMAIN results'[t],
               results'[t][h].id = k, results'[t][i].id = k
        PROVE  h = i
    <3>1. CASE t # s
      BY <1>3, <2>3, <3>1 DEF NoOverlap
    <3>2. CASE t = s
      <4>1. h + 1 = i + 1
        BY <1>4, <2>3, <3>2 DEF NoOverlap
      <4>2. h \in Nat /\ i \in Nat
        <5>1. Tail(results[s]) \in Seq(Reports)
          BY <1>1
        <5>2. DOMAIN Tail(results[s]) \subseteq Nat
          BY <5>1
        <5>3. h \in DOMAIN Tail(results[s]) /\ i \in DOMAIN Tail(results[s])
          BY <1>3, <3>2
        <5> QED
          BY <5>2, <5>3
      <4> QED
        BY <4>1, <4>2
    <3> QED
      BY <3>1, <3>2
  <2> QED
    BY <1>3, <2>1, <2>2, <2>3 DEF NoOverlap
<1> QED
  BY <1>8, <1>9

\* The steps that change what is in hand are the four above; all others leave
\* it alone or lose it.
LEMMA ExclusionInduction ==
    TypeOK /\ NoOverlap /\ ExecutionOwnsRow /\ [Next]_vars => NoOverlap' /\ ExecutionOwnsRow'
<1> SUFFICES ASSUME TypeOK, NoOverlap, ExecutionOwnsRow, [Next]_vars
             PROVE  NoOverlap' /\ ExecutionOwnsRow'
  OBVIOUS
<1>0. TypeOK'
  BY TypeInduction
<1> DEFINE Emptied ==
              \A s \in Servers :
                 /\ held'[s].id \in {held[s].id, None}
                 /\ \A w \in Workers : worker'[s][w].id \in {worker[s][w].id, None}
                 /\ results'[s] \in {results[s], <<>>}
           RowsKept ==
              \A j \in Jobs, s \in Servers :
                 InHand(s, j) => status'[j] = status[j] /\ lockedBy'[j] = lockedBy[j]
<1>1. ASSUME Emptied, RowsKept PROVE NoOverlap' /\ ExecutionOwnsRow'
  BY <1>0, <1>1, EmptyingKeepsExclusion
<1>2. ASSUME UNCHANGED <<held, worker, results>>, RowsKept PROVE NoOverlap' /\ ExecutionOwnsRow'
  BY <1>1, <1>2
<1>3. ASSUME NEW j \in Jobs, TableStep(j) PROVE NoOverlap' /\ ExecutionOwnsRow'
  <2>1. RowsKept
    BY <1>3 DEF TableStep, AddJob, UpdateJob, SetActive, BecomeDue, LockAges,
       ExecutionOwnsRow, TypeOK
  <2> QED
    BY <1>2, <1>3, <2>1 DEF TableStep, AddJob, UpdateJob, SetActive, BecomeDue, LockAges, memory
<1>4. ASSUME NEW s \in Servers, Start(s) \/ FetchDueCronJobs(s) \/ FetchFails(s)
                                \/ UpdateJobRunTimes(s)
      PROVE  NoOverlap' /\ ExecutionOwnsRow'
  BY <1>2, <1>4 DEF Start, FetchDueCronJobs, FetchFails, UpdateJobRunTimes, rows
<1>5. ASSUME NEW s \in Servers, Cancel(s) PROVE NoOverlap' /\ ExecutionOwnsRow'
  BY <1>1, <1>5, SnapshotFacts DEF Cancel, rows, TypeOK
<1>6. ASSUME NEW s \in Servers, Exit(s) \/ Crash(s) PROVE NoOverlap' /\ ExecutionOwnsRow'
  <2>1. Forget(s) /\ UNCHANGED rows
    BY <1>6 DEF Exit, Crash
  <2> QED
    BY <1>1, <2>1, SnapshotFacts, SlotFacts DEF Forget, rows, TypeOK
<1>7. ASSUME NEW s \in Servers, NEW x \in batch[s], LockJobMisses(s, x) \/ LockJobFails(s, x)
      PROVE  NoOverlap' /\ ExecutionOwnsRow'
  <2>1. x.id \in Jobs
    BY SnapshotFacts DEF TypeOK
  <2>2. CASE UNCHANGED rows
    BY <1>2, <1>7, <2>2 DEF LockJobMisses, LockJobFails, rows
  <2>3. CASE Lockable(x.id) /\ TakeLock(s, x.id)
    <3>1. RowsKept
      BY <2>1, <2>3, LockableIsFree DEF TakeLock, TypeOK
    <3> QED
      BY <1>2, <1>7, <3>1 DEF LockJobMisses, LockJobFails
  <2> QED
    BY <1>7, <2>2, <2>3 DEF LockJobMisses, LockJobFails
<1>8. ASSUME NEW s \in Servers, NEW w \in Workers, ExecuteHandler(s, w)
      PROVE  NoOverlap' /\ ExecutionOwnsRow'
  BY <1>1, <1>8, HandlerChange DEF ExecuteHandler, rows
<1>9. ASSUME UNCHANGED vars PROVE NoOverlap' /\ ExecutionOwnsRow'
  BY <1>2, <1>9 DEF vars, rows, memory
<1> QED
  BY <1>3, <1>4, <1>5, <1>6, <1>7, <1>8, <1>9, LockKeepsExclusion, AcquireKeepsExclusion,
     SendKeepsExclusion, MarkKeepsExclusion
  DEF Next, ServerStep, PollStep, WorkerStep, ProcessorStep

\* Both hold together in every behaviour.  The two need each other: LockJob
\* finds a row that is not processing, and only by ExecutionOwnsRow is nobody
\* executing it; a result may change the row, because by NoOverlap it is the
\* only one.
LEMMA ExclusionInvariant == Spec => [](NoOverlap /\ ExecutionOwnsRow)
<1>1. Init => NoOverlap /\ ExecutionOwnsRow
  <2> SUFFICES ASSUME Init PROVE NoOverlap /\ ExecutionOwnsRow
    OBVIOUS
  <2>1. \A j \in Jobs, s \in Servers :
           held[s].id # j /\ ~InWorker(s, j) /\ ~InChannel(s, j)
    BY SnapshotFacts, SlotFacts DEF Init, InWorker, InChannel
  <2> QED
    BY <2>1 DEF NoOverlap, ExecutionOwnsRow, InHand, InWorker, InChannel
<1>2. TypeOK /\ NoOverlap /\ ExecutionOwnsRow /\ [Next]_vars
      => (NoOverlap /\ ExecutionOwnsRow)'
  BY ExclusionInduction
<1> QED
  BY <1>1, <1>2, TypeCorrect, PTL DEF Spec

\* Executions of a cron job never overlap, whatever crashes, fails or is read
\* from a stale page, on however many servers.
THEOREM ExecutionsExclusive == Spec => []NoOverlap
  BY ExclusionInvariant, PTL

\* While an execution is in hand its row is processing and names its server:
\* no edit, activation, late result or other server takes the row away.
THEOREM RowNamesExecutor == Spec => []ExecutionOwnsRow
  BY ExclusionInvariant, PTL
-----------------------------------------------------------------------------
(* The locks that lose their execution.                                    *)

\* One step orphans a lock only if a server goes down or is cancelled, or a
\* statement fails.
LEMMA OrphanStep ==
    ASSUME TypeOK, [Next]_vars, NEW j \in Jobs, ~Orphan(j), Orphan(j)',
           \A s \in Servers : pc'[s] = pc[s], faults' = faults
    PROVE  FALSE
<1>1. ~Fault
  BY DEF Fault, TypeOK
<1>2. status'[j] = "processing" /\ \A s \in Servers : ~InHand(s, j)'
  BY DEF Orphan
<1>3. ASSUME status[j] = "processing" PROVE \E s \in Servers : InHand(s, j)
  BY <1>3 DEF Orphan
<1>4. ASSUME status'[j] = status[j], UNCHANGED <<held, worker, results>> PROVE FALSE
  BY <1>2, <1>3, <1>4 DEF InHand, InWorker, InChannel
<1>5. ASSUME NEW k \in Jobs, TableStep(k) PROVE FALSE
  <2>1. status'[j] = status[j]
    BY <1>2, <1>5 DEF TableStep, AddJob, UpdateJob, SetActive, BecomeDue, LockAges, TypeOK
  <2> QED
    BY <1>4, <1>5, <2>1
       DEF TableStep, AddJob, UpdateJob, SetActive, BecomeDue, LockAges, memory
<1>6. ASSUME NEW s \in Servers, Start(s) \/ Cancel(s) \/ Exit(s) \/ Crash(s) PROVE FALSE
  BY <1>6 DEF Start, Cancel, Exit, Crash, Forget, TypeOK
<1>7. ASSUME NEW s \in Servers, FetchDueCronJobs(s) \/ UpdateJobRunTimes(s) PROVE FALSE
  BY <1>4, <1>7 DEF FetchDueCronJobs, UpdateJobRunTimes, rows
<1>8. ASSUME NEW s \in Servers, NEW x \in batch[s], LockJob(s, x) PROVE FALSE
  <2>1. x.id \in Jobs /\ held'[s].id = x.id /\ held[s].id = None
    BY <1>8, SnapshotFacts DEF LockJob, TypeOK
  <2>2. j # x.id
    BY <1>2, <2>1 DEF InHand
  <2>3. status'[j] = status[j]
    BY <1>8, <2>1, <2>2 DEF LockJob, TakeLock, TypeOK
  <2>4. PICK t \in Servers : InHand(t, j)
    BY <1>2, <1>3, <2>3
  <2>5. held'[t].id = j <=> held[t].id = j
    BY <1>8, <2>1, <2>2 DEF LockJob, TypeOK
  <2>6. InHand(t, j)'
    BY <1>8, <2>4, <2>5 DEF LockJob, InHand, InWorker, InChannel
  <2> QED
    BY <1>2, <2>6
<1>9. ASSUME NEW s \in Servers, NEW x \in batch[s], LockJobMisses(s, x) PROVE FALSE
  BY <1>4, <1>9 DEF LockJobMisses, rows
<1>10. ASSUME NEW s \in Servers, NEW w \in Workers, AcquireWorker(s, w) PROVE FALSE
  <2>1. status' = status /\ results' = results
    BY <1>10 DEF AcquireWorker, rows
  <2>2. PICK t \in Servers : InHand(t, j)
    BY <1>2, <1>3, <2>1
  <2>3. worker'[s][w].id = held[s].id /\ worker[s][w].id = None
    BY <1>10, SlotFacts DEF AcquireWorker, TypeOK
  <2>4. ASSUME held[t].id = j PROVE held'[t].id = j \/ InWorker(t, j)'
    BY <1>10, <2>3, <2>4 DEF AcquireWorker, InWorker, TypeOK
  <2>5. ASSUME InWorker(t, j) PROVE InWorker(t, j)'
    BY <1>10, <2>3, <2>5 DEF AcquireWorker, InWorker, TypeOK
  <2> QED
    BY <1>2, <2>1, <2>2, <2>4, <2>5 DEF InHand, InChannel
<1>11. ASSUME NEW s \in Servers, NEW w \in Workers, ExecuteHandler(s, w) PROVE FALSE
  <2>1. UNCHANGED <<status, held, results>>
    BY <1>11 DEF ExecuteHandler, rows
  <2>2. \A t \in Servers : InWorker(t, j)' <=> InWorker(t, j)
    BY <1>11, HandlerChange DEF InWorker
  <2> QED
    BY <1>2, <1>3, <2>1, <2>2 DEF InHand, InChannel
<1>12. ASSUME NEW s \in Servers, NEW w \in Workers, SendResult(s, w) PROVE FALSE
  <2>1. UNCHANGED <<status, held>>
    BY <1>12 DEF SendResult, rows
  <2>2. PICK t \in Servers : InHand(t, j)
    BY <1>2, <1>3, <2>1
  <2> DEFINE r == [id |-> worker[s][w].id, expr |-> worker[s][w].expr,
                   status |-> worker[s][w].phase]
  <2>3. results[s] \in Seq(Reports) /\ results'[s] = Append(results[s], r)
    BY <1>12 DEF SendResult, TypeOK
  <2>4. /\ Len(results[s]) + 1 \in DOMAIN results'[s]
        /\ results'[s][Len(results[s]) + 1].id = worker[s][w].id
    BY <2>3
  <2>5. \A i \in DOMAIN results[s] : i \in DOMAIN results'[s] /\ results'[s][i] = results[s][i]
    BY <2>3
  <2>6. ASSUME InChannel(t, j) PROVE InChannel(t, j)'
    BY <1>12, <2>5, <2>6 DEF SendResult, InChannel, TypeOK
  <2>7. ASSUME InWorker(t, j) PROVE InWorker(t, j)' \/ InChannel(t, j)'
    <3>1. PICK v \in Workers : worker[t][v].id = j
      BY <2>7 DEF InWorker
    <3>2. CASE t = s /\ v = w
      BY <2>4, <3>1, <3>2 DEF InChannel
    <3>3. CASE t # s \/ v # w
      BY <1>12, <3>1, <3>3 DEF SendResult, InWorker, TypeOK
    <3> QED
      BY <3>2, <3>3
  <2> QED
    BY <1>2, <2>1, <2>2, <2>6, <2>7 DEF InHand
<1>13. ASSUME NEW s \in Servers, MarkResult(s) PROVE FALSE
  <2>1. PICK res \in Reports : res = Head(results[s])
    BY <1>13 DEF MarkResult, TypeOK
  <2>2. Mark(res)
    BY <1>1, <1>13, <2>1 DEF MarkResult
  <2>3. res.id \in Jobs /\ res.status # "processing"
    BY DEF Reports
  <2>4. j # res.id /\ status'[j] = status[j]
    BY <1>2, <2>2, <2>3 DEF Mark, TypeOK
  <2>5. PICK t \in Servers : InHand(t, j)
    BY <1>2, <1>3, <2>4
  <2>6. ASSUME InChannel(t, j) PROVE InChannel(t, j)'
    <3>1. CASE t # s
      BY <1>13, <2>6, <3>1 DEF MarkResult, InChannel, TypeOK
    <3>2. CASE t = s
      <4>1. results[s] \in Seq(Reports) /\ results[s] # <<>> /\ results'[s] = Tail(results[s])
        BY <1>13 DEF MarkResult, TypeOK
      <4>2. PICK i \in DOMAIN results[s] : results[s][i].id = j
        BY <2>6, <3>2 DEF InChannel
      <4>3. i \in 1..Len(results[s]) /\ i # 1
        BY <2>1, <2>4, <4>1, <4>2
      <4>4. i - 1 \in DOMAIN Tail(results[s]) /\ Tail(results[s])[i - 1] = results[s][i]
        BY <4>1, <4>3
      <4> QED
        BY <3>2, <4>1, <4>2, <4>4 DEF InChannel
    <3> QED
      BY <3>1, <3>2
  <2> QED
    BY <1>2, <1>13, <2>5, <2>6 DEF MarkResult, InHand, InWorker
<1>14. ASSUME UNCHANGED vars PROVE FALSE
  BY <1>4, <1>14 DEF vars, rows, memory
<1> QED
  BY <1>1, <1>5, <1>6, <1>7, <1>8, <1>9, <1>10, <1>11, <1>12, <1>13, <1>14
  DEF Next, ServerStep, PollStep, WorkerStep, ProcessorStep, FetchFails, LockJobFails

\* A lock of a cron job loses its execution only when a server is cancelled or
\* ends, or a statement fails: the steps of polling, executing and reporting
\* hand the job on or write its result, on any number of servers.
THEOREM LocksNotOrphaned == Spec => OrphanOnlyByLoss
<1>1. TypeOK /\ [Next]_vars
      => [\A j \in Jobs : ~Orphan(j) /\ Orphan(j)'
             => (\E s \in Servers : pc'[s] # pc[s]) \/ faults' # faults]_vars
  BY OrphanStep
<1> QED
  BY <1>1, TypeCorrect, PTL DEF Spec, OrphanOnlyByLoss
=============================================================================
