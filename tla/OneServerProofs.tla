-------------------------- MODULE OneServerProofs --------------------------
(***************************************************************************)
(* Proofs about EnqueuedJobs with a single server, for any sets of jobs    *)
(* and workers, any capacities and any number of crashes, restarts and     *)
(* faults.  Two servers break what is shown here: UnlockStaleJobs of one   *)
(* puts the jobs of the other back in the queue.                           *)
(***************************************************************************)
EXTENDS EnqueuedJobsProofs, FiniteSetTheorems

\* The hypothesis of every theorem here.
OneServer == \A s, t \in Servers : s = t

\* A process that is down or only enqueues has nothing in memory.
MemoryEmpty ==
    \A s \in Servers : pc[s] \in {"down", "booted"} =>
        /\ batch[s] = {} /\ held[s] = NoJob /\ results[s] = <<>>
        /\ \A w \in Workers : worker[s][w] = IdleSlot

\* A job waits, executes or reports in one place.
OnePlace(s) ==
    \A j \in Jobs :
        /\ held[s].id = j => /\ \A w \in Workers : worker[s][w].id # j
                             /\ \A i \in DOMAIN results[s] : results[s][i].id # j
        /\ \A v, w \in Workers : worker[s][v].id = j /\ worker[s][w].id = j => v = w
        /\ \A w \in Workers, i \in DOMAIN results[s] :
              worker[s][w].id = j => results[s][i].id # j
        /\ \A i, k \in DOMAIN results[s] :
              results[s][i].id = j /\ results[s][k].id = j => i = k

\* A job in hand is locked, or its row was deleted meanwhile, and what was
\* read of its attempts is still exact.
HandExact(s) ==
    \A j \in Jobs :
        /\ InHand(s, j) => status[j] \in {"processing", "removed"}
        /\ held[s].id = j => held[s].attempts = attempts[j]
        /\ \A w \in Workers : worker[s][w].id = j => worker[s][w].attempts = attempts[j]
        /\ \A i \in DOMAIN results[s] :
              results[s][i].id = j => results[s][i].attempts = attempts[j] + 1

\* A row that was read and not yet tried can still be locked, unless it was
\* deleted, and was read once, with the attempts it has.
BatchExact(s) ==
    \A x \in batch[s] :
        /\ status[x.id] = "removed" \/ Lockable(x.id)
        /\ x.attempts = attempts[x.id]
        /\ \A y \in batch[s] : y.id = x.id => y = x

\* No job that may run again, or has succeeded, has used up its attempts.
LivingHaveAttempts ==
    \A j \in Jobs :
        status[j] \in {"queued", "processing", "retrying", "failed", "succeeded"}
        => attempts[j] < MaxRetryAttempt

\* What one server alone keeps true.
OneServerInv ==
    /\ MemoryEmpty
    /\ \A s \in Servers : OnePlace(s) /\ HandExact(s) /\ BatchExact(s)
    /\ LivingHaveAttempts

\* A server gets to "down" by an end of its process, which forgets all, and
\* to "booted" from there.
LEMMA LifeChange ==
    ASSUME TypeOK, [Next]_vars, NEW s \in Servers, pc'[s] \in {"down", "booted"}
    PROVE  pc[s] \in {"down", "booted"} \/ Forget(s)
<1>1. \/ UNCHANGED pc
      \/ \E t \in Servers : pc[t] = "down" /\ pc' = [pc EXCEPT ![t] = "booted"]
      \/ \E t \in Servers : pc' = [pc EXCEPT ![t] = "up"]
      \/ \E t \in Servers : pc' = [pc EXCEPT ![t] = "draining"]
      \/ \E t \in Servers : Forget(t)
  BY DEF FetchDueJobs, Next, TableStep, ServerStep, PollStep, WorkerStep, FaultStep, vars, rows, memory,
     Insert, RemoveByID, BecomeDue, LockAges, NewContainer, Start, Cancel,
     ProcessorStops, Exit, Crash, LockJob, LockJobMisses, LockJobFails,
     AcquireWorker, ExecuteHandler, HandlerPanics, SendResult,
     ProcessResult, DropResult, MarkRetryFailedJobs, OvertakenRetry, RetryLoopEnds
<1>2. ASSUME NEW t \in Servers, Forget(t) PROVE pc'[s] = pc[s] \/ Forget(s)
  <2>1. CASE t = s
    BY <1>2, <2>1
  <2>2. CASE t # s
    BY <1>2, <2>2 DEF Forget, TypeOK
  <2> QED
    BY <2>1, <2>2
<1>3. CASE \E t \in Servers : Forget(t)
  BY <1>2, <1>3
<1> QED
  BY <1>1, <1>3 DEF TypeOK

\* Nothing gets into the memory of a process that does not poll.
LEMMA MemoryInduction == TypeOK /\ MemoryEmpty /\ [Next]_vars => MemoryEmpty'
<1> SUFFICES ASSUME TypeOK, MemoryEmpty, [Next]_vars,
                    NEW s \in Servers, pc'[s] \in {"down", "booted"}
             PROVE  /\ batch'[s] = {} /\ held'[s] = NoJob /\ results'[s] = <<>>
                    /\ \A w \in Workers : worker'[s][w] = IdleSlot
  BY DEF MemoryEmpty
<1>1. CASE Forget(s)
  BY <1>1 DEF Forget, TypeOK
<1>2. CASE pc[s] \in {"down", "booted"}
  <2>1. /\ batch[s] = {} /\ held[s] = NoJob /\ results[s] = <<>>
        /\ \A w \in Workers : worker[s][w] = IdleSlot
    BY <1>2 DEF MemoryEmpty
  <2>2. batch'[s] = {}
    <3>1. ~FetchDueJobs(s)
      BY <1>2 DEF FetchDueJobs
    <3> QED
      BY <2>1, <3>1, BatchChange
  <2>3. held'[s] = NoJob
    BY <2>1, HeldChange
  <2>4. \A w \in Workers : worker[s][w].phase = "idle"
    BY <2>1 DEF IdleSlot
  <2>5. ASSUME NEW w \in Workers PROVE worker'[s][w] = IdleSlot
    <3>1. ~ExecuteHandler(s, w) /\ ~AcquireWorker(s, w)
      BY <2>1, <2>4 DEF ExecuteHandler, AcquireWorker
    <3> QED
      BY <2>1, <3>1, WorkerChange
  <2>6. results'[s] = <<>>
    <3>1. ASSUME NEW w \in Workers PROVE ~SendResult(s, w)
      BY <2>4 DEF SendResult
    <3> QED
      BY <2>1, <3>1, ResultsChange
  <2> QED
    BY <2>2, <2>3, <2>5, <2>6
<1> QED
  BY <1>1, <1>2, LifeChange

\* Taking the first report out of a channel moves the others up by one.
LEMMA TailFacts ==
    ASSUME NEW q \in Seq(Reports), q # <<>>
    PROVE  /\ 1 \in DOMAIN q /\ q[1] = Head(q) /\ Head(q) \in Reports
           /\ \A i \in DOMAIN Tail(q) : i + 1 \in DOMAIN q /\ Tail(q)[i] = q[i + 1] /\ i + 1 # 1
  OBVIOUS

\* Putting a report into a channel leaves the others where they are.
LEMMA AppendFacts ==
    ASSUME NEW q \in Seq(Reports), NEW r \in Reports
    PROVE  /\ DOMAIN Append(q, r) = DOMAIN q \cup {Len(q) + 1}
           /\ Len(q) + 1 \notin DOMAIN q
           /\ Append(q, r)[Len(q) + 1] = r
           /\ \A i \in DOMAIN q : Append(q, r)[i] = q[i]
  OBVIOUS

\* A step that hands no job on: places are left, emptied or moved up.
PlacesKept(s) ==
    /\ held'[s] \in {held[s], NoJob}
    /\ \A w \in Workers :
          \/ worker'[s][w] = IdleSlot
          \/ worker'[s][w].id = worker[s][w].id /\ worker'[s][w].attempts = worker[s][w].attempts
    /\ \E d \in {0, 1} : \A i \in DOMAIN results'[s] :
          i \in Nat /\ i + d \in DOMAIN results[s] /\ results'[s][i] = results[s][i + d]

\* Such a step, which leaves the row of a job that is still in hand alone or
\* deletes it.
HandKept(s) ==
    /\ PlacesKept(s)
    /\ \A j \in Jobs : InHand(s, j)' =>
          attempts'[j] = attempts[j] /\ status'[j] \in {status[j], "removed"}

\* Such a step keeps every job in one place and exact.
LEMMA KeptHand ==
    ASSUME NEW s \in Servers, OnePlace(s), HandExact(s), HandKept(s)
    PROVE  OnePlace(s)' /\ HandExact(s)'
<1>0. None \notin Jobs
  BY NoneAssumption
<1>1. PICK d \in {0, 1} : \A i \in DOMAIN results'[s] :
        i \in Nat /\ i + d \in DOMAIN results[s] /\ results'[s][i] = results[s][i + d]
  BY DEF HandKept, PlacesKept
<1>2. ASSUME NEW j \in Jobs PROVE held'[s].id = j => held'[s] = held[s]
  BY <1>0, <1>2 DEF HandKept, PlacesKept, NoJob
<1>3. ASSUME NEW j \in Jobs, NEW w \in Workers, worker'[s][w].id = j
      PROVE  worker[s][w].id = j /\ worker'[s][w].attempts = worker[s][w].attempts
  BY <1>0, <1>3 DEF HandKept, PlacesKept, IdleSlot
<1>4. ASSUME NEW j \in Jobs
      PROVE  /\ held'[s].id = j => /\ \A w \in Workers : worker'[s][w].id # j
                                   /\ \A i \in DOMAIN results'[s] : results'[s][i].id # j
             /\ \A v, w \in Workers : worker'[s][v].id = j /\ worker'[s][w].id = j => v = w
             /\ \A w \in Workers, i \in DOMAIN results'[s] :
                   worker'[s][w].id = j => results'[s][i].id # j
  BY <1>1, <1>2, <1>3, <1>4 DEF OnePlace
<1>5. ASSUME NEW j \in Jobs, NEW i \in DOMAIN results'[s], NEW k \in DOMAIN results'[s],
             results'[s][i].id = j, results'[s][k].id = j
      PROVE  i = k
  <2>1. i + d = k + d /\ i \in Nat /\ k \in Nat
    BY <1>1, <1>5 DEF OnePlace
  <2> QED
    BY <2>1
<1>6. ASSUME NEW j \in Jobs, InHand(s, j)' PROVE InHand(s, j)
  BY <1>1, <1>2, <1>3, <1>6 DEF InHand
<1>7. ASSUME NEW j \in Jobs, InHand(s, j)'
      PROVE  status'[j] \in {"processing", "removed"} /\ attempts'[j] = attempts[j]
  BY <1>6, <1>7 DEF HandExact, HandKept
<1>8. ASSUME NEW j \in Jobs
      PROVE  /\ held'[s].id = j => held'[s].attempts = attempts'[j]
             /\ \A w \in Workers : worker'[s][w].id = j => worker'[s][w].attempts = attempts'[j]
             /\ \A i \in DOMAIN results'[s] :
                   results'[s][i].id = j => results'[s][i].attempts = attempts'[j] + 1
  <2>1. CASE InHand(s, j)'
    <3>1. attempts'[j] = attempts[j]
      BY <1>7, <2>1
    <3> QED
      BY <1>1, <1>2, <1>3, <3>1 DEF HandExact
  <2>2. CASE ~InHand(s, j)'
    BY <2>2 DEF InHand
  <2> QED
    BY <2>1, <2>2
<1> QED
  BY <1>4, <1>5, <1>7, <1>8 DEF OnePlace, HandExact

\* A server hands a job on in three ways only.
LEMMA PlacesChange ==
    ASSUME TypeOK, TypeOK', [Next]_vars, NEW s \in Servers
    PROVE  \/ PlacesKept(s)
           \/ \E x \in batch[s] : LockJob(s, x)
           \/ \E w \in Workers : AcquireWorker(s, w) \/ SendResult(s, w)
<1> SUFFICES ASSUME ~ \E x \in batch[s] : LockJob(s, x),
                    ~ \E w \in Workers : AcquireWorker(s, w) \/ SendResult(s, w)
             PROVE  PlacesKept(s)
  OBVIOUS
<1>1. held'[s] \in {held[s], NoJob}
  <2>1. \/ UNCHANGED held
        \/ \E t \in Servers : held' = [held EXCEPT ![t] = NoJob]
        \/ \E t \in Servers : \E x \in batch[t] : LockJob(t, x)
    BY DEF FetchDueJobs, Next, TableStep, ServerStep, PollStep, WorkerStep, FaultStep, vars, rows, memory,
       Insert, RemoveByID, BecomeDue, LockAges, NewContainer, Start, Cancel,
       ProcessorStops, Exit, Crash, Forget, LockJobMisses, LockJobFails,
       AcquireWorker, ExecuteHandler, HandlerPanics, SendResult,
       ProcessResult, DropResult, MarkRetryFailedJobs, OvertakenRetry, RetryLoopEnds
  <2>2. ASSUME NEW t \in Servers, NEW x \in batch[t], LockJob(t, x) PROVE held'[s] = held[s]
    <3>1. t # s
      BY <2>2
    <3> QED
      BY <2>2, <3>1 DEF LockJob, TypeOK
  <2>3. CASE UNCHANGED held
    BY <2>3
  <2>4. ASSUME NEW t \in Servers, held' = [held EXCEPT ![t] = NoJob]
        PROVE  held'[s] \in {held[s], NoJob}
    BY <2>4 DEF TypeOK
  <2> QED
    BY <2>1, <2>2, <2>3, <2>4
<1>2. ASSUME NEW w \in Workers
      PROVE  \/ worker'[s][w] = IdleSlot
             \/ worker'[s][w].id = worker[s][w].id /\ worker'[s][w].attempts = worker[s][w].attempts
  <2>1. CASE ExecuteHandler(s, w)
    <3>1. PICK outcome : worker' = [worker EXCEPT ![s][w].phase = outcome]
      BY <2>1 DEF ExecuteHandler
    <3>2. worker'[s][w] = [worker[s][w] EXCEPT !.phase = outcome]
      BY <3>1 DEF TypeOK
    <3>3. worker[s][w] \in [id : Jobs, attempts : Nat, phase : {"running", "succeeded", "failed"}]
      BY <2>1 DEF ExecuteHandler, TypeOK, Slots, IdleSlot
    <3> QED
      BY <3>2, <3>3
  <2>2. CASE worker'[s][w] \in {worker[s][w], IdleSlot}
    BY <2>2
  <2> QED
    BY <2>1, <2>2, WorkerChange
<1>3. \E d \in {0, 1} : \A i \in DOMAIN results'[s] :
          i \in Nat /\ i + d \in DOMAIN results[s] /\ results'[s][i] = results[s][i + d]
  <2>1. results[s] \in Seq(Reports)
    BY DEF TypeOK
  <2>2. CASE results'[s] = results[s]
    <3>1. \A i \in DOMAIN results'[s] :
             i \in Nat /\ i + 0 \in DOMAIN results[s] /\ results'[s][i] = results[s][i + 0]
      BY <2>1, <2>2
    <3> QED
      BY <3>1
  <2>3. CASE results'[s] = <<>>
    BY <2>3
  <2>4. CASE results[s] # <<>> /\ results'[s] = Tail(results[s])
    <3>1. \A i \in DOMAIN results'[s] :
             i \in Nat /\ i + 1 \in DOMAIN results[s] /\ results'[s][i] = results[s][i + 1]
      BY <2>1, <2>4
    <3> QED
      BY <3>1
  <2> QED
    BY <2>2, <2>3, <2>4, ResultsChange
<1> QED
  BY <1>1, <1>2, <1>3 DEF PlacesKept

\* What is in hand after such a step was in hand before it.
LEMMA NothingNewInHand ==
    ASSUME NEW s \in Servers, PlacesKept(s), NEW j \in Jobs, InHand(s, j)'
    PROVE  InHand(s, j)
<1>1. held'[s].id = j => held[s].id = j
  BY NoneAssumption DEF PlacesKept, NoJob
<1>2. \A w \in Workers : worker'[s][w].id = j => worker[s][w].id = j
  BY NoneAssumption DEF PlacesKept, IdleSlot
<1>3. ASSUME NEW i \in DOMAIN results'[s], results'[s][i].id = j
      PROVE  \E k \in DOMAIN results[s] : results[s][k].id = j
  BY <1>3 DEF PlacesKept
<1> QED
  BY <1>1, <1>2, <1>3 DEF InHand

\* A process with an empty memory has nothing in hand.
LEMMA EmptyHand ==
    ASSUME MemoryEmpty, NEW s \in Servers, pc[s] \in {"down", "booted"}, NEW j \in Jobs
    PROVE  ~InHand(s, j)
<1>1. /\ held[s] = NoJob /\ results[s] = <<>>
      /\ \A w \in Workers : worker[s][w] = IdleSlot
  BY DEF MemoryEmpty
<1> QED
  BY <1>1, NoneAssumption DEF InHand, NoJob, IdleSlot

\* The job whose result is applied is no longer in hand afterwards.
LEMMA AppliedLeavesHand ==
    ASSUME TypeOK, NEW s \in Servers, OnePlace(s), ProcessResult(s)
    PROVE  \E res \in Reports :
              /\ res = Head(results[s]) /\ res = results[s][1] /\ 1 \in DOMAIN results[s]
              /\ res.id \in Jobs /\ InHand(s, res.id) /\ ~InHand(s, res.id)'
<1>1. /\ results[s] \in Seq(Reports) /\ results[s] # <<>> /\ results'[s] = Tail(results[s])
      /\ held' = held /\ worker' = worker
  BY DEF ProcessResult, TypeOK
<1>2. PICK res \in Reports : res = Head(results[s])
  BY <1>1
<1>3. /\ 1 \in DOMAIN results[s] /\ results[s][1] = res
      /\ \A i \in DOMAIN results'[s] :
            i + 1 \in DOMAIN results[s] /\ results'[s][i] = results[s][i + 1] /\ i + 1 # 1
  BY <1>1, <1>2, TailFacts
<1>4. res.id \in Jobs
  BY DEF Reports
<1>5. InHand(s, res.id)
  BY <1>3 DEF InHand
<1>6. held'[s].id # res.id /\ \A w \in Workers : worker'[s][w].id # res.id
  BY <1>1, <1>3, <1>4 DEF OnePlace
<1>7. \A i \in DOMAIN results'[s] : results'[s][i].id # res.id
  BY <1>3, <1>4 DEF OnePlace
<1>8. ~InHand(s, res.id)'
  BY <1>6, <1>7 DEF InHand
<1> QED
  BY <1>2, <1>3, <1>4, <1>5, <1>8

\* With one server no result overtakes the ticker: the job of a report is
\* still processing, so the ticker has not selected it.
LEMMA NotOvertaken ==
    ASSUME OneServer, TypeOK, OneServerInv, NEW s \in Servers, NEW t \in Servers
    PROVE  ~OvertakenRetry(s, t)
<1> SUFFICES ASSUME OvertakenRetry(s, t) PROVE FALSE
  OBVIOUS
<1>1. results[t] \in Seq(Reports) /\ results[t] # <<>> /\ Retryable(Head(results[t]).id)
  BY DEF OvertakenRetry, TypeOK
<1>2. 1 \in DOMAIN results[t] /\ results[t][1] = Head(results[t]) /\ Head(results[t]) \in Reports
  BY <1>1, TailFacts
<1>3. Head(results[t]).id \in Jobs /\ InHand(t, Head(results[t]).id)
  BY <1>2 DEF InHand, Reports
<1>4. status[Head(results[t]).id] \in {"processing", "removed"}
  BY <1>3 DEF OneServerInv, HandExact
<1> QED
  BY <1>1, <1>4 DEF Retryable

\* The row of a job that stays in hand is left alone, or deleted by a client.
LEMMA RowOfHand ==
    ASSUME OneServer, TypeOK, OneServerInv, [Next]_vars, NEW s \in Servers,
           NEW j \in Jobs, InHand(s, j), InHand(s, j)'
    PROVE  attempts'[j] = attempts[j] /\ status'[j] \in {status[j], "removed"}
<1> DEFINE Kept == attempts'[j] = attempts[j] /\ status'[j] \in {status[j], "removed"}
<1>0. status[j] \in {"processing", "removed"} /\ OnePlace(s) /\ MemoryEmpty
  BY DEF OneServerInv, HandExact
<1>1. ASSUME NEW k \in Jobs, TableStep(k) PROVE Kept
  BY <1>0, <1>1 DEF TableStep, Insert, RemoveByID, BecomeDue, LockAges, TypeOK
<1>2. ASSUME NEW t \in Servers, Start(t) PROVE FALSE
  <2>1. t = s /\ pc[s] = "booted"
    BY <1>2 DEF OneServer, Start
  <2> QED
    BY <1>0, <2>1, EmptyHand
<1>3. ASSUME NEW t \in Servers, NEW k \in Jobs, Lockable(k), TakeLock(t, k) PROVE Kept
  BY <1>0, <1>3 DEF Lockable, TakeLock, TypeOK
<1>4. ASSUME NEW t \in Servers, MarkRetryFailedJobs(t) PROVE Kept
  BY <1>0, <1>4 DEF MarkRetryFailedJobs, Reschedule, Retryable, TypeOK
<1>5. ASSUME NEW t \in Servers, ProcessResult(t) PROVE Kept
  <2>1. ProcessResult(s)
    BY <1>5 DEF OneServer
  <2>2. PICK res \in Reports : res = Head(results[s]) /\ res.id \in Jobs /\ res.id # j
    BY <1>0, <2>1, AppliedLeavesHand
  <2>3. CASE MarkSuccess(res.id)
    BY <2>2, <2>3 DEF MarkSuccess, TypeOK
  <2>4. CASE MarkFailure(res.id, res.attempts)
    BY <2>2, <2>4 DEF MarkFailure, TypeOK
  <2> QED
    BY <2>1, <2>2, <2>3, <2>4 DEF ProcessResult
<1>6. ASSUME UNCHANGED rows PROVE Kept
  BY <1>6 DEF rows
<1>7. ASSUME NEW t \in Servers, NEW x \in batch[t], LockJob(t, x) \/ LockJobFails(t, x)
      PROVE  Kept
  BY <1>3, <1>6, <1>7 DEF LockJob, LockJobFails, TypeOK, Snapshots
<1>8. ASSUME NEW t \in Servers, ServerStep(t) PROVE Kept
  <2>1. \/ UNCHANGED rows
        \/ Start(t) \/ MarkRetryFailedJobs(t) \/ ProcessResult(t)
        \/ \E u \in Servers : OvertakenRetry(t, u)
        \/ \E x \in batch[t] : LockJob(t, x) \/ LockJobFails(t, x)
    BY <1>8 DEF ServerStep, PollStep, WorkerStep, FaultStep, NewContainer, Cancel,
       ProcessorStops, Exit, Crash, FetchDueJobs, LockJobMisses, AcquireWorker,
       ExecuteHandler, HandlerPanics, SendResult, DropResult, RetryLoopEnds
  <2> QED
    BY <2>1, <1>2, <1>4, <1>5, <1>6, <1>7, NotOvertaken
<1> QED
  BY <1>1, <1>6, <1>8 DEF Next, vars

\* The lock: the job was in nobody's hand, and is in hand once.
LEMMA LockKeepsHand ==
    ASSUME TypeOK, NEW s \in Servers, OnePlace(s), HandExact(s), BatchExact(s),
           NEW x \in batch[s], LockJob(s, x)
    PROVE  OnePlace(s)' /\ HandExact(s)'
<1>1. /\ x.id \in Jobs /\ held'[s] = x /\ held[s].id = None
      /\ worker' = worker /\ results' = results /\ attempts' = attempts
  BY DEF LockJob, TakeLock, TypeOK, Snapshots, NoJob
<1>2. /\ ~InHand(s, x.id) /\ x.attempts = attempts[x.id]
      /\ status'[x.id] = "processing"
      /\ \A j \in Jobs : j # x.id => status'[j] = status[j]
  <2>1. x.attempts = attempts[x.id]
    BY DEF BatchExact
  <2>2. ~InHand(s, x.id)
    BY <1>1 DEF LockJob, Lockable, HandExact
  <2>3. status' = [status EXCEPT ![x.id] = "processing"] /\ DOMAIN status = Jobs
    BY DEF LockJob, TakeLock, TypeOK
  <2> QED
    BY <1>1, <2>1, <2>2, <2>3
<1>3. OnePlace(s)'
  BY <1>1, <1>2, NoneAssumption DEF OnePlace, InHand
<1>4. ASSUME NEW j \in Jobs, j # x.id, InHand(s, j)' PROVE InHand(s, j)
  BY <1>1, <1>4 DEF InHand
<1>5. HandExact(s)'
  BY <1>1, <1>2, <1>4 DEF HandExact
<1> QED
  BY <1>3, <1>5

\* The semaphore: the waiting job moves to a slot.
LEMMA AcquireKeepsHand ==
    ASSUME TypeOK, NEW s \in Servers, OnePlace(s), HandExact(s),
           NEW w \in Workers, AcquireWorker(s, w)
    PROVE  OnePlace(s)' /\ HandExact(s)'
<1>1. /\ held'[s].id = None /\ held[s] \in Snapshots /\ held[s].id \in Jobs
      /\ worker[s][w].id = None
      /\ worker'[s][w].id = held[s].id /\ worker'[s][w].attempts = held[s].attempts
      /\ \A v \in Workers : v # w => worker'[s][v] = worker[s][v]
      /\ results' = results /\ attempts' = attempts /\ status' = status
  BY DEF AcquireWorker, TypeOK, NoJob, IdleSlot, Snapshots, rows
<1>2. OnePlace(s)'
  BY <1>1, NoneAssumption DEF OnePlace
<1>3. ASSUME NEW j \in Jobs, InHand(s, j)' PROVE InHand(s, j)
  BY <1>1, <1>3, NoneAssumption DEF InHand
<1>4. HandExact(s)'
  BY <1>1, <1>3, NoneAssumption DEF HandExact
<1> QED
  BY <1>2, <1>4

\* The report: the job of a slot moves to the end of the channel.
LEMMA SendKeepsHand ==
    ASSUME TypeOK, NEW s \in Servers, OnePlace(s), HandExact(s),
           NEW w \in Workers, SendResult(s, w)
    PROVE  OnePlace(s)' /\ HandExact(s)'
<1>0. worker[s][w] \in Slots /\ worker[s][w].phase \in {"succeeded", "failed"}
  BY DEF SendResult, TypeOK
<1> DEFINE j0 == worker[s][w].id
           n == Len(results[s]) + 1
<1>1. /\ j0 \in Jobs /\ Report(worker[s][w]) \in Reports
      /\ Report(worker[s][w]).id = j0
      /\ Report(worker[s][w]).attempts = worker[s][w].attempts + 1
  BY <1>0, SlotFacts, ReportFacts
<1>2. /\ held' = held /\ attempts' = attempts /\ status' = status
      /\ worker'[s][w].id = None
      /\ \A v \in Workers : v # w => worker'[s][v] = worker[s][v]
  BY DEF SendResult, ReleaseSlot, TypeOK, IdleSlot, rows
<1>3. results[s] \in Seq(Reports) /\ results'[s] = Append(results[s], Report(worker[s][w]))
  BY DEF SendResult, TypeOK
<1>4. /\ DOMAIN results'[s] = DOMAIN results[s] \cup {n} /\ n \notin DOMAIN results[s]
      /\ results'[s][n] = Report(worker[s][w])
      /\ \A i \in DOMAIN results[s] : results'[s][i] = results[s][i]
  BY <1>1, <1>3, AppendFacts
<1>5. results'[s][n].id = j0 /\ results'[s][n].attempts = attempts[j0] + 1
  BY <1>1, <1>4 DEF HandExact
<1> HIDE DEF n, j0
<1>6. /\ \A v \in Workers : worker[s][v].id = j0 => v = w
      /\ held[s].id # j0
      /\ \A i \in DOMAIN results[s] : results[s][i].id # j0
  BY <1>1 DEF OnePlace, j0
<1>7. OnePlace(s)'
  BY <1>1, <1>2, <1>4, <1>5, <1>6, NoneAssumption DEF OnePlace
<1>8. ASSUME NEW j \in Jobs, InHand(s, j)' PROVE InHand(s, j)
  BY <1>2, <1>4, <1>5, <1>8, NoneAssumption DEF InHand, j0
<1>9. HandExact(s)'
  BY <1>1, <1>2, <1>4, <1>5, <1>8, NoneAssumption DEF HandExact
<1> QED
  BY <1>7, <1>9

\* Every step keeps the jobs in hand in one place and exact.
LEMMA HandInduction ==
    ASSUME OneServer, TypeOK, TypeOK', OneServerInv, [Next]_vars, NEW s \in Servers
    PROVE  OnePlace(s)' /\ HandExact(s)'
<1>0. OnePlace(s) /\ HandExact(s) /\ BatchExact(s)
  BY DEF OneServerInv
<1>1. CASE PlacesKept(s)
  <2>1. HandKept(s)
    BY <1>1, NothingNewInHand, RowOfHand DEF HandKept
  <2> QED
    BY <1>0, <2>1, KeptHand
<1>2. ASSUME NEW x \in batch[s], LockJob(s, x) PROVE OnePlace(s)' /\ HandExact(s)'
  BY <1>0, <1>2, LockKeepsHand
<1>3. ASSUME NEW w \in Workers, AcquireWorker(s, w) PROVE OnePlace(s)' /\ HandExact(s)'
  BY <1>0, <1>3, AcquireKeepsHand
<1>4. ASSUME NEW w \in Workers, SendResult(s, w) PROVE OnePlace(s)' /\ HandExact(s)'
  BY <1>0, <1>4, SendKeepsHand
<1> QED
  BY <1>1, <1>2, <1>3, <1>4, PlacesChange

\* What applying a result does to the table: nothing if the row is deleted,
\* else one execution is ended.
LEMMA ResultApplied ==
    ASSUME OneServer, TypeOK, OneServerInv, NEW t \in Servers, ProcessResult(t)
    PROVE  \E j \in Jobs :
              /\ InHand(t, j) /\ UNCHANGED due
              /\ \/ status[j] = "removed" /\ UNCHANGED <<status, attempts>>
                 \/ /\ status[j] = "processing"
                    /\ \/ /\ status' = [status EXCEPT ![j] = "succeeded"]
                          /\ attempts' = attempts
                       \/ /\ status' = [status EXCEPT ![j] = IF attempts[j] + 1 >= MaxRetryAttempt
                                                             THEN "dead" ELSE "failed"]
                          /\ attempts' = [attempts EXCEPT ![j] = @ + 1]
<1>0. OnePlace(t) /\ HandExact(t)
  BY DEF OneServerInv
<1>1. PICK res \in Reports :
        /\ res = Head(results[t]) /\ res = results[t][1] /\ 1 \in DOMAIN results[t]
        /\ res.id \in Jobs /\ InHand(t, res.id)
  BY <1>0, AppliedLeavesHand
<1>2. status[res.id] \in {"processing", "removed"} /\ res.attempts = attempts[res.id] + 1
  BY <1>0, <1>1 DEF HandExact
<1>3. MarkSuccess(res.id) \/ MarkFailure(res.id, res.attempts)
  BY <1>1 DEF ProcessResult
<1>4. CASE status[res.id] = "removed"
  <2>1. ~Exists(res.id)
    BY <1>4 DEF Exists
  <2> QED
    BY <1>1, <1>3, <1>4, <2>1 DEF MarkSuccess, MarkFailure
<1>5. CASE status[res.id] = "processing"
  <2>1. Exists(res.id)
    BY <1>5 DEF Exists
  <2>2. CASE MarkSuccess(res.id)
    BY <1>1, <1>5, <2>1, <2>2 DEF MarkSuccess
  <2>3. CASE MarkFailure(res.id, res.attempts)
    <3>1. status' = [status EXCEPT ![res.id] = IF attempts[res.id] + 1 >= MaxRetryAttempt
                                               THEN "dead" ELSE "failed"]
      BY <1>2, <2>1, <2>3 DEF MarkFailure, FailureStatus
    <3> QED
      BY <1>1, <1>5, <2>1, <2>3, <3>1 DEF MarkFailure
  <2> QED
    BY <1>3, <2>2, <2>3
<1> QED
  BY <1>2, <1>4, <1>5

\* A row stays unchanged from the read to the lock.
LEMMA BatchStaysExact ==
    ASSUME OneServer, TypeOK, OneServerInv, [Next]_vars, NEW s \in Servers
    PROVE  BatchExact(s)'
<1>0. BatchExact(s) /\ HandExact(s) /\ MemoryEmpty
  BY DEF OneServerInv
<1>1. CASE FetchDueJobs(s)
  <2>1. PICK page \in SUBSET DueJobs :
          batch' = [batch EXCEPT ![s] = {[id |-> j, attempts |-> attempts[j]] : j \in page}]
    BY <1>1 DEF FetchDueJobs
  <2>2. batch'[s] = {[id |-> j, attempts |-> attempts[j]] : j \in page}
    BY <2>1 DEF TypeOK
  <2>3. status' = status /\ attempts' = attempts /\ due' = due
    BY <1>1 DEF FetchDueJobs, rows
  <2> QED
    BY <2>2, <2>3 DEF BatchExact, DueJobs, Lockable
<1>2. CASE ~FetchDueJobs(s)
  <2>1. batch'[s] \subseteq batch[s]
    BY <1>2, BatchChange
  <2> SUFFICES ASSUME NEW x \in batch'[s]
               PROVE  /\ status'[x.id] = "removed" \/ Lockable(x.id)'
                      /\ attempts'[x.id] = attempts[x.id]
    BY <1>0, <2>1 DEF BatchExact, Lockable
  <2> DEFINE Kept == /\ status'[x.id] = "removed" \/ Lockable(x.id)'
                     /\ attempts'[x.id] = attempts[x.id]
  <2>2. /\ x \in batch[s] /\ x.id \in Jobs
        /\ status[x.id] = "removed" \/ Lockable(x.id)
    BY <1>0, <2>1 DEF BatchExact, TypeOK, Snapshots
  <2>3. ASSUME NEW k \in Jobs, TableStep(k) PROVE Kept
    BY <2>2, <2>3 DEF TableStep, Insert, RemoveByID, BecomeDue, LockAges, Exists, Lockable, TypeOK
  <2>4. ASSUME NEW t \in Servers, Start(t) PROVE FALSE
    BY <1>0, <2>2, <2>4 DEF OneServer, Start, MemoryEmpty
  <2>5. ASSUME UNCHANGED rows PROVE Kept
    BY <2>2, <2>5 DEF rows, Lockable
  <2>6. ASSUME NEW t \in Servers, MarkRetryFailedJobs(t) PROVE Kept
    BY <2>2, <2>6 DEF MarkRetryFailedJobs, Reschedule, Retryable, Lockable, TypeOK
  <2>7. ASSUME NEW t \in Servers, ProcessResult(t) PROVE Kept
    <3>1. t = s
      BY <2>7 DEF OneServer
    <3>2. PICK j \in Jobs :
              /\ InHand(s, j) /\ UNCHANGED due
              /\ \/ status[j] = "removed" /\ UNCHANGED <<status, attempts>>
                 \/ /\ status[j] = "processing"
                    /\ \/ /\ status' = [status EXCEPT ![j] = "succeeded"]
                          /\ attempts' = attempts
                       \/ /\ status' = [status EXCEPT ![j] = IF attempts[j] + 1 >= MaxRetryAttempt
                                                             THEN "dead" ELSE "failed"]
                          /\ attempts' = [attempts EXCEPT ![j] = @ + 1]
      BY <2>7, <3>1, ResultApplied
    <3>3. CASE status[j] = "removed" /\ UNCHANGED <<status, attempts>>
      BY <2>2, <3>2, <3>3 DEF Lockable
    <3>4. CASE status[j] = "processing"
      <4>1. j # x.id
        BY <2>2, <3>4 DEF Lockable
      <4>2. status'[x.id] = status[x.id] /\ attempts'[x.id] = attempts[x.id]
        BY <2>2, <3>2, <4>1 DEF TypeOK
      <4> QED
        BY <2>2, <3>2, <4>2 DEF Lockable
    <3> QED
      BY <3>2, <3>3, <3>4
  <2>8. ASSUME NEW t \in Servers, NEW y \in batch[t], LockJob(t, y) \/ LockJobFails(t, y)
        PROVE  Kept
    <3>1. t = s /\ batch'[s] = batch[s] \ {y}
      BY <2>8 DEF OneServer, LockJob, LockJobFails, TypeOK
    <3>2. x.id # y.id
      BY <1>0, <2>2, <2>8, <3>1 DEF BatchExact
    <3>3. ASSUME TakeLock(t, y.id) PROVE Kept
      BY <2>2, <3>2, <3>3 DEF TakeLock, Lockable, TypeOK
    <3> QED
      BY <2>5, <2>8, <3>3 DEF LockJob, LockJobFails
  <2>9. ASSUME NEW t \in Servers, ServerStep(t) PROVE Kept
    <3>1. \/ UNCHANGED rows
          \/ Start(t) \/ MarkRetryFailedJobs(t) \/ ProcessResult(t)
          \/ \E u \in Servers : OvertakenRetry(t, u)
          \/ \E y \in batch[t] : LockJob(t, y) \/ LockJobFails(t, y)
      BY <2>9 DEF ServerStep, PollStep, WorkerStep, FaultStep, NewContainer, Cancel,
         ProcessorStops, Exit, Crash, FetchDueJobs, LockJobMisses, AcquireWorker,
         ExecuteHandler, HandlerPanics, SendResult, DropResult, RetryLoopEnds
    <3> QED
      BY <3>1, <2>4, <2>5, <2>6, <2>7, <2>8, NotOvertaken
  <2> QED
    BY <2>3, <2>5, <2>9 DEF Next, vars
<1> QED
  BY <1>1, <1>2

\* Every step of the server is a step of JobLifecycle or leaves statuses and
\* attempts alone.
LEMMA LifecycleStep ==
    ASSUME OneServer, TypeOK, RowsInv, OneServerInv, [Next]_vars
    PROVE  [Lifecycle!Next]_(Lifecycle!vars)
<1> DEFINE Goal == Lifecycle!Next \/ UNCHANGED <<status, attempts>>
<1> USE DEF Lifecycle!Move
<1>1. ASSUME NEW j \in Jobs, TableStep(j) PROVE Goal
  <2>1. CASE Insert(j)
    <3>1. Lifecycle!Create(j)
      BY <2>1 DEF Insert, Lifecycle!Create
    <3> QED
      BY <3>1 DEF Lifecycle!Next
  <2>2. CASE RemoveByID(j)
    <3>1. Lifecycle!Remove(j)
      BY <2>2 DEF RemoveByID, Exists, Lifecycle!Remove
    <3> QED
      BY <3>1 DEF Lifecycle!Next
  <2>3. CASE BecomeDue(j) \/ LockAges(j)
    BY <2>3 DEF BecomeDue, LockAges
  <2> QED
    BY <1>1, <2>1, <2>2, <2>3 DEF TableStep
<1>2. ASSUME NEW s \in Servers, Start(s) PROVE Goal
  <2>1. \A j \in Jobs : Stale(j) <=> status[j] = "processing"
    BY DEF Stale, RowsInv, ProcessingIsReleasable
  <2>2. Lifecycle!Requeue
    BY <1>2, <2>1 DEF Start, UnlockStaleJobs, Lifecycle!Requeue
  <2> QED
    BY <2>2 DEF Lifecycle!Next
<1>3. ASSUME NEW s \in Servers, NEW j \in Jobs, Lockable(j), TakeLock(s, j) PROVE Goal
  <2>1. Lifecycle!Begin(j)
    BY <1>3 DEF Lockable, TakeLock, Lifecycle!Begin
  <2> QED
    BY <2>1 DEF Lifecycle!Next
<1>4. ASSUME NEW s \in Servers, MarkRetryFailedJobs(s) PROVE Goal
  <2>1. \A j \in Jobs : Retryable(j) <=> status[j] = "failed"
    BY DEF Retryable, OneServerInv, LivingHaveAttempts
  <2>2. Lifecycle!Retry
    BY <1>4, <2>1 DEF MarkRetryFailedJobs, Reschedule, Lifecycle!Retry
  <2> QED
    BY <2>2 DEF Lifecycle!Next
<1>5. ASSUME NEW s \in Servers, ProcessResult(s) PROVE Goal
  <2>1. PICK j \in Jobs :
              \/ UNCHANGED <<status, attempts>>
              \/ /\ status[j] = "processing"
                 /\ \/ /\ status' = [status EXCEPT ![j] = "succeeded"]
                       /\ attempts' = attempts
                    \/ /\ status' = [status EXCEPT ![j] = IF attempts[j] + 1 >= MaxRetryAttempt
                                                          THEN "dead" ELSE "failed"]
                       /\ attempts' = [attempts EXCEPT ![j] = @ + 1]
    BY <1>5, ResultApplied
  <2>2. CASE status[j] = "processing" /\ status' = [status EXCEPT ![j] = "succeeded"]
             /\ attempts' = attempts
    <3>1. Lifecycle!Succeed(j)
      BY <2>2 DEF Lifecycle!Succeed
    <3> QED
      BY <3>1 DEF Lifecycle!Next
  <2>3. CASE /\ status[j] = "processing"
             /\ status' = [status EXCEPT ![j] = IF attempts[j] + 1 >= MaxRetryAttempt
                                                THEN "dead" ELSE "failed"]
             /\ attempts' = [attempts EXCEPT ![j] = @ + 1]
    <3>1. attempts[j] \in Nat /\ MaxRetryAttempt \in Nat /\ attempts[j] < MaxRetryAttempt
      BY <2>3, SizeAssumption DEF OneServerInv, LivingHaveAttempts, TypeOK
    <3>2. CASE attempts[j] + 1 >= MaxRetryAttempt
      <4>1. attempts[j] + 1 = MaxRetryAttempt
        BY <3>1, <3>2
      <4>2. status' = [status EXCEPT ![j] = "dead"]
        BY <2>3, <3>2
      <4>3. Lifecycle!Die(j)
        BY <2>3, <4>1, <4>2 DEF Lifecycle!Die
      <4> QED
        BY <4>3 DEF Lifecycle!Next
    <3>3. CASE ~(attempts[j] + 1 >= MaxRetryAttempt)
      <4>1. attempts[j] + 1 < MaxRetryAttempt
        BY <3>1, <3>3
      <4>2. status' = [status EXCEPT ![j] = "failed"]
        BY <2>3, <3>3
      <4>3. Lifecycle!Fail(j)
        BY <2>3, <4>1, <4>2 DEF Lifecycle!Fail
      <4> QED
        BY <4>3 DEF Lifecycle!Next
    <3> QED
      BY <3>2, <3>3
  <2> QED
    BY <2>1, <2>2, <2>3
<1>6. ASSUME UNCHANGED rows PROVE Goal
  BY <1>6 DEF rows
<1>7. ASSUME NEW s \in Servers, NEW x \in batch[s], LockJob(s, x) \/ LockJobFails(s, x)
      PROVE  Goal
  <2>1. x.id \in Jobs
    BY <1>7 DEF TypeOK, Snapshots
  <2> QED
    BY <1>3, <1>6, <1>7, <2>1 DEF LockJob, LockJobFails
<1>8. ASSUME NEW s \in Servers, ServerStep(s) PROVE Goal
  <2>1. \/ UNCHANGED rows
        \/ Start(s) \/ MarkRetryFailedJobs(s) \/ ProcessResult(s)
        \/ \E u \in Servers : OvertakenRetry(s, u)
        \/ \E x \in batch[s] : LockJob(s, x) \/ LockJobFails(s, x)
    BY <1>8 DEF ServerStep, PollStep, WorkerStep, FaultStep, NewContainer, Cancel,
       ProcessorStops, Exit, Crash, FetchDueJobs, LockJobMisses, AcquireWorker,
       ExecuteHandler, HandlerPanics, SendResult, DropResult, RetryLoopEnds
  <2> QED
    BY <2>1, <1>2, <1>4, <1>5, <1>6, <1>7, NotOvertaken
<1>9. Goal
  BY <1>1, <1>6, <1>8 DEF Next, vars
<1> QED
  BY <1>9 DEF Lifecycle!vars

\* No step of JobLifecycle leaves a living job without attempts.
LEMMA LivingInduction ==
    ASSUME TypeOK, RowsInv, LivingHaveAttempts, [Lifecycle!Next]_(Lifecycle!vars)
    PROVE  LivingHaveAttempts'
<1> USE DEF LivingHaveAttempts, TypeOK, Lifecycle!Move
<1>1. ASSUME NEW j \in Jobs, Lifecycle!Create(j) PROVE LivingHaveAttempts'
  BY <1>1, SizeAssumption DEF Lifecycle!Create, RowsInv
<1>2. ASSUME NEW j \in Jobs, Lifecycle!Begin(j) \/ Lifecycle!Succeed(j) \/ Lifecycle!Remove(j)
      PROVE  LivingHaveAttempts'
  BY <1>2 DEF Lifecycle!Begin, Lifecycle!Succeed, Lifecycle!Remove
<1>3. ASSUME NEW j \in Jobs, Lifecycle!Fail(j) PROVE LivingHaveAttempts'
  BY <1>3 DEF Lifecycle!Fail
<1>4. ASSUME NEW j \in Jobs, Lifecycle!Die(j) PROVE LivingHaveAttempts'
  BY <1>4 DEF Lifecycle!Die
<1>5. CASE Lifecycle!Retry \/ Lifecycle!Requeue
  BY <1>5 DEF Lifecycle!Retry, Lifecycle!Requeue
<1>6. CASE UNCHANGED <<status, attempts>>
  BY <1>6
<1> QED
  BY <1>1, <1>2, <1>3, <1>4, <1>5, <1>6 DEF Lifecycle!Next, Lifecycle!vars
-----------------------------------------------------------------------------
\* The whole invariant of one server: that of any number of them, and what
\* one server alone keeps true.
SingleInv == IndInv /\ OneServerInv

\* It holds in every reachable state.
LEMMA SingleInvariant == OneServer => (Spec => []SingleInv)
<1> SUFFICES ASSUME OneServer PROVE Spec => []SingleInv
  OBVIOUS
<1>1. Init => OneServerInv
  <2> SUFFICES ASSUME Init PROVE OneServerInv
    OBVIOUS
  <2>1. MemoryEmpty
    BY DEF Init, MemoryEmpty
  <2>2. LivingHaveAttempts
    BY DEF Init, LivingHaveAttempts
  <2>3. ASSUME NEW s \in Servers PROVE OnePlace(s) /\ HandExact(s) /\ BatchExact(s)
    <3>1. /\ held[s].id = None /\ results[s] = <<>> /\ batch[s] = {}
          /\ \A w \in Workers : worker[s][w].id = None
      BY DEF Init, NoJob, IdleSlot
    <3> QED
      BY <3>1, NoneAssumption DEF OnePlace, HandExact, BatchExact, InHand
  <2> QED
    BY <2>1, <2>2, <2>3 DEF OneServerInv
<1>2. TypeOK /\ TypeOK' /\ RowsInv /\ OneServerInv /\ [Next]_vars => OneServerInv'
  <2> SUFFICES ASSUME TypeOK, TypeOK', RowsInv, OneServerInv, [Next]_vars PROVE OneServerInv'
    OBVIOUS
  <2>1. MemoryEmpty'
    BY MemoryInduction DEF OneServerInv
  <2>2. LivingHaveAttempts'
    BY LifecycleStep, LivingInduction DEF OneServerInv
  <2>3. ASSUME NEW s \in Servers PROVE OnePlace(s)' /\ HandExact(s)' /\ BatchExact(s)'
    BY HandInduction, BatchStaysExact
  <2> QED
    BY <2>1, <2>2, <2>3 DEF OneServerInv
<1>3. IndInv => TypeOK /\ RowsInv
  BY DEF IndInv
<1> QED
  BY <1>1, <1>2, <1>3, Safety, PTL DEF Spec, SingleInv

\* A set whose elements are all equal has at most one.
LEMMA AtMostOne ==
    ASSUME NEW S, \A x, y \in S : x = y
    PROVE  (Cardinality(S) = 0 /\ S = {}) \/ Cardinality(S) = 1
<1>1. CASE S = {}
  BY <1>1, FS_EmptySet
<1>2. ASSUME NEW x \in S PROVE Cardinality(S) = 1
  <2>1. S = {x}
    BY <1>2
  <2> QED
    BY <2>1, FS_Singleton
<1> QED
  BY <1>1, <1>2

\* One place each, counted.
LEMMA OnePlaceCounted ==
    ASSUME NEW s \in Servers, OnePlace(s), NEW j \in Jobs
    PROVE  Cardinality({w \in Workers : worker[s][w].id = j})
             + Cardinality({i \in DOMAIN results[s] : results[s][i].id = j})
             + (IF held[s].id = j THEN 1 ELSE 0) <= 1
<1> DEFINE A == {w \in Workers : worker[s][w].id = j}
           B == {i \in DOMAIN results[s] : results[s][i].id = j}
<1>1. /\ \A x, y \in A : x = y
      /\ \A x, y \in B : x = y
      /\ A = {} \/ B = {}
      /\ held[s].id = j => A = {} /\ B = {}
  BY DEF OnePlace
<1> HIDE DEF A, B
<1>2. (Cardinality(A) = 0 /\ A = {}) \/ Cardinality(A) = 1
  BY <1>1, AtMostOne
<1>3. (Cardinality(B) = 0 /\ B = {}) \/ Cardinality(B) = 1
  BY <1>1, AtMostOne
<1>4. Cardinality({}) = 0
  BY FS_EmptySet
<1>5. Cardinality(A) + Cardinality(B) + (IF held[s].id = j THEN 1 ELSE 0) <= 1
  BY <1>1, <1>2, <1>3, <1>4
<1> QED
  BY <1>5 DEF A, B

\* With one server, a job is in the hands of one worker at a time, from the
\* lock until its result is applied, through crashes, restarts, panics and
\* failing statements.
THEOREM ExecutedOnce == OneServer => (Spec => []SingleExecution)
<1> SUFFICES ASSUME OneServer PROVE Spec => []SingleExecution
  OBVIOUS
<1>1. SingleInv => SingleExecution
  <2> SUFFICES ASSUME SingleInv PROVE SingleExecution
    OBVIOUS
  <2>1. \A s \in Servers, j \in Jobs :
           Cardinality({w \in Workers : worker[s][w].id = j})
             + Cardinality({i \in DOMAIN results[s] : results[s][i].id = j})
             + (IF held[s].id = j THEN 1 ELSE 0) <= 1
    BY OnePlaceCounted DEF SingleInv, OneServerInv
  <2> QED
    BY <2>1 DEF SingleExecution, OneServer
<1> QED
  BY <1>1, SingleInvariant, PTL

\* With one server, a job whose attempts are used up is dead, never left
\* failed where no ticker and no poll would look at it again.
THEOREM ExhaustedJobsAreDead == OneServer => (Spec => []ExhaustedIsDead)
<1> SUFFICES ASSUME OneServer PROVE Spec => []ExhaustedIsDead
  OBVIOUS
<1>1. SingleInv => ExhaustedIsDead
  <2> SUFFICES ASSUME SingleInv, NEW j \in Jobs, Exists(j), attempts[j] >= MaxRetryAttempt
               PROVE  status[j] = "dead"
    BY DEF ExhaustedIsDead
  <2>1. attempts[j] \in Nat /\ MaxRetryAttempt \in Nat
    BY SizeAssumption DEF SingleInv, IndInv, TypeOK
  <2>2. status[j] \notin {"queued", "processing", "retrying", "failed", "succeeded"}
    BY <2>1 DEF SingleInv, OneServerInv, LivingHaveAttempts
  <2>3. status[j] \in AllStatuses
    BY DEF SingleInv, IndInv, TypeOK, Exists
  <2> QED
    BY <2>2, <2>3 DEF AllStatuses
<1> QED
  BY <1>1, SingleInvariant, PTL

\* With one server, the table goes through the life JobLifecycle promises and
\* through no other: every failure is counted once, the last one kills, and
\* succeeded and dead are final.
THEOREM LifecycleIsKept == OneServer => (Spec => ImplementsLifecycle)
<1> SUFFICES ASSUME OneServer PROVE Spec => ImplementsLifecycle
  OBVIOUS
<1>1. Init => Lifecycle!Init
  BY DEF Init, Lifecycle!Init
<1>2. SingleInv /\ [Next]_vars => [Lifecycle!Next]_(Lifecycle!vars)
  BY LifecycleStep DEF SingleInv, IndInv
<1> QED
  BY <1>1, <1>2, SingleInvariant, PTL DEF Spec, ImplementsLifecycle, Lifecycle!Spec
=============================================================================
