------------------------ MODULE QueueDeliveryProofs ------------------------
(***************************************************************************)
(* Proofs that QueueSync implements JobDelivery, and that a job which      *)
(* parses is lost by a failure only, for any number of messages and        *)
(* servers and any capacities.                                             *)
(***************************************************************************)
EXTENDS QueueSyncProofs

\* How the parts of a server depend on one another: a process that is off
\* has an empty memory, a message in a hand has a goroutine around it, a
\* stream is read until the context is cancelled, a worker that leaves its
\* loop unasked has found the channel closed and empty, and what does not
\* parse never gets into the batch.
PipeWiring ==
    \A s \in Servers :
        /\ sync[s] = "off" =>
              /\ ~stream[s] /\ ~fwdUp[s] /\ ~cancelled[s] /\ carried[s] = None
              /\ inbox[s] = {} /\ out[s] = {} /\ batch[s] = {}
        /\ carried[s] # None => fwdUp[s]
        /\ stream[s] /\ ~cancelled[s] => fwdUp[s]
        /\ sync[s] \in {"last", "ended"} /\ ~cancelled[s] => ~fwdUp[s] /\ out[s] = {}
        /\ batch[s] \cap Malformed = {}

\* Every step of QueueSync keeps the wiring.
LEMMA WiringInduction == Types /\ PipeWiring /\ [Next]_vars => PipeWiring'
<1> SUFFICES ASSUME Types, PipeWiring, [Next]_vars PROVE PipeWiring'
  OBVIOUS
<1> USE MsgsAssumption DEF Types, PipeWiring, broker, pipe, worker
<1>1. ASSUME NEW m \in Msgs, Publish(m) PROVE PipeWiring'
  BY <1>1 DEF Publish
<1>2. ASSUME NEW s \in Servers, NEW m \in queue, Deliver(s, m) PROVE PipeWiring'
  BY <1>2 DEF Deliver
<1>3. ASSUME NEW s \in Servers, StreamLost(s) PROVE PipeWiring'
  BY <1>3 DEF StreamLost
<1>4. ASSUME NEW s \in Servers, StartSync(s) PROVE PipeWiring'
  BY <1>4 DEF StartSync
<1>5. ASSUME NEW s \in Servers, ConsumeFails(s) PROVE PipeWiring'
  BY <1>5 DEF ConsumeFails
<1>6. ASSUME NEW s \in Servers, Cancel(s) PROVE PipeWiring'
  BY <1>6 DEF Cancel
<1>7. ASSUME NEW s \in Servers, ProcessEnds(s) PROVE PipeWiring'
  BY <1>7 DEF ProcessEnds
<1>8. ASSUME NEW s \in Servers, NEW m \in inbox[s], Take(s, m) PROVE PipeWiring'
  BY <1>8 DEF Take
<1>9. ASSUME NEW s \in Servers, Put(s) PROVE PipeWiring'
  BY <1>9 DEF Put
<1>10. ASSUME NEW s \in Servers, ForwarderEnds(s) PROVE PipeWiring'
  BY <1>10 DEF ForwarderEnds
<1>11. ASSUME NEW s \in Servers, NEW m \in out[s], Receive(s, m) PROVE PipeWiring'
  BY <1>11 DEF Receive
<1>12. ASSUME NEW s \in Servers, Tick(s) \/ LeaveLoop(s) PROVE PipeWiring'
  BY <1>12 DEF Tick, LeaveLoop
<1>13. ASSUME NEW s \in Servers, Flush(s) PROVE PipeWiring'
  BY <1>13 DEF Flush, ResetBatch
<1>14. CASE UNCHANGED vars
  BY <1>14 DEF vars
<1>15. CASE BrokerRestarts
  BY <1>15 DEF BrokerRestarts
<1> QED
  BY <1>1, <1>2, <1>3, <1>4, <1>5, <1>6, <1>7, <1>8, <1>9, <1>10, <1>11, <1>12, <1>13, <1>14, <1>15
  DEF Next, ForwarderStep, SyncStep

\* A statement that succeeds: the steps that write rows.
Written(s) ==
    /\ Flush(s) /\ ~cancelled[s] /\ batch[s] \cap Poison = {}
    /\ BulkInsert(s)

\* Rows are written by a flush that succeeds and by nothing else, and every
\* other step leaves the table as it is.
LEMMA StepKinds ==
    ASSUME [Next]_vars
    PROVE  \/ \E m \in Msgs : Publish(m)
           \/ \E s \in Servers : Written(s)
           \/ sent' = sent /\ stored' = stored
<1> USE DEF broker, pipe, worker
<1>1. ASSUME NEW s \in Servers, Flush(s) PROVE Written(s) \/ (sent' = sent /\ stored' = stored)
  BY <1>1 DEF Flush, Written
<1>2. ASSUME NEW s \in Servers,
             \/ StartSync(s) \/ ConsumeFails(s) \/ Cancel(s) \/ ProcessEnds(s)
             \/ \E m \in queue : Deliver(s, m)
             \/ StreamLost(s)
             \/ ForwarderStep(s)
             \/ \E m \in out[s] : Receive(s, m)
             \/ Tick(s) \/ LeaveLoop(s)
      PROVE  sent' = sent /\ stored' = stored
  BY <1>2 DEF StartSync, ConsumeFails, Cancel, ProcessEnds, Deliver, StreamLost,
              ForwarderStep, Take, Put, ForwarderEnds, Receive, Tick, LeaveLoop
<1>3. CASE UNCHANGED vars
  BY <1>3 DEF vars
<1>4. CASE BrokerRestarts
  BY <1>4 DEF BrokerRestarts
<1> QED
  BY <1>1, <1>2, <1>3, <1>4 DEF Next, SyncStep

\* No step but Publish fills the queue, and no goroutine comes to a message
\* that was not in the queue and that none would have come to before: a
\* process that starts again begins with nothing.
LEMMA NothingReturns ==
    ASSUME Types, PipeWiring, [Next]_vars, ~ \E m \in Msgs : Publish(m)
    PROVE  /\ sent' = sent /\ queue' \subseteq queue
           /\ \A s \in Servers, m \in Msgs :
                 Reachable(s, m)' => Reachable(s, m) \/ m \in queue
<1> DEFINE Goal == /\ sent' = sent /\ queue' \subseteq queue
                   /\ \A s \in Servers, m \in Msgs :
                         Reachable(s, m)' => Reachable(s, m) \/ m \in queue
<1> USE MsgsAssumption DEF Types, PipeWiring, Reachable, broker, pipe, worker
<1>2. ASSUME NEW s \in Servers, NEW m \in queue, Deliver(s, m) PROVE Goal
  BY <1>2 DEF Deliver
<1>3. ASSUME NEW s \in Servers, StreamLost(s) PROVE Goal
  BY <1>3 DEF StreamLost
<1>4. ASSUME NEW s \in Servers, StartSync(s) PROVE Goal
  BY <1>4 DEF StartSync
<1>5. ASSUME NEW s \in Servers, ConsumeFails(s) PROVE Goal
  BY <1>5 DEF ConsumeFails
<1>6. ASSUME NEW s \in Servers, Cancel(s) PROVE Goal
  BY <1>6 DEF Cancel
<1>7. ASSUME NEW s \in Servers, ProcessEnds(s) PROVE Goal
  BY <1>7 DEF ProcessEnds
<1>8. ASSUME NEW s \in Servers, NEW m \in inbox[s], Take(s, m) PROVE Goal
  BY <1>8 DEF Take
<1>9. ASSUME NEW s \in Servers, Put(s) PROVE Goal
  BY <1>9 DEF Put
<1>10. ASSUME NEW s \in Servers, ForwarderEnds(s) PROVE Goal
  BY <1>10 DEF ForwarderEnds
<1>11. ASSUME NEW s \in Servers, NEW m \in out[s], Receive(s, m) PROVE Goal
  BY <1>11 DEF Receive
<1>12. ASSUME NEW s \in Servers, Tick(s) \/ LeaveLoop(s) PROVE Goal
  BY <1>12 DEF Tick, LeaveLoop
<1>13. ASSUME NEW s \in Servers, Flush(s) PROVE Goal
  BY <1>13 DEF Flush, ResetBatch
<1>14. CASE UNCHANGED vars
  BY <1>14 DEF vars
<1>15. CASE BrokerRestarts
  BY <1>15 DEF BrokerRestarts
<1> QED
  BY <1>2, <1>3, <1>4, <1>5, <1>6, <1>7, <1>8, <1>9, <1>10, <1>11, <1>12, <1>13, <1>14, <1>15
  DEF Next, ForwarderStep, SyncStep

\* A message that is lost stays lost: it is not written later, not published
\* again, and no restart brings it back.
LEMMA LossIsFinal ==
    ASSUME Types, PipeWiring, [Next]_vars, NEW m \in Msgs, Lost(m)
    PROVE  Lost(m)'
<1>1. ASSUME NEW k \in Msgs, Publish(k) PROVE Lost(m)'
  BY <1>1 DEF Publish, Lost, Reachable, broker, pipe, worker
<1>2. CASE ~ \E k \in Msgs : Publish(k)
  <2>1. /\ sent' = sent /\ queue' \subseteq queue
        /\ \A s \in Servers : Reachable(s, m)' => Reachable(s, m) \/ m \in queue
    BY <1>2, NothingReturns
  <2>2. stored'[m] = 0
    <3>1. ASSUME NEW s \in Servers, Written(s) PROVE stored'[m] = 0
      <4>1. m \notin batch[s]
        BY <3>1 DEF Lost, Reachable, Written, Flush
      <4> QED
        BY <3>1, <4>1 DEF Lost, Written, BulkInsert
    <3> QED
      BY <1>2, <3>1, StepKinds DEF Lost
  <2> QED
    BY <2>1, <2>2 DEF Lost
<1> QED
  BY <1>1, <1>2

\* The inductive invariant of the refinement.
DeliveryInv ==
    /\ Types /\ WithinBounds /\ BatchHasRoom
    /\ PublishedFirst /\ OneCopy /\ PipeWiring

\* The state of a message in the abstract specification, spelled out.
StateOf(m) ==
    IF m \notin sent THEN "new"
    ELSE IF stored[m] > 0 THEN "stored" ELSE IF Lost(m) THEN "lost" ELSE "pending"

\* The refinement mapping takes a message to its state, before and after a
\* step: the cases of Delivered exclude one another.
LEMMA DeliveredIs ==
    Types /\ PublishedFirst => Delivered = [m \in Msgs |-> StateOf(m)]
<1> SUFFICES ASSUME Types, PublishedFirst, NEW m \in Msgs
             PROVE  Delivered[m] = StateOf(m)
  BY DEF Delivered
<1>1. stored[m] \in Nat /\ (m \notin sent => stored[m] = 0) /\ (Lost(m) => m \in sent /\ stored[m] = 0)
  BY DEF Types, PublishedFirst, Lost
<1> HIDE DEF Lost
<1> QED
  BY <1>1 DEF Delivered, StateOf

\* The same for both ends of a step.
LEMMA DeliveredStep ==
    ASSUME Types, PublishedFirst, Types', PublishedFirst'
    PROVE  /\ Delivered = [k \in Msgs |-> StateOf(k)]
           /\ Delivered' = [k \in Msgs |-> StateOf(k)']
<1>1. (Types /\ PublishedFirst => Delivered = [m \in Msgs |-> StateOf(m)])'
  BY DeliveredIs, PTL
<1> QED
  BY <1>1, DeliveredIs

\* Both specifications mean the same by the size of a batch.
LEMMA SameSize == \A S : Delivery!Cardinality(S) = Cardinality(S)
  BY Zenon DEF Delivery!Cardinality, Cardinality

\* Publish of the pipeline is Publish of the abstract specification.
LEMMA PublishMaps ==
    ASSUME Types, PublishedFirst, Types', PublishedFirst', NEW m \in Msgs, Publish(m)
    PROVE  Delivery!Publish(m)
<1>1. /\ StateOf(m) = "new"
      /\ StateOf(m)' = "pending"
  BY DEF Types, PublishedFirst, StateOf, Publish, Lost
<1>2. ASSUME NEW k \in Msgs, k # m PROVE StateOf(k)' = StateOf(k)
  BY <1>2 DEF Types, Publish, StateOf, Lost, Reachable, broker, pipe, worker
<1>3. Delivered = [k \in Msgs |-> StateOf(k)] /\ Delivered' = [k \in Msgs |-> StateOf(k)']
  BY DeliveredStep
<1> QED
  BY <1>1, <1>2, <1>3 DEF Delivery!Publish

\* A flush that succeeds writes its batch: the jobs in it were pending and
\* are stored, and no other message changes its state.
LEMMA WriteMaps ==
    ASSUME DeliveryInv, DeliveryInv', [Next]_vars, NEW s \in Servers, Written(s)
    PROVE  Delivery!Store(batch[s]) \/ UNCHANGED Delivered
<1> USE DEF DeliveryInv, broker, pipe, worker
<1>1. batch[s] \in SUBSET Msgs /\ batch[s] \subseteq sent
  BY DEF Types, PublishedFirst, InMemory
<1>2. ASSUME NEW m \in batch[s] PROVE StateOf(m) = "pending" /\ StateOf(m)' = "stored"
  <2>1. m \in Msgs /\ m \in sent /\ stored[m] \in Nat /\ m \in sent'
    BY <1>1, <1>2 DEF Types, Written, Flush
  <2>2. stored[m] = 0 /\ ~Lost(m)
    <3>1. InMemory(s, m) /\ Reachable(s, m)
      BY <1>2 DEF InMemory, Reachable, Written, Flush
    <3>2. stored[m] <= 1 /\ stored[m] # 1
      BY <2>1, <3>1 DEF OneCopy
    <3> QED
      BY <2>1, <3>1, <3>2 DEF Lost
  <2>3. stored'[m] = 1
    BY <1>2, <2>1, <2>2 DEF Written, BulkInsert
  <2> QED
    BY <2>1, <2>2, <2>3 DEF StateOf
<1>3. ASSUME NEW m \in Msgs \ batch[s] PROVE StateOf(m)' = StateOf(m)
  <2>1. sent' = sent /\ stored'[m] = stored[m] /\ queue' = queue
    BY <1>3 DEF Written, Flush, BulkInsert
  <2>2. ASSUME NEW r \in Servers, Reachable(r, m) PROVE Reachable(r, m)'
    BY <1>3, <2>2 DEF Types, PipeWiring, Reachable, Written, Flush, ResetBatch
  <2>3. Lost(m)' => Lost(m)
    BY <2>1, <2>2 DEF Lost
  <2>4. Lost(m) => Lost(m)'
    BY <1>3, LossIsFinal
  <2> QED
    BY <2>1, <2>3, <2>4 DEF StateOf
<1>4. Delivered = [k \in Msgs |-> StateOf(k)] /\ Delivered' = [k \in Msgs |-> StateOf(k)']
  BY DeliveredStep
<1>5. CASE batch[s] = {}
  BY <1>3, <1>4, <1>5
<1>6. CASE batch[s] # {}
  <2>1. Cardinality(batch[s]) <= BatchMax /\ batch[s] \cap (Malformed \cup Poison) = {}
    BY DEF WithinBounds, PipeWiring, Written
  <2>2. \A m \in batch[s] : Delivered[m] = "pending"
    BY <1>1, <1>2, <1>4
  <2>3. Delivered' = [k \in Msgs |-> IF k \in batch[s] THEN "stored" ELSE Delivered[k]]
    BY <1>2, <1>3, <1>4
  <2> QED
    BY <1>6, <2>1, <2>2, <2>3, SameSize DEF Delivery!Store, Delivery!Move
<1> QED
  BY <1>5, <1>6

\* A step that neither publishes nor writes loses some messages, or none.
LEMMA QuietStepMaps ==
    ASSUME DeliveryInv, DeliveryInv', [Next]_vars, sent' = sent, stored' = stored
    PROVE  (\E S \in SUBSET Msgs : Delivery!Lose(S)) \/ UNCHANGED Delivered
<1> USE DEF DeliveryInv
<1> DEFINE S == {m \in Msgs : StateOf(m) = "pending" /\ Lost(m)'}
<1>1. Delivered = [k \in Msgs |-> StateOf(k)] /\ Delivered' = [k \in Msgs |-> StateOf(k)']
  BY DeliveredStep
<1>2. ASSUME NEW m \in S PROVE StateOf(m)' = "lost"
  BY <1>2 DEF StateOf, Types
<1>3. ASSUME NEW m \in Msgs \ S PROVE StateOf(m)' = StateOf(m)
  <2>1. Lost(m) => Lost(m)'
    BY <1>3, LossIsFinal
  <2> QED
    BY <1>3, <2>1 DEF StateOf
<1>4. CASE S = {}
  BY <1>1, <1>3, <1>4
<1>5. CASE S # {}
  <2>1. \A m \in S : Delivered[m] = "pending"
    BY <1>1
  <2>2. Delivered' = [k \in Msgs |-> IF k \in S THEN "lost" ELSE Delivered[k]]
    BY <1>1, <1>2, <1>3
  <2> QED
    BY <1>5, <2>1, <2>2 DEF Delivery!Lose, Delivery!Move
<1> QED
  BY <1>4, <1>5

\* It holds in every reachable state.
LEMMA DeliveryInvariant == Spec => []DeliveryInv
<1>1. Init => DeliveryInv
  BY EmptySize, SizeAssumption, BoundAssumption, MsgsAssumption
  DEF Init, DeliveryInv, Types, WithinBounds, BatchHasRoom, PublishedFirst, OneCopy,
      InMemory, PipeWiring
<1>2. DeliveryInv /\ [Next]_vars => DeliveryInv'
  BY TypesInduction, BoundsInduction, CopyInduction, WiringInduction DEF DeliveryInv
<1> QED
  BY <1>1, <1>2, PTL DEF Spec

\* Queue mode keeps the promise of JobDelivery, under a broker that restarts and on
\* any number of servers that crash, are cancelled, lose their connection or fail
\* to insert: a published
\* job is written once or lost for good, a batch is written as a whole and
\* within its bound, and a message the table refuses or that does not parse
\* never becomes a row.
THEOREM QueueModeDelivers == Spec => ImplementsDelivery
<1>1. Init => Delivery!Init
  BY DEF Init, Delivery!Init, Delivered, Lost
<1>2. DeliveryInv /\ DeliveryInv' /\ [Next]_vars => [Delivery!Next]_Delivered
  <2> SUFFICES ASSUME DeliveryInv, DeliveryInv', [Next]_vars PROVE [Delivery!Next]_Delivered
    OBVIOUS
  <2> USE DEF DeliveryInv
  <2>1. ASSUME NEW m \in Msgs, Publish(m) PROVE Delivery!Next
    BY <2>1, PublishMaps DEF Delivery!Next
  <2>2. ASSUME NEW s \in Servers, Written(s) PROVE [Delivery!Next]_Delivered
    <3>1. batch[s] \in SUBSET Msgs
      BY DEF Types
    <3>2. Delivery!Store(batch[s]) \/ UNCHANGED Delivered
      BY <2>2, WriteMaps
    <3> QED
      BY <3>1, <3>2 DEF Delivery!Next
  <2>3. ASSUME sent' = sent, stored' = stored PROVE [Delivery!Next]_Delivered
    BY <2>3, QuietStepMaps DEF Delivery!Next
  <2> QED
    BY <2>1, <2>2, <2>3, StepKinds
<1> QED
  BY <1>1, <1>2, DeliveryInvariant, PTL DEF Spec, ImplementsDelivery, Delivery!Spec

\* What LossNeedsFailure allows a step to do to message m.
LossAllowed(m) ==
    (~Lost(m) /\ Lost(m)')
    => \/ faults' # faults
       \/ \E s \in Servers : cancelled[s] \/ (sync[s] # "off" /\ sync'[s] = "off")
       \/ \E s \in Servers : m \in batch[s] /\ batch[s] \cap Poison # {}

\* Every step hands a job that parses on, unless something fails.
LEMMA LossStep ==
    ASSUME DeliveryInv, [Next]_vars, NEW m \in Msgs \ Malformed
    PROVE  LossAllowed(m)
<1> SUFFICES ASSUME ~Lost(m), Lost(m)', faults' = faults,
                    \A s \in Servers : ~cancelled[s] /\ (sync'[s] = "off" => sync[s] = "off"),
                    \A s \in Servers : m \in batch[s] => batch[s] \cap Poison = {}
             PROVE  FALSE
  BY DEF LossAllowed
<1> USE MsgsAssumption, BoundAssumption
    DEF DeliveryInv, Types, PipeWiring, Reachable, Lost, broker, pipe, worker
<1>1. ASSUME NEW k \in Msgs, Publish(k) PROVE FALSE
  BY <1>1 DEF Publish
<1>2. ASSUME NEW s \in Servers, NEW k \in queue, Deliver(s, k) PROVE FALSE
  BY <1>2 DEF Deliver
<1>3. ASSUME NEW s \in Servers, StreamLost(s) \/ ConsumeFails(s) PROVE FALSE
  BY <1>3 DEF StreamLost, ConsumeFails, Fault
<1>4. ASSUME NEW s \in Servers, StartSync(s) PROVE FALSE
  BY <1>4 DEF StartSync
<1>6. ASSUME NEW s \in Servers, Cancel(s) PROVE FALSE
  BY <1>6 DEF Cancel
<1>7. ASSUME NEW s \in Servers, ProcessEnds(s) PROVE FALSE
  BY <1>7 DEF ProcessEnds
<1>8. ASSUME NEW s \in Servers, NEW k \in inbox[s], Take(s, k) PROVE FALSE
  BY <1>8 DEF Take
<1>9. ASSUME NEW s \in Servers, Put(s) PROVE FALSE
  BY <1>9 DEF Put
<1>10. ASSUME NEW s \in Servers, ForwarderEnds(s) PROVE FALSE
  BY <1>10 DEF ForwarderEnds
<1>11. ASSUME NEW s \in Servers, NEW k \in out[s], Receive(s, k) PROVE FALSE
  BY <1>11 DEF Receive
<1>12. ASSUME NEW s \in Servers, Tick(s) \/ LeaveLoop(s) PROVE FALSE
  BY <1>12 DEF Tick, LeaveLoop
<1>13. ASSUME NEW s \in Servers, Flush(s) PROVE FALSE
  <2>1. m \notin batch[s]
    <3>1. CASE BulkInsert(s)
      BY <1>13, <3>1 DEF BulkInsert
    <3>2. CASE ~BulkInsert(s)
      BY <1>13, <3>2 DEF Flush, Fault
    <3> QED
      BY <3>1, <3>2
  <2>2. sent' = sent /\ queue' = queue /\ stored'[m] = stored[m]
    BY <1>13, <2>1 DEF Flush, BulkInsert
  <2>3. ASSUME NEW r \in Servers, Reachable(r, m) PROVE Reachable(r, m)'
    BY <1>13, <2>1, <2>3 DEF Flush, ResetBatch
  <2> HIDE DEF Reachable
  <2> QED
    BY <2>2, <2>3
<1>14. CASE UNCHANGED vars
  BY <1>14 DEF vars
<1>15. CASE BrokerRestarts
  BY <1>15 DEF BrokerRestarts, Fault
<1> HIDE DEF DeliveryInv, Types, PipeWiring, Reachable, Lost
<1> QED
  BY <1>1, <1>2, <1>3, <1>4, <1>6, <1>7, <1>8, <1>9, <1>10, <1>11, <1>12, <1>13, <1>14, <1>15
  DEF Next, ForwarderStep, SyncStep

\* While no server is cancelled or ends and nothing fails, no step of the
\* pipeline loses a job that parses, except together with one the table
\* refuses.
THEOREM LossIsExplained == Spec => LossNeedsFailure
<1>1. DeliveryInv /\ [Next]_vars
      => [\A m \in Msgs \ Malformed :
             (~Lost(m) /\ Lost(m)')
             => \/ faults' # faults
                \/ \E s \in Servers : cancelled[s] \/ (sync[s] # "off" /\ sync'[s] = "off")
                \/ \E s \in Servers : m \in batch[s] /\ batch[s] \cap Poison # {}]_vars
  BY LossStep DEF LossAllowed
<1> QED
  BY <1>1, DeliveryInvariant, PTL DEF Spec, LossNeedsFailure
=============================================================================
