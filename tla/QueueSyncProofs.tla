--------------------------- MODULE QueueSyncProofs ---------------------------
(***************************************************************************)
(* Proofs about QueueSync, for any number of messages and servers and any  *)
(* capacities: the bounds of the channel and of the batch, and that a call *)
(* of Enqueue never becomes two rows.                                      *)
(***************************************************************************)
EXTENDS QueueSync, FiniteSetTheorems, TLAPS

\* Why the batch stays within its bound: whenever the worker waits for a
\* message there is room for one more, and a worker that does not run has an
\* empty batch.
BatchHasRoom ==
    \A s \in Servers :
        /\ sync[s] = "select" => Cardinality(batch[s]) < BatchMax
        /\ sync[s] \in {"off", "ended"} => batch[s] = {}

\* The empty set has no element.
LEMMA EmptySize == Cardinality({}) = 0
  BY FS_EmptySet

\* Sets of messages have a size; one more message adds at most one to it, and
\* one less does not make it larger.
LEMMA Sizes ==
    \A A \in SUBSET Msgs, m \in Msgs :
        /\ Cardinality(A) \in Nat
        /\ Cardinality(A \cup {m}) <= Cardinality(A) + 1
        /\ Cardinality(A \ {m}) <= Cardinality(A)
<1> SUFFICES ASSUME NEW A \in SUBSET Msgs, NEW m \in Msgs
             PROVE  /\ Cardinality(A) \in Nat
                    /\ Cardinality(A \cup {m}) <= Cardinality(A) + 1
                    /\ Cardinality(A \ {m}) <= Cardinality(A)
  OBVIOUS
<1>1. IsFiniteSet(A)
  BY FS_Subset, MsgsAssumption
<1>2. Cardinality(A) \in Nat
  BY <1>1, FS_CardinalityType
<1>3. Cardinality(A \cup {m}) = IF m \in A THEN Cardinality(A) ELSE Cardinality(A) + 1
  BY <1>1, FS_AddElement
<1>4. Cardinality(A \ {m}) = IF m \in A THEN Cardinality(A) - 1 ELSE Cardinality(A)
  BY <1>1, FS_RemoveElement
<1> QED
  BY <1>2, <1>3, <1>4

\* Every step of QueueSync keeps the types.
LEMMA TypesInduction == Types /\ [Next]_vars => Types'
<1> SUFFICES ASSUME Types, [Next]_vars PROVE Types'
  OBVIOUS
<1> USE BoundAssumption, MsgsAssumption DEF Types, broker, pipe, worker
<1>1. ASSUME NEW m \in Msgs, Publish(m) PROVE Types'
  BY <1>1 DEF Publish
<1>2. ASSUME NEW s \in Servers, NEW m \in queue, Deliver(s, m) PROVE Types'
  BY <1>2 DEF Deliver
<1>3. ASSUME NEW s \in Servers, StreamLost(s) PROVE Types'
  BY <1>3 DEF StreamLost, Fault
<1>4. ASSUME NEW s \in Servers, StartSync(s) PROVE Types'
  BY <1>4 DEF StartSync
<1>5. ASSUME NEW s \in Servers, ConsumeFails(s) PROVE Types'
  BY <1>5 DEF ConsumeFails, Fault
<1>6. ASSUME NEW s \in Servers, Cancel(s) PROVE Types'
  BY <1>6 DEF Cancel
<1>7. ASSUME NEW s \in Servers, ProcessEnds(s) PROVE Types'
  BY <1>7 DEF ProcessEnds
<1>8. ASSUME NEW s \in Servers, NEW m \in inbox[s], Take(s, m) PROVE Types'
  BY <1>8 DEF Take
<1>9. ASSUME NEW s \in Servers, Put(s) PROVE Types'
  BY <1>9 DEF Put
<1>10. ASSUME NEW s \in Servers, ForwarderEnds(s) PROVE Types'
  BY <1>10 DEF ForwarderEnds
<1>11. ASSUME NEW s \in Servers, NEW m \in out[s], Receive(s, m) PROVE Types'
  BY <1>11 DEF Receive
<1>12. ASSUME NEW s \in Servers, Tick(s) \/ LeaveLoop(s) PROVE Types'
  BY <1>12 DEF Tick, LeaveLoop
<1>13. ASSUME NEW s \in Servers, Flush(s) PROVE Types'
  <2>1. stored' \in [Msgs -> Nat]
    BY <1>13 DEF Flush, BulkInsert
  <2>2. faults' \in 0..MaxFaults
    BY <1>13 DEF Flush, Fault
  <2> QED
    BY <1>13, <2>1, <2>2 DEF Flush, ResetBatch
<1>14. CASE UNCHANGED vars
  BY <1>14 DEF vars
<1>15. CASE BrokerRestarts
  BY <1>15 DEF BrokerRestarts, Fault
<1> QED
  BY <1>1, <1>2, <1>3, <1>4, <1>5, <1>6, <1>7, <1>8, <1>9, <1>10, <1>11, <1>12, <1>13, <1>14, <1>15
  DEF Next, ForwarderStep, SyncStep

\* What a step can do to the channel and the batch of a server.
LEMMA MemoryStep ==
    ASSUME Types, [Next]_vars, NEW r \in Servers
    PROVE  /\ \/ out'[r] = out[r]
              \/ out'[r] = {}
              \/ \E m \in Msgs : out'[r] = out[r] \ {m}
              \/ HasRoom(r) /\ \E m \in Msgs : out'[r] = out[r] \cup {m}
           /\ \/ batch'[r] = batch[r] /\ sync'[r] = sync[r]
              \/ batch'[r] = batch[r] /\ sync[r] = "off" /\ sync'[r] \in {"select", "ended"}
              \/ batch'[r] = batch[r] /\ sync[r] = "select" /\ sync'[r] \in {"flush", "last"}
              \/ batch'[r] = {}
              \/ /\ sync[r] = "select"
                 /\ \E m \in Msgs :
                       /\ batch'[r] = batch[r] \cup {m}
                       /\ sync'[r] = IF Cardinality(batch[r] \cup {m}) >= BatchMax
                                       THEN "flush" ELSE "select"
<1> DEFINE Goal == /\ \/ out'[r] = out[r]
                      \/ out'[r] = {}
                      \/ \E m \in Msgs : out'[r] = out[r] \ {m}
                      \/ HasRoom(r) /\ \E m \in Msgs : out'[r] = out[r] \cup {m}
                   /\ \/ batch'[r] = batch[r] /\ sync'[r] = sync[r]
                      \/ batch'[r] = batch[r] /\ sync[r] = "off" /\ sync'[r] \in {"select", "ended"}
                      \/ batch'[r] = batch[r] /\ sync[r] = "select" /\ sync'[r] \in {"flush", "last"}
                      \/ batch'[r] = {}
                      \/ /\ sync[r] = "select"
                         /\ \E m \in Msgs :
                               /\ batch'[r] = batch[r] \cup {m}
                               /\ sync'[r] = IF Cardinality(batch[r] \cup {m}) >= BatchMax
                                               THEN "flush" ELSE "select"
<1> USE DEF Types, broker, pipe, worker
<1>1. ASSUME NEW m \in Msgs, Publish(m) PROVE Goal
  BY <1>1 DEF Publish
<1>2. ASSUME NEW s \in Servers, NEW m \in queue, Deliver(s, m) PROVE Goal
  BY <1>2 DEF Deliver
<1>3. ASSUME NEW s \in Servers, StreamLost(s) PROVE Goal
  BY <1>3 DEF StreamLost
<1>4. ASSUME NEW s \in Servers, StartSync(s) \/ ConsumeFails(s) PROVE Goal
  BY <1>4 DEF StartSync, ConsumeFails
<1>5. ASSUME NEW s \in Servers, Cancel(s) PROVE Goal
  BY <1>5 DEF Cancel
<1>6. ASSUME NEW s \in Servers, ProcessEnds(s) PROVE Goal
  BY <1>6 DEF ProcessEnds
<1>7. ASSUME NEW s \in Servers, NEW m \in inbox[s], Take(s, m) PROVE Goal
  BY <1>7 DEF Take
<1>8. ASSUME NEW s \in Servers, Put(s) PROVE Goal
  BY <1>8 DEF Put
<1>9. ASSUME NEW s \in Servers, ForwarderEnds(s) PROVE Goal
  BY <1>9 DEF ForwarderEnds
<1>10. ASSUME NEW s \in Servers, NEW m \in out[s], Receive(s, m) PROVE Goal
  BY <1>10 DEF Receive
<1>11. ASSUME NEW s \in Servers, Tick(s) \/ LeaveLoop(s) PROVE Goal
  BY <1>11 DEF Tick, LeaveLoop
<1>12. ASSUME NEW s \in Servers, Flush(s) PROVE Goal
  BY <1>12 DEF Flush, ResetBatch
<1>13. CASE UNCHANGED vars
  BY <1>13 DEF vars
<1>14. CASE BrokerRestarts
  BY <1>14 DEF BrokerRestarts
<1> QED
  BY <1>1, <1>2, <1>3, <1>4, <1>5, <1>6, <1>7, <1>8, <1>9, <1>10, <1>11, <1>12, <1>13, <1>14
  DEF Next, ForwarderStep, SyncStep

\* Every step of QueueSync keeps the bounds.
LEMMA BoundsInduction ==
    Types /\ WithinBounds /\ BatchHasRoom /\ [Next]_vars => WithinBounds' /\ BatchHasRoom'
<1> SUFFICES ASSUME Types, WithinBounds, BatchHasRoom, [Next]_vars, NEW r \in Servers
             PROVE  /\ Cardinality(out'[r]) <= OutCap
                    /\ Cardinality(batch'[r]) <= BatchMax
                    /\ sync'[r] = "select" => Cardinality(batch'[r]) < BatchMax
                    /\ sync'[r] \in {"off", "ended"} => batch'[r] = {}
  BY DEF WithinBounds, BatchHasRoom
<1>1. /\ out[r] \in SUBSET Msgs /\ Cardinality(out[r]) <= OutCap
      /\ batch[r] \in SUBSET Msgs /\ Cardinality(batch[r]) <= BatchMax
      /\ sync[r] = "select" => Cardinality(batch[r]) < BatchMax
      /\ sync[r] \in {"off", "ended"} => batch[r] = {}
  BY DEF Types, WithinBounds, BatchHasRoom
<1>2. Cardinality(out'[r]) <= OutCap
  <2>1. CASE out'[r] = out[r] \/ out'[r] = {}
    BY <1>1, <2>1, EmptySize, SizeAssumption
  <2>2. ASSUME NEW m \in Msgs, out'[r] = out[r] \ {m} PROVE Cardinality(out'[r]) <= OutCap
    <3>1. out'[r] \in SUBSET Msgs
      BY <1>1, <2>2
    <3>2. /\ Cardinality(out'[r]) \in Nat /\ Cardinality(out[r]) \in Nat
          /\ Cardinality(out'[r]) <= Cardinality(out[r])
      BY <1>1, <2>2, <3>1, Sizes
    <3> QED
      BY <1>1, <3>2, SizeAssumption
  <2>3. ASSUME NEW m \in Msgs, HasRoom(r), out'[r] = out[r] \cup {m}
        PROVE  Cardinality(out'[r]) <= OutCap
    <3>1. out'[r] \in SUBSET Msgs
      BY <1>1, <2>3
    <3>2. /\ Cardinality(out'[r]) \in Nat /\ Cardinality(out[r]) \in Nat
          /\ Cardinality(out'[r]) <= Cardinality(out[r]) + 1
      BY <1>1, <2>3, <3>1, Sizes
    <3> QED
      BY <2>3, <3>2, SizeAssumption DEF HasRoom
  <2> QED
    BY <2>1, <2>2, <2>3, MemoryStep
<1>3. /\ Cardinality(batch'[r]) <= BatchMax
      /\ sync'[r] = "select" => Cardinality(batch'[r]) < BatchMax
      /\ sync'[r] \in {"off", "ended"} => batch'[r] = {}
  <2>1. CASE batch'[r] = batch[r] /\ sync'[r] = sync[r]
    BY <1>1, <2>1
  <2>2. CASE batch'[r] = {}
    BY <2>2, EmptySize, SizeAssumption
  <2>3. CASE batch'[r] = batch[r] /\ sync[r] = "off" /\ sync'[r] \in {"select", "ended"}
    BY <1>1, <2>2, <2>3
  <2>4. CASE batch'[r] = batch[r] /\ sync[r] = "select" /\ sync'[r] \in {"flush", "last"}
    BY <1>1, <2>4
  <2>5. ASSUME NEW m \in Msgs, sync[r] = "select", batch'[r] = batch[r] \cup {m},
               sync'[r] = IF Cardinality(batch[r] \cup {m}) >= BatchMax
                          THEN "flush" ELSE "select"
        PROVE  /\ Cardinality(batch'[r]) <= BatchMax
               /\ sync'[r] = "select" => Cardinality(batch'[r]) < BatchMax
               /\ sync'[r] \in {"off", "ended"} => batch'[r] = {}
    <3>1. /\ Cardinality(batch[r] \cup {m}) \in Nat /\ Cardinality(batch[r]) \in Nat
          /\ Cardinality(batch[r] \cup {m}) <= Cardinality(batch[r]) + 1
      BY <1>1, Sizes
    <3> QED
      BY <1>1, <2>5, <3>1, SizeAssumption
  <2> QED
    BY <2>1, <2>2, <2>3, <2>4, <2>5, MemoryStep
<1> QED
  BY <1>2, <1>3

\* The channel never holds more than OutCap messages and jobsBatch never more
\* than BatchMax jobs, whatever the order of deliveries, ticks and flushes.
THEOREM BoundsHold == Spec => []TypeOK
<1>1. Init => Types /\ WithinBounds /\ BatchHasRoom
  BY EmptySize, SizeAssumption, BoundAssumption, MsgsAssumption
  DEF Init, Types, WithinBounds, BatchHasRoom
<1> QED
  BY <1>1, TypesInduction, BoundsInduction, PTL DEF Spec, TypeOK

\* What is stored or in memory has been published: a new message has no copy
\* anywhere.
PublishedFirst ==
    \A m \in Msgs \ sent :
        /\ stored[m] = 0
        /\ \A s \in Servers : ~InMemory(s, m)

\* A message that is published now is new, and no other message moves.
LEMMA CopyInduction ==
    Types /\ PublishedFirst /\ OneCopy /\ [Next]_vars => PublishedFirst' /\ OneCopy'
<1> SUFFICES ASSUME Types, PublishedFirst, OneCopy, [Next]_vars
             PROVE  PublishedFirst' /\ OneCopy'
  OBVIOUS
<1> USE MsgsAssumption DEF Types, PublishedFirst, OneCopy, InMemory, broker, pipe, worker
<1>1. ASSUME NEW m \in Msgs, Publish(m) PROVE PublishedFirst' /\ OneCopy'
  BY <1>1 DEF Publish
<1>2. ASSUME NEW s \in Servers, NEW m \in queue, Deliver(s, m) PROVE PublishedFirst' /\ OneCopy'
  BY <1>2 DEF Deliver
<1>3. ASSUME NEW s \in Servers, StreamLost(s) PROVE PublishedFirst' /\ OneCopy'
  BY <1>3 DEF StreamLost
<1>4. ASSUME NEW s \in Servers, StartSync(s) \/ ConsumeFails(s) \/ Cancel(s)
      PROVE  PublishedFirst' /\ OneCopy'
  BY <1>4 DEF StartSync, ConsumeFails, Cancel
<1>5. ASSUME NEW s \in Servers, ProcessEnds(s) PROVE PublishedFirst' /\ OneCopy'
  BY <1>5 DEF ProcessEnds
<1>6. ASSUME NEW s \in Servers, NEW m \in inbox[s], Take(s, m) PROVE PublishedFirst' /\ OneCopy'
  BY <1>6 DEF Take
<1>7. ASSUME NEW s \in Servers, Put(s) PROVE PublishedFirst' /\ OneCopy'
  BY <1>7 DEF Put
<1>8. ASSUME NEW s \in Servers, ForwarderEnds(s) PROVE PublishedFirst' /\ OneCopy'
  BY <1>8 DEF ForwarderEnds
<1>9. ASSUME NEW s \in Servers, NEW m \in out[s], Receive(s, m) PROVE PublishedFirst' /\ OneCopy'
  BY <1>9 DEF Receive
<1>10. ASSUME NEW s \in Servers, Tick(s) \/ LeaveLoop(s) PROVE PublishedFirst' /\ OneCopy'
  BY <1>10 DEF Tick, LeaveLoop
<1>11. ASSUME NEW s \in Servers, Flush(s) PROVE PublishedFirst' /\ OneCopy'
  <2>1. CASE UNCHANGED stored
    BY <1>11, <2>1 DEF Flush, ResetBatch
  <2>2. CASE BulkInsert(s)
    BY <1>11, <2>2 DEF Flush, ResetBatch, BulkInsert
  <2> QED
    BY <1>11, <2>1, <2>2 DEF Flush
<1>12. CASE UNCHANGED vars
  BY <1>12 DEF vars
<1>13. CASE BrokerRestarts
  BY <1>13 DEF BrokerRestarts
<1> QED
  BY <1>1, <1>2, <1>3, <1>4, <1>5, <1>6, <1>7, <1>8, <1>9, <1>10, <1>11, <1>12, <1>13
  DEF Next, ForwarderStep, SyncStep

\* A call of Enqueue in queue mode never becomes two rows of enqueued_jobs,
\* on any number of servers that crash, are cancelled, lose their connection
\* or fail to insert, under a broker that restarts.
THEOREM AtMostOneRow == Spec => []OneCopy
<1>1. Init => Types /\ PublishedFirst /\ OneCopy
  BY BoundAssumption, MsgsAssumption DEF Init, Types, PublishedFirst, OneCopy, InMemory
<1> QED
  BY <1>1, TypesInduction, CopyInduction, PTL DEF Spec
=============================================================================
