----------------------------- MODULE QueueSync -----------------------------
(***************************************************************************)
(* Queue mode of GoFire: Enqueue publishes a job to RabbitMQ instead of    *)
(* inserting a row, and on every server a sync worker collects the         *)
(* messages into batches and inserts a batch with one statement.           *)
(*                                                                         *)
(* A message passes through the queue of the broker, the deliveries held   *)
(* by the client library, the hand of the forwarding goroutine of Consume, *)
(* its buffered channel, and the slice jobsBatch.  Deliveries are          *)
(* acknowledged when they are sent, so from the second place on a message  *)
(* lives in memory only.  Every call of Enqueue is a message of its own,   *)
(* and nothing depends on the order of messages: each place is a set.      *)
(***************************************************************************)
EXTENDS Integers, FiniteSets

CONSTANTS
    Msgs,        \* calls of Enqueue, and whatever else is put into the queue
    Malformed,   \* messages that do not parse as a job
    Poison,      \* jobs the table refuses, such as one with a name that is too long
    Servers,     \* processes that called AddServer with UseQueueWriter
    OutCap,      \* capacity of the channel Consume returns
    BatchMax,    \* batchSize of the sync worker
    None,        \* no message
    MaxStarts,   \* bound: how often a process is started, all together
    MaxFaults    \* bound: how often the database or the broker fails

ASSUME MsgsAssumption ==
    /\ Malformed \subseteq Msgs /\ Poison \subseteq Msgs /\ None \notin Msgs
    /\ IsFiniteSet(Msgs)
ASSUME SizeAssumption == OutCap \in Nat \ {0} /\ BatchMax \in Nat \ {0}
ASSUME BoundAssumption == MaxStarts \in Nat /\ MaxFaults \in Nat

VARIABLES
    sent,       \* messages that were published
    queue,      \* messages in the queue of the broker
    stored,     \* how many rows of enqueued_jobs a message has become
    \* The memory of each server.
    stream,     \* the broker delivers to this process
    inbox,      \* deliveries in the client library
    fwdUp,      \* the forwarding goroutine runs; its channel is open
    carried,    \* the message in its hand
    out,        \* its channel
    batch,      \* jobsBatch
    sync,       \* the sync worker: "off", in its "select", in "flush", in the
                \* "last" flush before it returns, or "ended"
    cancelled,  \* the context is cancelled
    \* Bounds.
    starts, faults

broker == <<sent, queue>>
pipe == <<stream, inbox, fwdUp, carried, out>>
worker == <<batch, sync, cancelled>>
vars == <<broker, stored, pipe, worker, starts, faults>>

Init ==
    /\ sent = {}
    /\ queue = {}
    /\ stored = [m \in Msgs |-> 0]
    /\ stream = [s \in Servers |-> FALSE]
    /\ inbox = [s \in Servers |-> {}]
    /\ fwdUp = [s \in Servers |-> FALSE]
    /\ carried = [s \in Servers |-> None]
    /\ out = [s \in Servers |-> {}]
    /\ batch = [s \in Servers |-> {}]
    /\ sync = [s \in Servers |-> "off"]
    /\ cancelled = [s \in Servers |-> FALSE]
    /\ starts = 0
    /\ faults = 0

\* One more call to the database or the broker fails in this step.
Fault == faults < MaxFaults /\ faults' = faults + 1
-----------------------------------------------------------------------------
(* The client and the broker.                                              *)

\* Enqueue in queue mode: the caller has no id, and no way to learn what
\* becomes of the job.  A Publish that fails is reported and sends nothing; one
\* that does not fail waits for no confirmation.
Publish(m) ==
    /\ m \notin sent
    /\ sent' = sent \cup {m}
    /\ queue' = queue \cup {m}
    /\ UNCHANGED <<stored, pipe, worker, starts, faults>>

\* The broker sends a message to a consumer and forgets it (autoAck).  The
\* consumer is never cancelled, so this goes on when no one reads any more.
Deliver(s, m) ==
    /\ stream[s] /\ m \in queue
    /\ queue' = queue \ {m}
    /\ inbox' = [inbox EXCEPT ![s] = @ \cup {m}]
    /\ UNCHANGED <<sent, stored, stream, fwdUp, carried, out, worker, starts, faults>>

\* The connection breaks; the library hands on some of what it holds.
\* Nothing connects again.
StreamLost(s) ==
    /\ stream[s]
    /\ Fault
    /\ stream' = [stream EXCEPT ![s] = FALSE]
    /\ \E kept \in SUBSET inbox[s] : inbox' = [inbox EXCEPT ![s] = kept]
    /\ UNCHANGED <<broker, stored, fwdUp, carried, out, worker, starts>>

\* The broker restarts.  Exchange and queue are durable, the messages are not:
\* Publish leaves DeliveryMode at its default, transient.  Every connection
\* breaks, as in StreamLost.
BrokerRestarts ==
    /\ Fault
    /\ queue' = {}
    /\ stream' = [s \in Servers |-> FALSE]
    /\ \E kept \in [Servers -> SUBSET Msgs] : inbox' = [s \in Servers |-> inbox[s] \cap kept[s]]
    /\ UNCHANGED <<sent, stored, fwdUp, carried, out, worker, starts>>
-----------------------------------------------------------------------------
(* The life of a server.                                                   *)

\* The sync worker starts and Consume subscribes to the queue.
StartSync(s) ==
    /\ sync[s] = "off" /\ starts < MaxStarts
    /\ starts' = starts + 1
    /\ sync' = [sync EXCEPT ![s] = "select"]
    /\ stream' = [stream EXCEPT ![s] = TRUE]
    /\ fwdUp' = [fwdUp EXCEPT ![s] = TRUE]
    /\ UNCHANGED <<broker, stored, inbox, carried, out, batch, cancelled, faults>>

\* Consume returns an error: the worker logs it and is gone.
ConsumeFails(s) ==
    /\ sync[s] = "off" /\ starts < MaxStarts
    /\ Fault
    /\ starts' = starts + 1
    /\ sync' = [sync EXCEPT ![s] = "ended"]
    /\ UNCHANGED <<broker, stored, pipe, batch, cancelled>>

Cancel(s) ==
    /\ sync[s] # "off" /\ ~cancelled[s]
    /\ cancelled' = [cancelled EXCEPT ![s] = TRUE]
    /\ UNCHANGED <<broker, stored, pipe, batch, sync, starts, faults>>

\* The process ends, by a crash or after GracefulExit, which waits for the
\* two poll loops but not for the sync worker.
ProcessEnds(s) ==
    /\ sync[s] # "off"
    /\ stream' = [stream EXCEPT ![s] = FALSE]
    /\ inbox' = [inbox EXCEPT ![s] = {}]
    /\ fwdUp' = [fwdUp EXCEPT ![s] = FALSE]
    /\ carried' = [carried EXCEPT ![s] = None]
    /\ out' = [out EXCEPT ![s] = {}]
    /\ batch' = [batch EXCEPT ![s] = {}]
    /\ sync' = [sync EXCEPT ![s] = "off"]
    /\ cancelled' = [cancelled EXCEPT ![s] = FALSE]
    /\ UNCHANGED <<broker, stored, starts, faults>>
-----------------------------------------------------------------------------
(* The forwarding goroutine of Consume.                                    *)

Take(s, m) ==
    /\ fwdUp[s] /\ carried[s] = None /\ m \in inbox[s]
    /\ inbox' = [inbox EXCEPT ![s] = @ \ {m}]
    /\ carried' = [carried EXCEPT ![s] = m]
    /\ UNCHANGED <<broker, stored, stream, fwdUp, out, worker, starts, faults>>

\* A free place in the channel; the slip takes it for unbounded.
HasRoom_Unbounded(s) == TRUE
HasRoom(s) == Cardinality(out[s]) < OutCap

Put(s) ==
    /\ carried[s] # None /\ HasRoom(s)
    /\ out' = [out EXCEPT ![s] = @ \cup {carried[s]}]
    /\ carried' = [carried EXCEPT ![s] = None]
    /\ UNCHANGED <<broker, stored, stream, inbox, fwdUp, worker, starts, faults>>

\* It returns when it sees ctx.Done(), with a message in its hand or not, or
\* when the deliveries have come to an end; the channel is closed.
ForwarderEnds(s) ==
    /\ fwdUp[s]
    /\ \/ cancelled[s]
       \/ ~stream[s] /\ inbox[s] = {} /\ carried[s] = None
    /\ fwdUp' = [fwdUp EXCEPT ![s] = FALSE]
    /\ carried' = [carried EXCEPT ![s] = None]
    /\ UNCHANGED <<broker, stored, stream, inbox, out, worker, starts, faults>>
-----------------------------------------------------------------------------
(* The sync worker: one select, taken in any order when several cases are  *)
(* ready.                                                                  *)

\* Slip: the job that fills the batch is not kept.
Receive_DropsLast(s, m) ==
    /\ sync[s] = "select" /\ m \in out[s]
    /\ out' = [out EXCEPT ![s] = @ \ {m}]
    /\ IF m \notin Malformed /\ Cardinality(batch[s]) + 1 < BatchMax
          THEN batch' = [batch EXCEPT ![s] = @ \cup {m}] /\ UNCHANGED sync
          ELSE sync' = [sync EXCEPT ![s] = "flush"] /\ UNCHANGED batch
    /\ UNCHANGED <<broker, stored, stream, inbox, fwdUp, carried, cancelled, starts, faults>>

\* A message that does not parse is dropped; the job that fills the batch
\* makes the worker flush it.
Receive(s, m) ==
    /\ sync[s] = "select" /\ m \in out[s]
    /\ out' = [out EXCEPT ![s] = @ \ {m}]
    /\ \/ m \in Malformed /\ UNCHANGED <<batch, sync>>
       \/ /\ m \notin Malformed
          /\ batch' = [batch EXCEPT ![s] = @ \cup {m}]
          /\ sync' = [sync EXCEPT ![s] =
                        IF Cardinality(batch[s] \cup {m}) >= BatchMax THEN "flush" ELSE @]
    /\ UNCHANGED <<broker, stored, stream, inbox, fwdUp, carried, cancelled, starts, faults>>

\* The ticker; the slip flushes a full batch only.
Tick_WhenFull(s) ==
    /\ sync[s] = "select" /\ Cardinality(batch[s]) >= BatchMax
    /\ sync' = [sync EXCEPT ![s] = "flush"]
    /\ UNCHANGED <<broker, stored, pipe, batch, cancelled, starts, faults>>
Tick(s) ==
    /\ sync[s] = "select" /\ batch[s] # {}
    /\ sync' = [sync EXCEPT ![s] = "flush"]
    /\ UNCHANGED <<broker, stored, pipe, batch, cancelled, starts, faults>>

\* ctx.Done(), or the channel is closed and empty: one last flush.
LeaveLoop(s) ==
    /\ sync[s] = "select"
    /\ cancelled[s] \/ (~fwdUp[s] /\ out[s] = {})
    /\ sync' = [sync EXCEPT ![s] = "last"]
    /\ UNCHANGED <<broker, stored, pipe, batch, cancelled, starts, faults>>

\* One INSERT for the whole batch: all rows or none.  The slip writes the
\* first row only.
BulkInsert_First(s) ==
    LET first == CHOOSE m \in batch[s] : TRUE
    IN  stored' = [m \in Msgs |-> IF batch[s] # {} /\ m = first
                                     THEN stored[m] + 1 ELSE stored[m]]
BulkInsert(s) ==
    stored' = [m \in Msgs |-> IF m \in batch[s] THEN stored[m] + 1 ELSE stored[m]]

\* jobsBatch = nil, after a success and after an error; the slip keeps the
\* batch, to flush it again.
ResetBatch_Keeps(s) == UNCHANGED batch
ResetBatch(s) == batch' = [batch EXCEPT ![s] = {}]

\* flushBatch.  The statement fails when the context is cancelled, when the
\* table refuses one of the rows, or when the database does.
Flush(s) ==
    /\ sync[s] \in {"flush", "last"}
    /\ \/ /\ ~cancelled[s] /\ batch[s] \cap Poison = {}
          /\ BulkInsert(s)
          /\ UNCHANGED faults
       \/ /\ cancelled[s] \/ batch[s] \cap Poison # {}
          /\ UNCHANGED <<stored, faults>>
       \/ Fault /\ UNCHANGED stored
    /\ ResetBatch(s)
    /\ sync' = [sync EXCEPT ![s] = IF @ = "last" THEN "ended" ELSE "select"]
    /\ UNCHANGED <<broker, pipe, cancelled, starts>>
-----------------------------------------------------------------------------
ForwarderStep(s) == (\E m \in inbox[s] : Take(s, m)) \/ Put(s) \/ ForwarderEnds(s)

SyncStep(s) ==
    \/ \E m \in out[s] : Receive(s, m)
    \/ Tick(s) \/ LeaveLoop(s) \/ Flush(s)

Next ==
    \/ \E m \in Msgs : Publish(m)
    \/ BrokerRestarts
    \/ \E s \in Servers :
          \/ StartSync(s) \/ ConsumeFails(s) \/ Cancel(s) \/ ProcessEnds(s)
          \/ \E m \in queue : Deliver(s, m)
          \/ StreamLost(s)
          \/ ForwarderStep(s)
          \/ SyncStep(s)

Spec == Init /\ [][Next]_vars

\* The broker delivers while someone consumes, goroutines are scheduled and
\* statements end; a select takes each case that stays ready in the end.
Fairness ==
    \A s \in Servers :
        /\ WF_vars(\E m \in queue : Deliver(s, m))
        /\ WF_vars(ForwarderStep(s))
        /\ WF_vars(SyncStep(s))

FairSpec == Spec /\ Fairness
-----------------------------------------------------------------------------
InMemory(s, m) == m \in inbox[s] \cup out[s] \cup batch[s] \/ carried[s] = m

\* What each variable holds.
Types ==
    /\ sent \subseteq Msgs /\ queue \subseteq sent
    /\ stored \in [Msgs -> Nat]
    /\ stream \in [Servers -> BOOLEAN]
    /\ inbox \in [Servers -> SUBSET Msgs]
    /\ fwdUp \in [Servers -> BOOLEAN]
    /\ carried \in [Servers -> Msgs \cup {None}]
    /\ out \in [Servers -> SUBSET Msgs]
    /\ batch \in [Servers -> SUBSET Msgs]
    /\ sync \in [Servers -> {"off", "select", "flush", "last", "ended"}]
    /\ cancelled \in [Servers -> BOOLEAN]
    /\ starts \in 0..MaxStarts /\ faults \in 0..MaxFaults

WithinBounds ==
    \A s \in Servers : Cardinality(out[s]) <= OutCap /\ Cardinality(batch[s]) <= BatchMax

\* Every variable keeps its type, and the channel and the batch never hold
\* more than they may, however fast messages arrive.
TypeOK == Types /\ WithinBounds

\* A call of Enqueue becomes at most one row.  A message is in one place at
\* a time: no flush, no restart and no broken connection leaves a copy of it
\* where it could be inserted a second time.
OneCopy ==
    \A m \in Msgs :
        /\ stored[m] <= 1
        /\ stored[m] = 1 => m \notin queue /\ \A s \in Servers : ~InMemory(s, m)
        /\ m \in queue => \A s \in Servers : ~InMemory(s, m)
        /\ \A s, t \in Servers : InMemory(s, m) /\ InMemory(t, m) => s = t
        /\ \A s \in Servers :
              /\ m \in inbox[s] => m \notin out[s] \cup batch[s] /\ carried[s] # m
              /\ m \in out[s] => m \notin batch[s] /\ carried[s] # m
              /\ m \in batch[s] => carried[s] # m

\* A message some goroutine will still come to.
Reachable(s, m) ==
    \/ fwdUp[s] /\ (m \in inbox[s] \/ carried[s] = m)
    \/ sync[s] \in {"select", "flush", "last"} /\ m \in out[s] \cup batch[s]

\* Neither in the queue nor in the table nor on its way.
Lost(m) ==
    m \in sent \ queue /\ stored[m] = 0 /\ \A s \in Servers : ~Reachable(s, m)

\* While no server is cancelled or ends and neither the database nor the broker
\* fails, no step loses a job that parses, except together with one the table
\* refuses: not the change from one batch to the next, not a full channel, not
\* a connection that broke earlier.
LossNeedsFailure ==
    [][\A m \in Msgs \ Malformed :
          (~Lost(m) /\ Lost(m)')
          => \/ faults' # faults
             \/ \E s \in Servers : cancelled[s] \/ (sync[s] # "off" /\ sync'[s] = "off")
             \/ \E s \in Servers : m \in batch[s] /\ batch[s] \cap Poison # {}]_vars

\* A job that is published does not stay under way: while a server consumes,
\* it is written to the table or lost in a way LossNeedsFailure allows.
Settles ==
    (\E s \in Servers : <>[](stream[s] /\ fwdUp[s] /\ ~cancelled[s]))
    => \A m \in Msgs : m \in sent ~> stored[m] = 1 \/ Lost(m)
-----------------------------------------------------------------------------
(* The promise of queue mode.                                              *)

Delivered ==
    [m \in Msgs |-> CASE m \notin sent  -> "new"
                     [] stored[m] > 0  -> "stored"
                     [] Lost(m)        -> "lost"
                     [] OTHER          -> "pending"]

Delivery == INSTANCE JobDelivery WITH
    state <- Delivered, Refused <- Malformed \cup Poison, BatchMax <- BatchMax

\* Seen from the callers and the table, the pipeline is JobDelivery: a batch
\* is written as a whole, never with a row that is refused, a message that
\* is lost or stored stays so, and no step both writes and loses.
ImplementsDelivery == Delivery!Spec
=============================================================================
