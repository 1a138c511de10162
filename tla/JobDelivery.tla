---------------------------- MODULE JobDelivery ----------------------------
(***************************************************************************)
(* What queue mode promises the callers of Enqueue, seen from the table    *)
(* enqueued_jobs: a published job is written once or lost, and either is   *)
(* final.  Rows are written in batches, a batch as a whole, and a batch    *)
(* with a message that is no proper job writes nothing.  QueueSync is the  *)
(* detailed specification that implements this one.                        *)
(***************************************************************************)
EXTENDS Naturals, FiniteSets

CONSTANTS
    Msgs,      \* the messages
    Refused,   \* messages that never become a row
    BatchMax   \* the largest batch

VARIABLE state   \* of each message: "new", "pending", "stored" or "lost"

Init == state = [m \in Msgs |-> "new"]

\* Every message of S goes from pending to the state `to`.
Move(S, to) ==
    /\ S # {} /\ \A m \in S : state[m] = "pending"
    /\ state' = [m \in Msgs |-> IF m \in S THEN to ELSE state[m]]

Publish(m) ==
    /\ state[m] = "new"
    /\ state' = [state EXCEPT ![m] = "pending"]

Store(S) == Cardinality(S) <= BatchMax /\ S \cap Refused = {} /\ Move(S, "stored")

\* With the memory of a process, or with a batch that was not written.
Lose(S) == Move(S, "lost")

Next ==
    \/ \E m \in Msgs : Publish(m)
    \/ \E S \in SUBSET Msgs : Store(S) \/ Lose(S)

Spec == Init /\ [][Next]_state
=============================================================================
