--------------------------- MODULE JobLifecycle ---------------------------
(***************************************************************************)
(* What the enqueued-job subsystem does in ONE life of every job, with     *)
(* servers, batches, channels and locks abstracted away:                   *)
(*                                                                         *)
(*   - a job is executed only from "queued" or "retrying";                 *)
(*   - an execution ends it as succeeded, or counts one failed attempt;    *)
(*   - the attempt that reaches MaxRetryAttempt makes it dead, any earlier *)
(*     one makes it failed, and a failed job can always be retried;        *)
(*   - succeeded and dead are final (a row can still be deleted);          *)
(*   - an interrupted execution puts the job back in the queue and counts  *)
(*     no attempt, so execution is at least once.                          *)
(*                                                                         *)
(* This is the life the statements of the store give a job.  It has two    *)
(* transitions that the table ValidTransitions of the code does not have:  *)
(* processing to dead (Die), where the table knows only failed to dead,    *)
(* and processing to queued (Requeue).  MarkFailure and UnlockStaleJobs    *)
(* write them without consulting the table.                                *)
(***************************************************************************)
EXTENDS Naturals

CONSTANTS Jobs,             \* job ids
          MaxRetryAttempt   \* constants.MaxRetryAttempt

VARIABLES status,           \* "unborn", "removed" or a status of JobState
          attempts          \* failed attempts counted so far

Init ==
    /\ status = [j \in Jobs |-> "unborn"]
    /\ attempts = [j \in Jobs |-> 0]

Move(j, from, to) ==
    /\ status[j] \in from
    /\ status' = [status EXCEPT ![j] = to]

Create(j)  == Move(j, {"unborn"}, "queued") /\ UNCHANGED attempts
Begin(j)   == Move(j, {"queued", "retrying"}, "processing") /\ UNCHANGED attempts
Succeed(j) == Move(j, {"processing"}, "succeeded") /\ UNCHANGED attempts

Fail(j) ==
    /\ attempts[j] + 1 < MaxRetryAttempt
    /\ Move(j, {"processing"}, "failed")
    /\ attempts' = [attempts EXCEPT ![j] = @ + 1]

\* The last failure; not in ValidTransitions, where dead follows failed.
Die(j) ==
    /\ attempts[j] + 1 = MaxRetryAttempt
    /\ Move(j, {"processing"}, "dead")
    /\ attempts' = [attempts EXCEPT ![j] = @ + 1]

\* Any set of failed jobs is put back on schedule in one step.
Retry ==
    /\ status' = [j \in Jobs |-> IF status[j] = "failed" THEN "retrying" ELSE status[j]]
    /\ UNCHANGED attempts

\* Executions that will never report are forgotten in one step; not in
\* ValidTransitions, where nothing leads to queued.
Requeue ==
    /\ status' = [j \in Jobs |-> IF status[j] = "processing" THEN "queued" ELSE status[j]]
    /\ UNCHANGED attempts

Remove(j) ==
    /\ status[j] # "unborn"
    /\ status' = [status EXCEPT ![j] = "removed"]
    /\ UNCHANGED attempts

Next ==
    \/ Retry
    \/ Requeue
    \/ \E j \in Jobs : \/ Create(j) \/ Begin(j) \/ Succeed(j)
                       \/ Fail(j) \/ Die(j) \/ Remove(j)

vars == <<status, attempts>>

Spec == Init /\ [][Next]_vars
=============================================================================
