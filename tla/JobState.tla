----------------------------- MODULE JobState -----------------------------
(***************************************************************************)
(* The job statuses of internal/state/statuses.go and the transition table *)
(* that the result processors consult.                                     *)
(***************************************************************************)

\* The statuses a row of enqueued_jobs or cron_jobs can hold.
AllStatuses ==
    {"queued", "processing", "succeeded", "failed", "retrying", "dead"}

\* The table ValidTransitions, as a set of <<From, To>> pairs.
ValidTransitions ==
    { <<"queued", "processing">>,   <<"processing", "succeeded">>,
      <<"processing", "failed">>,   <<"failed", "retrying">>,
      <<"retrying", "processing">>, <<"failed", "dead">> }

IsValidTransition(from, to) == <<from, to>> \in ValidTransitions
=============================================================================
