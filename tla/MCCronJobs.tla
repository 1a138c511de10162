----------------------------- MODULE MCCronJobs -----------------------------
(* Instances of CronJobs for TLC.                                           *)
EXTENDS CronJobs, TLC

\* Jobs, servers and workers are interchangeable.  Used by the safety runs
\* only.
Symmetry == Permutations(Jobs) \cup Permutations(Servers) \cup Permutations(Workers)
=============================================================================
