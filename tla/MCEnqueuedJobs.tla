--------------------------- MODULE MCEnqueuedJobs ---------------------------
(* Instances of EnqueuedJobs for TLC.                                       *)
EXTENDS EnqueuedJobs, TLC

\* Jobs, servers and workers are interchangeable: nothing in the module
\* names one or orders them.  Used by the safety runs only.
Symmetry == Permutations(Jobs) \cup Permutations(Servers) \cup Permutations(Workers)
=============================================================================
