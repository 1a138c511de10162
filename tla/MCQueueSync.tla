---------------------------- MODULE MCQueueSync ----------------------------
(* Instances of QueueSync for TLC.  The messages differ in kind and are few, *)
(* and the run checks liveness: no symmetry.                                *)
EXTENDS QueueSync, TLC
=============================================================================
