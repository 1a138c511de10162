---------------------------- MODULE MCBootstrap -----------------------------
(* Start-up of a few processes, each with a pool of a few connections.     *)
EXTENDS Bootstrap, TLC
=============================================================================
