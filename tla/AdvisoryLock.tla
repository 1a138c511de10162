---------------------------- MODULE AdvisoryLock ----------------------------
(***************************************************************************)
(* The distributed lock: PostgreSQL's session-level advisory locks, used   *)
(* through a pool of connections.  A lock belongs to the session that was  *)
(* granted it, counts how often that session took it, and is given back by *)
(* that session only.  Acquire and Release each take whichever connection  *)
(* of the pool is free.  The server side is PostgreSQL's, modelled from    *)
(* how Acquire and Release use it.                                         *)
(***************************************************************************)
EXTENDS Naturals

CONSTANTS
    Procs,     \* processes, each with a pool of its own
    Conns,     \* connections of a pool
    Locks,     \* lock ids
    None,      \* nobody
    MaxDepth   \* bound: how often one session takes the same lock

ASSUME LockAssumption == None \notin Procs \cup Conns /\ MaxDepth \in Nat \ {0}

VARIABLES
    holder,    \* the session that holds each lock
    depth      \* how often it has taken it

lockVars == <<holder, depth>>

Sessions == Procs \X Conns
NoSession == <<None, None>>

LockTypeOK ==
    /\ holder \in [Locks -> Sessions \cup {NoSession}]
    /\ depth \in [Locks -> 0..MaxDepth]
    /\ \A l \in Locks : holder[l] = NoSession <=> depth[l] = 0

LockInit ==
    /\ holder = [l \in Locks |-> NoSession]
    /\ depth = [l \in Locks |-> 0]

Holds(p, l) == holder[l][1] = p

\* pg_advisory_lock returns at once: the lock is free or the session has it.
Grantable(s, l) == holder[l] \in {NoSession, s} /\ depth[l] < MaxDepth

\* pg_advisory_lock has to wait for another session.
Blocked(s, l) == holder[l] \notin {NoSession, s}

Grant(s, l) ==
    /\ Grantable(s, l)
    /\ holder' = [holder EXCEPT ![l] = s]
    /\ depth' = [depth EXCEPT ![l] = @ + 1]

\* Slip: the count goes down whoever calls.
Unlock_AnySession(s, l) ==
    /\ depth' = [depth EXCEPT ![l] = @ - 1]
    /\ holder' = [holder EXCEPT ![l] = IF depth[l] = 1 THEN NoSession ELSE @]

\* pg_advisory_unlock: a session that does not hold the lock gets a warning,
\* which Release does not see, and changes nothing.
Unlock(s, l) ==
    IF holder[l] = s
    THEN /\ depth' = [depth EXCEPT ![l] = @ - 1]
         /\ holder' = [holder EXCEPT ![l] = IF depth[l] = 1 THEN NoSession ELSE s]
    ELSE UNCHANGED lockVars

\* The end of sessions gives back what they hold.
EndSessions(S) ==
    /\ holder' = [l \in Locks |-> IF holder[l] \in S THEN NoSession ELSE holder[l]]
    /\ depth' = [l \in Locks |-> IF holder[l] \in S THEN 0 ELSE depth[l]]
=============================================================================
