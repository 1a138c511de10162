CONSTANTS
    Procs = {p1, p2}
    Conns = {c1, c2}
    Locks = {"migration", "retry"}
    None = None
    MaxDepth = 2
    Scripts = 1
    MaxStarts = 2
    MaxFaults = 1
SPECIFICATION FairSpec
INVARIANTS TypeOK MigrationExclusive TablesBeforeUse AdminKept ShutdownFreesLocks
PROPERTY StartupReturns
CHECK_DEADLOCK FALSE
