CONSTANTS
    Jobs = {j1}
    Servers = {s1, s2}
    Workers = {w1, w2}
    BatchSize = 1
    ResultCap = 1
    MaxRetryAttempt = 2
    None = None
    MaxStarts = 3
    MaxFaults = 1
SPECIFICATION Spec
SYMMETRY Symmetry
INVARIANTS TypeOK SnapshotsNotAhead ProcessingIsReleasable DeadOnlyAfterMaxAttempts FailuresBounded LockHasHolder
PROPERTY EarlyStartIsStale
CHECK_DEADLOCK FALSE
