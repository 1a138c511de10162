CONSTANTS
    Jobs = {j1, j2}
    Servers = {s1}
    Workers = {w1, w2}
    BatchSize = 2
    ResultCap = 1
    MaxRetryAttempt = 3
    None = None
    MaxStarts = 2
    MaxFaults = 1
SPECIFICATION FairSpec
INVARIANTS SingleExecution ExhaustedIsDead
PROPERTIES ImplementsLifecycle Completion ShutdownCompletes
CHECK_DEADLOCK FALSE
