CONSTANTS
    Jobs = {j1}
    Servers = {s1, s2}
    Workers = {w1}
    BatchSize = 1
    ResultCap = 1
    MaxRetryAttempt = 2
    None = None
    MaxStarts = 2
    MaxFaults = 0
SPECIFICATION Spec
INVARIANT ExhaustedIsDead
CHECK_DEADLOCK FALSE
