CONSTANTS
    Jobs = {j1}
    Servers = {s1}
    Workers = {w1}
    BatchSize = 1
    ResultCap = 1
    None = None
    MaxEdits = 0
    MaxStarts = 2
    MaxFaults = 0
SPECIFICATION FairSpec
PROPERTY ExpiredLockIsTakenOver
CHECK_DEADLOCK FALSE
