CONSTANTS
    Jobs = {j1}
    Servers = {s1}
    Workers = {w1}
    BatchSize = 1
    ResultCap = 1
    None = None
    MaxEdits = 2
    MaxStarts = 2
    MaxFaults = 1
SPECIFICATION FairSpec
INVARIANT ExecutionOwnsRow
PROPERTIES RunsWhenDue ScheduleConverges
CHECK_DEADLOCK FALSE
