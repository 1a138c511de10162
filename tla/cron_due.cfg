CONSTANTS
    Jobs = {j1}
    Servers = {s1}
    Workers = {w1}
    BatchSize = 1
    ResultCap = 1
    None = None
    MaxEdits = 0
    MaxStarts = 1
    MaxFaults = 0
SPECIFICATION Spec
PROPERTY OnlyActiveDueJobsRun
CHECK_DEADLOCK FALSE
