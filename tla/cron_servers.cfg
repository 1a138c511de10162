CONSTANTS
    Jobs = {j1, j2}
    Servers = {s1, s2}
    Workers = {w1}
    BatchSize = 1
    ResultCap = 1
    None = None
    MaxEdits = 0
    MaxStarts = 2
    MaxFaults = 0
SPECIFICATION Spec
SYMMETRY Symmetry
INVARIANTS TypeOK NoOverlap ExecutionOwnsRow
PROPERTY OrphanOnlyByLoss
CHECK_DEADLOCK FALSE
