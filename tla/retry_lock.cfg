CONSTANTS
    Procs = {p1}
    Conns = {c1, c2}
    Locks = {"migration", "retry"}
    None = None
    MaxDepth = 2
    Scripts = 1
    MaxStarts = 1
    MaxFaults = 0
SPECIFICATION Spec
INVARIANT RetryAvailable
CHECK_DEADLOCK FALSE
