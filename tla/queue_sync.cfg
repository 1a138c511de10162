CONSTANTS
    Msgs = {m1, m2, poison, junk}
    Malformed = {junk}
    Poison = {poison}
    Servers = {s1}
    OutCap = 1
    BatchMax = 2
    None = None
    MaxStarts = 2
    MaxFaults = 1
SPECIFICATION FairSpec
INVARIANTS TypeOK OneCopy
PROPERTIES LossNeedsFailure Settles ImplementsDelivery
CHECK_DEADLOCK FALSE
