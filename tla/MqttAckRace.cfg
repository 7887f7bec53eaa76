SPECIFICATION Spec
CONSTANTS
    f1 = f1
    f2 = f2
    Files = {f1, f2}
    NumTransfers = 3
    FileOf <- MCFileOf
    NumChunks <- MCNumChunks
    SmallTail = {f2}
    MaxInflight = 2
    QueueLimit = 4
    MaxFaults = 1
INVARIANT AckLatencyMeasured
