SPECIFICATION Spec
CONSTANTS
    f1 = f1
    f2 = f2
    Files = {f1, f2}
    NumTransfers = 2
    FileOf <- MCFileOf
    MaxFaults = 0
INVARIANT ExecuteAfterDownload
