SPECIFICATION Spec
CONSTANTS
    f1 = f1
    f2 = f2
    Files = {f1, f2}
    NumTransfers = 3
    FileOf <- MCFileOf
    NumChunks <- MCNumChunks
    SmallTail = {f2}
    Campaigns <- MCCampaigns
    MaxFaults = 2
INVARIANT RowsRecordIntegrity
