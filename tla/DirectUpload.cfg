SPECIFICATION FairSpec
CONSTANTS
    f1 = f1
    None = None
    NumTransfers = 2
    Files = {f1}
    FileOf <- MCFileOf
    Blocks <- MCBlocks
    MaxAttempts = 3
    MaxRetransmit = 1
    MidSpace = 5
    BlockLen = 8
    HeaderLen = 1
    MaxFaults = 3
INVARIANT TypeOK
INVARIANT OkFileWholeAtRest
INVARIANT RepeatsExplained
INVARIANT WarningMeansMissing
PROPERTY ImplementsUpload
PROPERTY SweepEnds
