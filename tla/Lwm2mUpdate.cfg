SPECIFICATION FairSpec
CONSTANTS
    f1 = f1
    f2 = f2
    Files = {f1, f2}
    NumTransfers = 3
    FileOf <- MCFileOf
    MaxFaults = 2
INVARIANT TypeOK
INVARIANT FaultFreeCampaign
PROPERTY CleanTransferLogsARow
PROPERTY EveryTransferEnds
PROPERTY EveryFlowEnds
