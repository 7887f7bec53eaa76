SPECIFICATION FairSpec
CONSTANTS
    f1 = f1
    f2 = f2
    Files = {f1, f2}
    NumTransfers = 2
    FileOf <- MCFirstTwo
    NumChunks <- MCNumChunks
    SmallTail = {f2}
    MaxInflight = 2
    QueueLimit = 3
    MaxFaults = 2
INVARIANT MqttTypeOK
INVARIANT TakenTransferJudged
INVARIANT NoForeignChunk
PROPERTY EventuallyQuiet
