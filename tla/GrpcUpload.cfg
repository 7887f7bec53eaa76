SPECIFICATION FairSpec
CONSTANTS
    u1 = u1
    u2 = u2
    u3 = u3
    u4 = u4
    f1 = f1
    f2 = f2
    f3 = f3
    None = None
    Uploads = {u1, u2, u3, u4}
    Files = {f1, f2, f3}
    FileOf <- MCFileOf
    NumChunks <- MCNumChunks
    SmallTail = {f1}
    Altered = {u2}
    Workers = 2
    Discipline = "handler"
    MaxCrashes = 1
INVARIANT TypeOK
INVARIANT FinalComplete
INVARIANT OkMeansPublished
INVARIANT NoPartLeft
PROPERTY EveryUploadEnds
PROPERTY ImplementsUpload
