SPECIFICATION Spec
CONSTANTS
    u1 = u1
    u2 = u2
    u3 = u3
    u4 = u4
    f1 = f1
    f2 = f2
    f3 = f3
    None = None
    Uploads = {u1, u2, u3, u4}
    Files = {f1, f2, f3}
    FileOf <- MCFileOf
    NumChunks <- MCNumChunks
    SmallTail = {f1}
    Altered = {}
    Workers = 2
    Discipline = "client"
    MaxCrashes = 1
INVARIANT FinalComplete
