SPECIFICATION Spec
CONSTANTS
    NoRun = NoRun
    r1 = r1
    r2 = r2
    r3 = r3
    NumSessions = 4
    KindOf <- MCKindOf
    RunIdOf <- MCRunIdOf
    ProtocolOf <- MCProtocolOf
    NumTransfers <- MCNumTransfers
    Late = {"mqtt"}
    Answering = {"grpc"}
    MaxFaults = 2
INVARIANT TypeOK
INVARIANT RowsStayHome
INVARIANT CsvWellFormed
PROPERTY ClosedRunsUnchanged
