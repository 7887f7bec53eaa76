SPECIFICATION FairSpec
CONSTANTS
    NumTransfers = 3
    MaxFaults = 3
INVARIANT TypeOK
INVARIANT TrustedMeasurement
INVARIANT OneCapture
PROPERTY SweepEnds
