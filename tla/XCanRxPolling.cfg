CONSTANTS
    Cpus = {c1, c2}
    RxDepth = 2
    Quota = 2
    MaxFrames = 4
    MaxOverflows = 0
    MaxErrors = 1
    MaxBusOffs = 0
SPECIFICATION FairSpec
INVARIANT TypeOK
PROPERTY Implements
CHECK_DEADLOCK FALSE
