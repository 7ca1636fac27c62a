CONSTANTS
    Cpus = {c1, c2}
    RxDepth = 2
    Quota = 2
    MaxFrames = 4
    MaxOverflows = 1
    MaxErrors = 0
    MaxBusOffs = 1
SYMMETRY CpuSymmetry
SPECIFICATION Spec
INVARIANTS NeverDeaf OthersLostOnlyByRace OnePoller InOrder
CHECK_DEADLOCK FALSE
