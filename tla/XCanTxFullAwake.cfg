CONSTANTS
    TxMax = 2
    CntMod = 8
    StickyTxok = FALSE
    Smp = TRUE
    MaxFrames = 6
    MaxBusOffs = 0
SPECIFICATION Spec
INVARIANT NeverFullWhenAwake
CHECK_DEADLOCK FALSE
