CONSTANTS
    TxMax = 3
    CntMod = 6
    StickyTxok = FALSE
    Smp = FALSE
    MaxFrames = 8
    MaxBusOffs = 0
SPECIFICATION FairSpec
INVARIANTS TypeOK NeverFullWhenAwake TailCountsSent
PROPERTIES Implements StoppedWakes OnlyLateStopStalls
CHECK_DEADLOCK FALSE
