CONSTANTS
    TxMax = 2
    CntMod = 6
    StickyTxok = TRUE
    Smp = TRUE
    MaxFrames = 6
    MaxBusOffs = 2
SPECIFICATION Spec
INVARIANTS NoTxStorm FifoNeverOverrun EchoOnce
CHECK_DEADLOCK FALSE
