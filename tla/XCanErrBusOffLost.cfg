CONSTANTS
    TxKinds = {ack}
    RxKinds = {crc}
    WarnAt = 1
    PassiveAt = 2
    BusOffAt = 3
    MaxEvents = 4
    MaxFrames = 1
SPECIFICATION Spec
INVARIANT BusOffKnown
CHECK_DEADLOCK FALSE
