CONSTANTS
    TxKinds = {ack}
    RxKinds = {crc}
    WarnAt = 1
    PassiveAt = 2
    BusOffAt = 3
    MaxEvents = 4
    MaxFrames = 1
SPECIFICATION FairSpec
INVARIANT TypeOK
INVARIANT NeverBetter
INVARIANT DeadOnlyWhen
INVARIANT KindsAccounted
INVARIANT HonestPassive
PROPERTY BusOffRestarts
CHECK_DEADLOCK FALSE
