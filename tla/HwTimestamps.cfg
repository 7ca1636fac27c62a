CONSTANTS
    Half = 3
    NsPerSec = 5
    Freqs = {2, 5}
    RxDepth = 2
    MaxTime = 7
    MaxFrames = 3
    MaxStops = 1
    SockMax = 1
SPECIFICATION AppSpec
INVARIANT TypeOK
INVARIANT StampNearNow
INVARIANT ShownExact
INVARIANT GrantedOrExit
PROPERTY ShownInOrder
PROPERTY FramesShown
CHECK_DEADLOCK FALSE
