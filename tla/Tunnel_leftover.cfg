\* One-packet mode over a perfect path: does the tunnel stall?
SPECIFICATION FairSpec
CONSTANTS
    p1 = p1
    p2 = p2
    p3 = p3
    Pkts <- ThreePkts
    PktLen <- ThreeLens
    Payload = 4
    MinRoom = 1
    LenBytes = 2
    SeqMod = 1000
    PAD = PAD
    FaultKinds = {}
    MaxFaults = 0
    OneOnly = TRUE
    Pool = 2
    MaxZero = 0
    MaxEmpty = 1
    UseAcks = FALSE
    Congest = FALSE
    MaxBuf = 7
    HdrLen = 1
    NULL = NULL
CHECK_DEADLOCK FALSE
PROPERTY NeverStalls
