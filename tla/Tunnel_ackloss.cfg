\* One lost outer packet, with loss reports switched on.
SPECIFICATION Spec
CONSTANTS
    p1 = p1
    p2 = p2
    p3 = p3
    Pkts <- ThreePkts
    PktLen <- ThreeLens
    Payload = 4
    MinRoom = 1
    LenBytes = 2
    SeqMod = 1000
    PAD = PAD
    FaultKinds = {"lose"}
    MaxFaults = 1
    OneOnly = FALSE
    Pool = 2
    MaxZero = 0
    MaxEmpty = 1
    UseAcks = TRUE
    Congest = FALSE
    MaxBuf = 7
    HdrLen = 1
    NULL = NULL
CHECK_DEADLOCK FALSE
INVARIANT NoAbort
