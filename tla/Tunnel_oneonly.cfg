\* One-packet mode, in which no report is sent: three packets, any two faults of
\* the path or of sendmsg, a rate limiter, and one zero-length read.
SPECIFICATION Spec
CONSTANTS
    p1 = p1
    p2 = p2
    p3 = p3
    Pkts <- ThreePkts
    PktLen <- ThreeLens
    Payload = 4
    MinRoom = 1
    LenBytes = 2
    SeqMod = 1000
    PAD = PAD
    FaultKinds = {"lose", "dup", "reorder", "short"}
    MaxFaults = 2
    OneOnly = TRUE
    Pool = 3
    MaxZero = 1
    MaxEmpty = 0
    UseAcks = FALSE
    Congest = TRUE
    MaxBuf = 7
    HdrLen = 1
    NULL = NULL
CHECK_DEADLOCK FALSE
INVARIANTS
    TypeOK
    BuffersConserved
    NoAbort
    LossIsContained
    CompletedInOrder
PROPERTIES
    ImplementsPipe
