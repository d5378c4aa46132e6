\* Normal mode with loss reports: three packets that need between one and three
\* outer packets of four bytes, and any two faults of the path or of sendmsg.
SPECIFICATION Spec
CONSTANTS
    p1 = p1
    p2 = p2
    p3 = p3
    Pkts <- ThreePkts
    PktLen <- ThreeLens
    Payload = 4
    MinRoom = 1
    LenBytes = 2
    SeqMod = 1000
    PAD = PAD
    FaultKinds = {"lose", "dup", "reorder", "short"}
    MaxFaults = 2
    OneOnly = FALSE
    Pool = 2
    MaxZero = 0
    MaxEmpty = 1
    UseAcks = TRUE
    Congest = FALSE
    MaxBuf = 7
    HdrLen = 1
    NULL = NULL
CONSTRAINT NotYetBlind
CHECK_DEADLOCK FALSE
INVARIANTS
    WellFormedOuter
    SoundUnlessBlind
    IovFits
    DropsExact
PROPERTIES
    PipeUnlessBlind
