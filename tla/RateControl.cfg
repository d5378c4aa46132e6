\* A window of two reports, a target of three packets per second and spans of up
\* to three packets: the window fills and wraps, the rate is pushed to both ends,
\* and an average above the rate makes the unsigned sum wrap.
SPECIFICATION FairSpec
CONSTANTS
    TargetPps = 3
    RunLen = 2
    MinAvg = 1
    UintMod = 1000
    NsecsInSec = 100
    NdropMax = 2
    Congest = TRUE
    MaxSpan = 3
    MaxLimited = 2
    MaxAcks = 1
INVARIANTS
    RateInRange
    WindowExact
    DivisionNeedsLimit
PROPERTIES
    SlowsDown
    Recovers
