\* The same instance, asking whether a degraded path can make the sender faster.
SPECIFICATION Spec
CONSTANTS
    TargetPps = 3
    RunLen = 2
    MinAvg = 1
    UintMod = 1000
    NsecsInSec = 100
    NdropMax = 2
    Congest = TRUE
    MaxSpan = 3
    MaxLimited = 2
    MaxAcks = 1
PROPERTY DegradedSlows
