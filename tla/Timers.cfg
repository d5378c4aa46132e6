\* Four clock units to the second, and a uint that holds four seconds, as 2^32
\* nanoseconds do; the clock runs for six and a half.
SPECIFICATION Spec
CONSTANTS
    NsecsInSec = 4
    UintMod = 17
    Uint64Mod = 1000
    Period = 4
    Ivals = {3, 4}
    Rate = 2
    Count = 2
    Sizes = {1, 3}
    MaxTime = 26
INVARIANTS
    TypeOK
    TimerExact
    OverdueFires
    SleepExact
    NoBurst
    LimitExact
CHECK_DEADLOCK FALSE
