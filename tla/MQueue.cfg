\* Two producers and three consumers over two slots: both ends can have a sleeper
\* and an awake thread at once, and there are twice as many buffers as slots.
SPECIFICATION FairSpec
CONSTANTS
    Pushers = {u1, u2}
    Poppers = {o1, o2, o3}
    Elems = {e1, e2, e3, e4}
    Size = 2
    NULL = NULL
    Spurious = TRUE
INVARIANTS
    TypeOK
    OwnedOnce
    NoStrandedPopper
    NoStrandedPusher
PROPERTIES
    ImplementsStack
    SleepersWake
