\* Three buffers, three inner packets of at most two pieces: every buffer but one
\* can be referred to, a buffer can be shared by three inner packets, and one
\* buffer can be lost at the start.
SPECIFICATION FairSpec
CONSTANTS
    Mbuf = {b1, b2, b3}
    Miov = {i1, i2, i3}
    MaxIov = 2
    MaxInner = 2
    InitRefcnt = {0, 1}
    NULL = NULL
INVARIANTS
    TypeOK
    NoOverwrite
    FreedOnce
    RefcntExact
    NoLeak
    MiovOwnedOnce
PROPERTIES
    ReaderProceeds
