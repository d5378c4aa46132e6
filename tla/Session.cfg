\* Three processes, so that either end can restart while the other goes on, numbers
\* that wrap after three, and inner packets cut over up to three outer ones.
CONSTANTS
    SeqMod = 4
    MaxLeft = 2
    MaxStarts = 3
    MaxSock = 2
SPECIFICATION Spec
ACTION_CONSTRAINT Heard
INVARIANTS TypeOK SoundUnlessBlind ClientAveragesReady
CHECK_DEADLOCK FALSE
