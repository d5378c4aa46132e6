\* As Session.cfg, without cut inner packets: it is sequence numbers that are followed.
CONSTANTS
    SeqMod = 4
    MaxLeft = 0
    MaxStarts = 3
    MaxSock = 1
SPECIFICATION FairSpec
PROPERTY Resyncs
CHECK_DEADLOCK FALSE
