SPECIFICATION FairSpec
CONSTANTS
    NPeer = 4
    Fd = {5}
    Addr <- TwoAddr
    MaxCandidate = 1
    MaxUser = 2
    MaxNetwork = 1
    Line <- MCLine
    ReadLine <- MCReadLine
    CloseLine <- MCCloseLine
    UserLine <- Everyday
    Interpret <- MCInterpret
PROPERTIES
    ReadingEnds
CHECK_DEADLOCK FALSE
