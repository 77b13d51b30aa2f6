SPECIFICATION FairSpec
CONSTANTS
    NPeer = 4
    Fd = {5}
    Addr <- TwoAddr
    MaxCandidate = 1
    MaxUser = 3
    MaxNetwork = 0
    Line <- MCLine
    ReadLine <- MCReadLine
    CloseLine <- MCCloseLine
    UserLine <- Connects
    Interpret <- MCInterpret
PROPERTIES
    ConnectServed
CHECK_DEADLOCK FALSE
