SPECIFICATION FairSpec
CONSTANTS
    NPeer = 6
    Fd = {5}
    Addr <- TwoAddr
    MaxCandidate = 2
    MaxUser = 3
    MaxNetwork = 2
    Line <- MCLine
    ReadLine <- MCReadLine
    CloseLine <- MCCloseLine
    UserLine <- AnyLine
    Interpret <- MCInterpret
INVARIANTS NoStalledData
PROPERTIES
    LinesServed
    AttemptEnds
CHECK_DEADLOCK FALSE
