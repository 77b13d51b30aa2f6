SPECIFICATION Spec
CONSTANTS
    NPeer = 3
    Fd = {5}
    Addr <- TwoAddr
    MaxCandidate = 1
    MaxUser = 4
    MaxNetwork = 2
    Line <- MCLine
    ReadLine <- MCReadLine
    CloseLine <- MCCloseLine
    UserLine <- TwoMasters
    Interpret <- MCInterpret
INVARIANTS
    DataServed
CHECK_DEADLOCK FALSE
