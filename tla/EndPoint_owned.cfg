SPECIFICATION Spec
CONSTANTS
    NPeer = 2
    Fd = {5, 6}
    Addr <- TwoAddr
    MaxCandidate = 1
    MaxUser = 3
    MaxNetwork = 0
    Line <- MCLine
    ReadLine <- MCReadLine
    CloseLine <- MCCloseLine
    UserLine <- TwoMasters
    Interpret <- MCInterpret
INVARIANTS
    DescriptorOwned
CHECK_DEADLOCK FALSE
