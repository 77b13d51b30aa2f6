SPECIFICATION Spec
CONSTANTS
    NPeer = 3
    Fd = {5, 6}
    Addr <- TwoAddr
    MaxCandidate = 2
    MaxUser = 4
    MaxNetwork = 1
    Line <- MCLine
    ReadLine <- MCReadLine
    CloseLine <- MCCloseLine
    UserLine <- Mixed
    Interpret <- MCInterpret
INVARIANTS
    TypeOK
    Addressed
    AddressUnique
    NoSocketLeak
    RegisteredHeld
    Inv
PROPERTIES
    MastersKept
CHECK_DEADLOCK FALSE
