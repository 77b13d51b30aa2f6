SPECIFICATION FairSpec
CONSTANTS
    Instance = {i1, i2, i3, i4}
    None = none
    Garbage = garbage
    MaxMsg = 2
    MaxKill = 0
PROPERTY Delivered
CHECK_DEADLOCK FALSE
