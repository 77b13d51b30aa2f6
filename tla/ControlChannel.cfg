SPECIFICATION FairSpec
CONSTANTS
    Instance = {i1, i2, i3, i4}
    None = none
    Garbage = garbage
    MaxMsg = 2
    MaxKill = 2
INVARIANTS Inv OneListener RubbishPaid
PROPERTIES OnlyNew SparseAttended SparseDelivered
CHECK_DEADLOCK FALSE
