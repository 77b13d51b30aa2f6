SPECIFICATION FairSpec
CONSTANTS
    Thread = {1, 2, 3}
    Nobody = 0
    Value = {"a", "b"}
    None = "none"
    MayCall <- MCMayCall
    MaxCalls = 3
INVARIANTS Inv FrontDefined WakeupsSuffice
PROPERTIES Linearizable PopServed
CHECK_DEADLOCK FALSE
