SPECIFICATION Spec
CONSTANTS
    MaxUser = 4
    MaxNetwork = 3
INVARIANT HandshakeBegun
CHECK_DEADLOCK FALSE
