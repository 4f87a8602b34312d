SPECIFICATION Spec
CONSTANTS
    g = g
    a1 = a1
    a2 = a2
    b1 = b1
    b2 = b2
    None = None
    Blocks <- ForkBlocks
    Genesis <- MCGenesis
    Parent <- ForkParent
    MaxCrashes = 1
    MaxInvalidations = 1
    Limit = 1
INVARIANTS  CaughtUpWhenDrained 
PROPERTY EventuallySynced
CHECK_DEADLOCK FALSE
