SPECIFICATION Spec
CONSTANTS
    None = None
    Nodes = {0, 1, 2, 3}
    Setups <- MCSetups
    RecoveryOrder <- MCOrder
    MaxRequests = 1
INVARIANTS OneRequestAtATime NoDanglingSession KnownReaches 
CHECK_DEADLOCK FALSE
