SPECIFICATION FairSpec
CONSTANTS
    g = g
    a1 = a1
    a2 = a2
    b1 = b1
    b2 = b2
    None = None
    Blocks <- ShortBlocks
    Genesis <- MCGenesis
    Parent <- ShortParent
    Lockable = {a1}
    Threads = {"net", "sig"}
    RpcBlocks = {a1}
    MaxEvents = 1
PROPERTY LockIsEnforced
