SPECIFICATION Spec
CONSTANTS
    g = g
    a1 = a1
    a2 = a2
    b1 = b1
    b2 = b2
    None = None
    Blocks <- ForkBlocks
    Genesis <- MCGenesis
    Parent <- ForkParent
    Lockable = {a1, a2}
    Threads = {"net"}
    RpcBlocks = {}
    MaxEvents = 0
 
PROPERTIES  TipStaysOnLock
