SPECIFICATION Spec
CONSTANTS
    t1 = t1
    t2 = t2
    c = c
    o1 = o1
    o2 = o2
    l1 = l1
    d1 = d1
    lc = lc
    g = g
    b1 = b1
    b2 = b2
    b3 = b3
    None = None
    Txs <- MCTxs
    Input <- MCInput
    Parent <- MCParent
    Locks = {l1}
    LockTx <- MCLockTx
    Deterministic = {d1}
    Blocks <- TwoBlocks
    Genesis <- MCGenesis
    Prev <- MCPrev
    BlockTx <- MCBlockTx
    Confirmations = 2
    MaxQueue = 1
    MaxEvents = 1
INVARIANTS NoMempoolConflict WaitsForTx ChildrenRetried MinedRecorded
PROPERTIES LocksKept ConflictsDisconnected
CHECK_DEADLOCK FALSE
