SPECIFICATION FairSpec
CONSTANTS
    g = g
    a1 = a1
    a2 = a2
    b1 = b1
    c1 = c1
    None = None
    Blocks <- ForkBlocks
    Genesis <- MCGenesis
    Parent <- ForkParent
    ChainWork <- ForkWork
    Address <- ForkAddress
    Malformed = {}
    Invalid = {a2}
    Lockable = {c1}
    MaxManual = 1
INVARIANTS FlagsHaveCause ActiveChainClean CandidatesComplete
PROPERTIES LockedChainWins BestChainWins
