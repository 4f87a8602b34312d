SPECIFICATION Spec
CONSTANTS
    r = r
    a1 = a1
    a2 = a2
    b1 = b1
    b2 = b2
    x = x
    y = y
    w = w
    q = q
    Outpoints = {x, y, w}
    Coins = {1, 2, 3}
    Spent = 0
    Absent = Absent
    Blocks <- MCBlocks
    Base = r
    Parent <- MCParent
    Height <- MCHeight
    Creates <- MCCreates
    Spends <- MCSpends
    Coinbases = {w}
    Quorums = {q}
    Mines <- MCMines
    None = None
    MaxCrashes = 2
INVARIANTS LedgersMatch   
CHECK_DEADLOCK FALSE
