SPECIFICATION Spec
CONSTANTS
    n1 = n1
    n2 = n2
    n3 = n3
    n4 = n4
    q1 = q1
    i1 = i1
    m1 = m1
    m2 = m2
    None = None
    Nodes = {n1, n2, n3, n4}
    Byz = {n4}
    Quorums = {q1}
    Members <- AllMembers
    Threshold = 3
    Ids = {i1}
    Msgs = {m1, m2}
    ReSignIds = {}
    Born <- BornAtZero
    Life = 1
    Grace = 1
    MaxAge = 1
    MaxTime = 3
    MaxRestarts = 1
SYMMETRY HonestPerms
INVARIANTS
    OneVotePerQuorum
    NoConflictingRecovery
CHECK_DEADLOCK FALSE
