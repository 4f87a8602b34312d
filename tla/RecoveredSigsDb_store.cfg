SPECIFICATION FairSpec
CONSTANTS
    i1 = i1
    m1 = m1
    q1 = q1
    None = None
    RecSigs <- OneSig
    Readers = {t1}
    MaxAge = 0
    MaxTime = 1
    MaxRestarts = 1
INVARIANT StoredSigIndexed
PROPERTY OldSigsAreRemoved
