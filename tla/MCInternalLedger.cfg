CONSTANTS
    t1 = t1
    t2 = t2
    s1 = s1
    s2 = s2
    k1 = k1
    k2 = k2
    c1 = c1
    NoClient = NoClient
    NoCall = NoCall
    Sessions = {s1, s2}
    Tenants = {t1, t2}
    Keys = {k1, k2}
    Batches <- MCBatches
SPECIFICATION FairSpec
INVARIANTS
    TypeOK
    ChainIntact
    OneAccountPerScope
    LinesVerify
PROPERTIES
    ImplementsExactlyOnceLog
    PostingEnds
