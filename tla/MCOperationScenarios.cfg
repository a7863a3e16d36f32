CONSTANTS
    s1 = s1
    s2 = s2
    r1 = r1
    r2 = r2
    v1 = v1
    v2 = v2
    o1 = o1
    o2 = o2
    k1 = k1
    k2 = k2
    d1 = d1
    d2 = d2
    NoId = NoId
    Sessions = {s1, s2}
    RefundKeys = {r1, r2}
    ReversalKeys = {v1}
    OpenKeys = {o1, o2}
    DecisionKeys = {k1}
    Disputes = {d1, d2}
    Captured = 1
    Amounts = {1}
    Closed = {FALSE, TRUE}
    Fee = 1
    MaxCommands = 3
SPECIFICATION FairSpec
INVARIANTS
    LedgerTellsWhatWasDone
    
    HoldsAreExact

    
