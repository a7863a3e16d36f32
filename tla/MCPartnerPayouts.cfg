CONSTANTS
    s1 = s1
    s2 = s2
    o1 = o1
    m1 = m1
    p1 = p1
    p2 = p2
    a1 = a1
    NoRef = NoRef
    Sessions = {s1, s2}
    PartnerOrders = {o1}
    MarketOrders = {m1}
    Payouts = {p1, p2}
    Seeds = {a1}
    Price = 2
    Penalty = 1
    Amounts = {1, 2}
    MaxCommands = 4
    Ids = {1, 2, 3, 4}
    Clock = {0, 2}
SPECIFICATION Spec
SYMMETRY MCSymmetry
INVARIANTS
    
    
    LinksAreStored
    HonestLogVerifies
