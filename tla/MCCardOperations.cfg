CONSTANTS
    s1 = s1
    s2 = s2
    x1 = x1
    x2 = x2
    c1 = c1
    c2 = c2
    NoRow = NoRow
    Sessions = {s1, s2}
    Ext = {x1, x2}
    Children = {c1, c2}
    Amount = 2
    Parts = {1}
    Limit = 2
SPECIFICATION Spec
SYMMETRY MCSymmetry
INVARIANTS
    
    BalanceIsSum
    AmountsHold
