CONSTANTS
    s1 = s1
    s2 = s2
    e1 = e1
    NoDelivery = NoDelivery
    Sessions = {s1, s2}
    Events = {e1}
    MaxReplays = 2
    MaxAttempts = 2
    AlertAbove = 0
    MaxCommands = 3
SPECIFICATION Spec
SYMMETRY MCSymmetry
INVARIANTS
    RowsAreTrue
    SentOnce
    ReplayIsWhole
    OneOpenAlert
