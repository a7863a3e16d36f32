CONSTANTS
    s1 = s1
    s2 = s2
    t1 = t1
    t2 = t2
    i1 = i1
    k1 = k1
    r1 = r1
    r2 = r2
    n1 = n1
    j1 = j1
    j2 = j2
    o1 = o1
    o2 = o2
    NoRef = NoRef
    NoJob = NoRef
    Runners = {s1, s2}
    JobKeys = {j1, j2}
    Operations = {o1, o2}
    Price <- SmallPrice
    Sessions = {s1, s2}
    Tenants = {t1, t2}
    Invoices = {i1}
    CaptureKeys = {k1}
    RefundKeys = {r1, r2}
    Intakes = {n1}
    OrgTenant = t1
    Amounts = {1, 2}
    Total = 2
    MaxCommands = 4
    MaxRuns = 3
SPECIFICATION BillingSpec
CHECK_DEADLOCK FALSE
INVARIANTS
    BillingBooksMatch
    
PROPERTIES
    
    
    ClosedStaysClosed
