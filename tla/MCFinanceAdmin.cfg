CONSTANTS
    s1 = s1
    s2 = s2
    i1 = i1
    i2 = i2
    k1 = k1
    k2 = k2
    sla = sla
    NoRequest = NoRequest
    NoCopy = NoCopy
    Sessions = {s1, s2}
    Invoices = {i1}
    Total = 1
    Amounts = {1}
    Keys = {k1}
    SlaKeys = {sla}
    AdminAmounts = {0, 1}
    Preloads = {FALSE}
    Closing = {"DAILY"}
SPECIFICATION FairSpec
INVARIANTS
    ReconciliationNeverRefuses
PROPERTIES
    AllocatingRestoresCoverage
    OperationEnds
