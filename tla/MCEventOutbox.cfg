CONSTANTS
    e1 = e1
    e2 = e2
    w1 = w1
    w2 = w2
    OutboxEvents = {e1, e2}
    Workers = {w1, w2}
    BatchSize = 2
    MaxRetries = 1
    MaxStamp = 3
    MaxCrashes = 2
SPECIFICATION OutboxFairSpec
INVARIANTS
    OutboxTypeOK
    DuplicatesAreUnrecorded
    GivenUpWhenExhausted
PROPERTIES
    KeepsDeliveryPromise
    EventSettles
