SPECIFICATION Spec
CONSTANTS
    c1 = c1
    c2 = c2
    Comments = {c1}
    Submitted <- NoneSubmitted
    Users = {u1}
    Requests = {r1}
    Readers = {}
    Workers = {w1}
    Batch = 1
    MaxRetry = 3
    Faults = {}
    MaxFaults = 0
    MaxEvents = 1
    None = None
INVARIANTS
    SyncRepairsCount
CHECK_DEADLOCK FALSE
