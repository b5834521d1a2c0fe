SPECIFICATION FairSpec
CONSTANTS
    c1 = c1
    c2 = c2
    Comments = {c2}
    Submitted <- OneSubmitted
    Users = {u1}
    Requests = {r1, r2}
    Readers = {r1}
    Workers = {w1, w2}
    Batch = 1
    MaxRetry = 2
    Faults = {"lua", "abort", "publish", "duplicate", "mark", "hot", "pop", "read", "sync", "written", "requeue", "insert", "incr", "ack", "find", "cache", "crash", "shutdown"}
    MaxFaults = 1
    MaxEvents = 3
    None = None
INVARIANTS
    TypeOK
    CountMatchesUsers
    NoLostMarker
    DeltaExact
    DetailFresh
PROPERTIES
    Drains
CHECK_DEADLOCK FALSE
