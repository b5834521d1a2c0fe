SPECIFICATION FairSpec
CONSTANTS
    Comments = {c1}
    Requests = {r1}
    MaxRetry = 2
    Faults <- EveryFault
    MaxFaults = 2
    MaxEvents = 3
    None = None
INVARIANTS
    TypeOK
    NothingUnapproved
    RowFollowsLog
PROPERTIES
    RejectHides
    ApproveShows
    CatchesUp
CHECK_DEADLOCK FALSE
