SPECIFICATION AutoReplySpec
CONSTANTS
    kw = kw
    q1 = q1
    q2 = q2
    q3 = q3
    Ids = {1, 2}
    Requests = {r1, r2}
    Replies = {q1, q2, q3}
    Keywords = {kw}
    Day = 3
    Bodies <- MCBodies
    Patches <- MCPatches
    FirstRules <- MCFirstRules
    MaxChanges = 2
    MaxFaults = 1
    Authors = {a1, a2}
    Settings <- MCSettings
    MaxTime = 3
    MaxRestarts = 1
    Scopes <- MCScopes
    None = None
    Unknown = Unknown
INVARIANTS
    TypeOK
    Acknowledged
    BestRule
    DailyLimits
    CooldownKept
PROPERTIES
    DeletedStaysDeleted
SYMMETRY Symmetry
CHECK_DEADLOCK FALSE
