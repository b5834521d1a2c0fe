SPECIFICATION Spec
CONSTANTS
    Requests = {r1, r2, r3}
    IPs = {ip1}
    Authors = {a1}
    Limit <- Limits
    Window <- Windows
    RandomValues = {n1, n2}
    MaxTime = 3
    MaxFaults = 1
    None = None
INVARIANTS
    TypeOK
    WindowLimit
PROPERTIES
    DeniedOnlyWhenFull
SYMMETRY Symmetry
CHECK_DEADLOCK FALSE
