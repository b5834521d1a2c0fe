SPECIFICATION FairSpec
CONSTANTS
    n1 = n1
    n2 = n2
    cpu = cpu
    Names = {n1, n2}
    Conditions = {cpu}
    NoMetric = NoMetric
    Durations = {0, 1}
    Cooldown = 3
    DefaultRules <- MCDefaultRules
    MaxChanges = 1
    Faults = {"webhook", "save", "restart"}
    MaxFaults = 1
    None = None
INVARIANTS
    TypeOK
    ToldRight
PROPERTIES
    AnnouncedOncePerCooldown
    StayingAlertIsAnnounced
    GoneAlertIsResolved
