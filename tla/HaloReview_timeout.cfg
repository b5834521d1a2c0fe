SPECIFICATION Spec
CONSTANTS
    BornApproved <- BornUnapproved
    Strategies = {"REJECT"}
    AIEnabled = TRUE
    MaxPolls = 2
    Edits = {}
    MaxEdits = 0
    Faults = {"filter"}
    MaxFaults = 1
INVARIANTS
    SensitiveNeedsAllow
CHECK_DEADLOCK FALSE
