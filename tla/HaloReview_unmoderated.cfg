SPECIFICATION Spec
CONSTANTS
    BornApproved <- BornEither
    Strategies = {"REJECT"}
    AIEnabled = TRUE
    MaxPolls = 2
    Edits = {}
    MaxEdits = 0
    Faults = {}
    MaxFaults = 0
INVARIANTS
    ReplyOnlyToPassed
CHECK_DEADLOCK FALSE
