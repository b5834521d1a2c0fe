SPECIFICATION FairSpec
CONSTANTS
    BornApproved <- BornEither
    Strategies = {"REJECT", "MARK", "LOG_ONLY"}
    AIEnabled = TRUE
    MaxPolls = 2
    Edits = {"touch", "approve", "hide"}
    MaxEdits = 1
    Faults = {"filter", "ai", "update", "poll", "list", "create"}
    MaxFaults = 1
INVARIANTS
    TypeOK
    OneReply
    ReplyOnlyToAdmitted
    PassNeedsReason
PROPERTIES
    Moderated
    Released
CHECK_DEADLOCK FALSE
