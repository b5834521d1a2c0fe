SPECIFICATION MailSpec
CONSTANTS
    Mails = {r1, r2, r3, r4}
    DailyLimit = 1
    MaxDay = 2
    MaxRestarts = 1
INVARIANTS
    CountExact
    SendLimit
    BegunOnce
SYMMETRY Symmetry
CHECK_DEADLOCK FALSE
