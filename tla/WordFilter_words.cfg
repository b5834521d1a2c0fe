SPECIFICATION FairSpec
CONSTANTS
    Chars <- MCChars
    Lower <- MCLower
    Blank = " "
    Hash = "#"
    File <- MCFile
    Inputs <- MCInputs
    Contents <- MCContents
    Texts <- MCTexts
    Requests = {q1}
    AIEnabled = TRUE
    MaxWords = 3
    MaxRestarts = 1
INVARIANTS
    TypeOK
    FindsAll
PROPERTIES
    Implements
CHECK_DEADLOCK FALSE
