SPECIFICATION Spec
CONSTANTS
    Comments = {c1, c2, c3}
    Times = {1, 2}
    Readers = {r1, r2}
    Sizes <- MCSizes
    DefaultSize = 2
    MaxSize = 2
    MaxChanges = 3
    None = None
INVARIANTS
    NothingTwice
    NothingSkipped
SYMMETRY Symmetry
CHECK_DEADLOCK FALSE
