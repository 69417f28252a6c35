SPECIFICATION FairSpec
CONSTANTS
    c1 = c1  c2 = c2
    Clones = {c1, c2}
    Capacity = 2
    MaxLines = 2
    CanFail = TRUE
INVARIANTS OrderKept FlushBarrier
PROPERTIES CallsReturn
CHECK_DEADLOCK FALSE
