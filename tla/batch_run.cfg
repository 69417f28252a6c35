SPECIFICATION FairSpec
CONSTANTS
    Pages <- MCPages
    Buffer = 1
    Count = 3
    MaxConcurrent = 2
INVARIANTS SpoolComplete DrainKept SuccessIsHonest
PROPERTIES RunEnds
CHECK_DEADLOCK FALSE
