SPECIFICATION FairSpec
CONSTANTS
    Urls <- MCUrls
    Canon <- MCCanon
    Links <- MCLinks
    Seed = 1
    MaxPages = 2
    MaxDepth = 1
    Base = 2
    Interval = 2
    NoCheckpoint = NoCheckpoint
    Faults = {"signal", "crash", "save", "wedge", "memory"}
    MaxFaults = 1
    MaxRuns = 2
INVARIANTS TypeOK FetchedOnce BudgetKept NothingForgotten DeletedOnlyWhenDone
CHECK_DEADLOCK FALSE
PROPERTIES RunsEnd
