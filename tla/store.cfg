SPECIFICATION FairSpec
CONSTANTS
    k1 = k1  k2 = k2  s1 = s1  s2 = s2
    Keys = {k1, k2}
    Sessions = {s1, s2}
    NoRecord = NoRecord
    Unreadable = Unreadable
    None = None
    FirstFiles <- MCAnyFile
    Ties = FALSE
    MaxClock = 2
    MaxFaults = 1
INVARIANTS Acknowledged RenameFinds
PROPERTIES StaleCopyYields BackupFirst AtomicTransactions CallsReturn
