SPECIFICATION FairSpec
CONSTANTS
    c1 = c1  c2 = c2  c3 = c3  u1 = u1  u2 = u2  u3 = u3  x = x  y = y
    Calls = {c1, c2, c3}
    Urls = {u1, u2}
    Capacity = 1
    Concurrency = 3
    MaxRetries = 1
    Content <- MCContent
    FileName <- MCHashName
    None = None
INVARIANTS ExcessFits EntriesTracked FilesIntact
PROPERTIES CallsReturn
CHECK_DEADLOCK FALSE
