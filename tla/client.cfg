SPECIFICATION Spec
CONSTANTS
    d1 = d1
    d2 = d2
    d3 = d3
    r1 = r1
    r2 = r2
    Domains = {d1, d2, d3}
    PoolSize = 1
    BaseDelay = 1
    MaxDelay = 2
    MaxExp = 2
    Ttl = 2
    MaxTracked = 1
    Requests = {r1, r2}
    UserAgents = 2
    MaxRetries = 1
    MaxGets = 3
    MaxClock = 4
    NoLease = NoLease
SYMMETRY Symmetry
INVARIANTS CooldownBounded MapBounded SendsBounded
PROPERTIES BanHolds
CHECK_DEADLOCK FALSE
