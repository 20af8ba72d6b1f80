SPECIFICATION Spec
CONSTANTS
    i1 = i1
    i2 = i2
    c1 = c1
    c2 = c2
    w1 = w1
    w2 = w2
    Ips = {i1, i2}
    Clients = {c1, c2}
    Sessions <- MCSessions
    Limit = 2
    Window = 5
    MaxKeys = 3
    Lag = 1
    MaxTime = 7
    Width = 4
    Reserved = {12, 13}
    Targets = {2, 6, 10, 14}
    Entries <- MCEntries
    MaxEntries = 3
    Configured = {0, 7, 12}
    PortCounts = {1, 3}
    MinTimeout = 4
    MaxTimeout = 12
    MinPing = 2
    PollStep = 1
    SpawnTime = 2
    Workers = {w1, w2}
    MAX_TERMINAL_LOGS = 2
    Loggers = {w1}
    Fragile = {w1, w2}
    MaxLogs = 1
    MaxPanics = 2
INVARIANTS
    RatesBounded
    LongestPrefixMatch
    SharedBudget
    NothingLost
PROPERTY
    ThreadsEnd
\* a probe and a send end, the clock stops at MaxTime
CHECK_DEADLOCK FALSE
