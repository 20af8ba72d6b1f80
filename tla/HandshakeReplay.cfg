SPECIFICATION MCSpec
CONSTANTS
    c1 = c1
    c2 = c2
    m1 = m1
    m2 = m2
    m3 = m3
    Threads = {x1, x2}
    Clients = {c1, c2}
    Hellos = {m1, m2, m3}
    OwnerOf <- MCOwners
    Skew = 1
    PendingReplayTTL = 2
    ReplayTTL = 4
    KeyConfirmTimeout = 2
    HoldLimit = 1
    MaxEntries = 2
    MaxEntriesPerClient = 2
    MaxPendingPerClient = 1
    MaxTime = 6
    NoHello = NoHello
SYMMETRY MCSymmetry
INVARIANT
    CacheWithinLimits
PROPERTY
    NoReplayAfterConfirm
\* the clock is bounded
CHECK_DEADLOCK FALSE
