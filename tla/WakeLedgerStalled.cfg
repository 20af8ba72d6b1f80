\* Handlers and status jobs may stall past PendingTTL, the server may restart,
\* and operation ids are shared between wakes and reads.
CONSTANTS
    s1 = s1
    s2 = s2
    c1 = c1
    c2 = c2
    h1 = h1
    h2 = h2
    o1 = o1
    o2 = o2
    Sessions = {s1, s2}
    Clients = {c1}
    ClientOf <- SameClient
    Ops = {o1}
    WakeOps = {o1}
    ReadOps = {o1}
    Hosts = {h1}
    PendingTTL = 2
    LedgerTTL = 3
    RetryTTL = 2
    Cooldown = 2
    MaxEntries = 2
    MaxEntriesPerClient = 2
    MaxStatusJobs = 1
    HoldLimit = 9
    MayRestart = TRUE
    MaxTime = 4
    MaxTickets = 2
SYMMETRY Symmetry
SPECIFICATION Spec
INVARIANT AtMostOnce
