\* Two sessions of one client race on one operation; handlers finish well
\* within PendingTTL.
CONSTANTS
    s1 = s1
    s2 = s2
    c1 = c1
    c2 = c2
    h1 = h1
    h2 = h2
    o1 = o1
    o2 = o2
    Sessions = {s1, s2}
    Clients = {c1}
    ClientOf <- SameClient
    Ops = {o1}
    WakeOps = {o1}
    ReadOps = {o1}
    Hosts = {h1, h2}
    PendingTTL = 2
    LedgerTTL = 3
    RetryTTL = 2
    Cooldown = 2
    MaxEntries = 2
    MaxEntriesPerClient = 2
    MaxStatusJobs = 0
    HoldLimit = 1
    MayRestart = TRUE
    MaxTime = 3
    MaxTickets = 2
SYMMETRY Symmetry
SPECIFICATION Spec
INVARIANTS
    TypeOK
    OneHandlerPerOperation
    LifetimesNested
    ReceiptTellsTruth
PROPERTIES
    ImplementsContract
    CooldownHolds
