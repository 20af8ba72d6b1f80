\* Two clients share a full ledger; wakes and reads use the same ids.
CONSTANTS
    s1 = s1
    s2 = s2
    c1 = c1
    c2 = c2
    h1 = h1
    h2 = h2
    o1 = o1
    o2 = o2
    Sessions = {s1, s2}
    Clients = {c1, c2}
    ClientOf <- TwoClients
    Ops = {o1, o2}
    WakeOps = {o1}
    ReadOps = {o1, o2}
    Hosts = {h1}
    PendingTTL = 2
    LedgerTTL = 3
    RetryTTL = 1
    Cooldown = 1
    MaxEntries = 2
    MaxEntriesPerClient = 1
    MaxStatusJobs = 1
    HoldLimit = 1
    MayRestart = FALSE
    MaxTime = 5
    MaxTickets = 1
SPECIFICATION Spec
INVARIANT LedgerBounded
