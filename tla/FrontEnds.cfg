SPECIFICATION MCSpec
CONSTANTS
    h1 = h1
    h2 = h2
    o1 = o1
    Hosts = {h1, h2}
    Ops = {o1}
    EventCap = 4
    MaxPending = 1
    PendingOpTTL = 3
    WaitTimeout = 1
    ClockSkew = 1
    BackOff <- MCBackOff
    LedgerTTL = 11
    PendingTTL = 2
    RetryTTL = 4
    ReceiptTimeout = 1
    RecoveryTimeout = 4
    ConnectTimeout = 1
    HoldLimit = 1
    NetDelay = 1
    MaxLosses = 1
    MaxTime = 8
    StartBy = 0
    CatalogTimeout = 1
INVARIANTS
    RetryAfterWait
    RetryHonoured
    OutcomeIsTrue
PROPERTY
    WakeEnds
\* a wake ends
CHECK_DEADLOCK FALSE
