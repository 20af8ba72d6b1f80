\* What may never happen on a connection, per layer.
SPECIFICATION Safe
CONSTANTS
    h1 = h1
    h2 = h2
    o1 = o1
    Sizes = {1, 2}
    MaxBody = 2
    WireCells = 3
    MaxSeq = 2
    HandshakeTimeout = 1
    FrameIdleTimeout = 1
    Ops = {o1}
    EventCap = 2
    MaxPending = 1
    PendingOpTTL = 2
    WaitTimeout = 1
    ClockSkew = 1
    BackOff <- TwoDelays
    Asks <- TwoAsks
    Labels <- ThreeLabels
    Deadlines = {1, 3}
    MaxTime = 2
    MaxWakes = 2
    Entries <- ThreeCatalogs
    FirstCatalog = 1
    BatchSize = 1
    MaxJobs = 2
    MaxReloads = 2
    MaxLosses = 1
    WriteTimeout = 2
    Sends <- MCSends
    MaxFaults = 1
    Hosts = {h1, h2}
    MaxMessages = 3
    MaxLinks = 2
    MayShutdown = FALSE
    MaxRequests = 3
    MaxRefreshes = 1
SYMMETRY HostSymmetry
INVARIANTS
    OnlyAnswers
    AnsweredWasTold
PROPERTIES
    ConnectionSound
    CatalogSound
\* connections end
CHECK_DEADLOCK FALSE
