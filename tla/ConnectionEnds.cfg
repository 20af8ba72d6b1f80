\* What has to happen on a connection, per layer.
SPECIFICATION Spec
CONSTANTS
    h1 = h1
    h2 = h2
    o1 = o1
    Sizes = {1, 2}
    MaxBody = 2
    WireCells = 3
    MaxSeq = 2
    HandshakeTimeout = 1
    FrameIdleTimeout = 1
    Ops = {o1}
    EventCap = 2
    MaxPending = 1
    PendingOpTTL = 2
    WaitTimeout = 1
    ClockSkew = 1
    BackOff <- TwoDelays
    Asks <- TwoAsks
    Labels <- ThreeLabels
    Deadlines = {1, 3}
    MaxTime = 2
    MaxWakes = 1
    Entries <- ThreeCatalogs
    FirstCatalog = 1
    BatchSize = 1
    MaxJobs = 2
    MaxReloads = 1
    MaxLosses = 1
    WriteTimeout = 1
    Sends <- OneEach
    MaxFaults = 0
    Hosts = {h1}
    MaxMessages = 1
    MaxLinks = 1
    MayShutdown = TRUE
    MaxRequests = 5
    MaxRefreshes = 1
PROPERTIES
    DrippingPeerDropped
    ShutdownEnds
    EveryHostSettles
\* connections end
CHECK_DEADLOCK FALSE
