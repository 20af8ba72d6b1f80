SPECIFICATION MCSpec
CONSTANTS
    n1 = n1
    Conns = {n1, n2, n3}
    ip1 = ip1
    ip2 = ip2
    c1 = c1
    c2 = c2
    Ips = {ip1, ip2}
    Clients = {c1, c2}
    Limit <- MCRoomLimit
    ProbeLimit = 1
    ProbesPerConn = 1
    NoIp = NoIp
    NoClient = NoClient
INVARIANTS
    CountersExact
    RoomLeft
PROPERTY
    StopReturnsAll
\* the server may stop
CHECK_DEADLOCK FALSE
