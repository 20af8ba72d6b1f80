SPECIFICATION MCSpec
CONSTANTS
    s1 = s1
    c1 = c1
    c2 = c2
    h1 = h1
    h2 = h2
    t1 = t1
    t2 = t2
    Clients = {c1, c2}
    Hosts = {h1, h2}
    Targets = {t1, t2}
    NoTarget = NoTarget
    Broken = Broken
    NoHost = NoHost
    Nobody = Nobody
    Boot <- MCBoot
    Sessions = {s1}
    Configs <- MCTargetEdits
    MaxSaves = 1
PROPERTY
    TargetChangeCloses
\* the server may stop
CHECK_DEADLOCK FALSE
