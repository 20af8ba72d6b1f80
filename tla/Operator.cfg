SPECIFICATION Spec
CONSTANTS
    w1 = w1
    w2 = w2
    r1 = r1
    c1 = c1
    c2 = c2
    h1 = h1
    h2 = h2
    o1 = o1
    o2 = o2
    Writers = {w1, w2}
    Removers = {r1}
    Text <- MCText
    Expected = "mine"
    OldText = "stranger"
    NoText = "none"
    MaxCrashes = 1
    Clients = {c1, c2}
    Hosts = {h1, h2}
    MaxActions = 5
    MaxStops = 1
    Me = "user"
    Others = {o1, o2}
    Docs = {c1, c2}
    Junk = "junk"
    MaxCopies = 2
    MaxRows = 2
    MaxSaves = 2
    MaxConnects = 2
    MaxEvents = 2
SYMMETRY Symmetry
INVARIANTS
    DocumentsKept
    CredentialsSound
    ScreensSound
PROPERTIES
    NothingOverwritten
    WritesAtomically
    RepairHarmless
\* calls end, the operator may stop
CHECK_DEADLOCK FALSE
