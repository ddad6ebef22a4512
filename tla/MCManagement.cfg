SPECIFICATION Spec
CONSTANTS
    garbage = garbage
    Posts = {"p1", "p2"}
    Gets = {"g1"}
    Others = {}
    Clients = {"p1", "p2", "g1"}
    NoClient = "nobody"
    Malformed = garbage
    Bodies <- MCBodies
    Bootstrap <- MCBootstrap
    Backlog = 1
    MaxRead = 14
    MaxBuffer = 20
    Signals = 1
    Outages = 1
CHECK_DEADLOCK FALSE
INVARIANTS
    TypeOK
    OperatorToldTruth
    StatusSeesActivation
    CountersBalance
    CutDropsWholeLists
PROPERTIES
    ScrapeNeverOverstates
