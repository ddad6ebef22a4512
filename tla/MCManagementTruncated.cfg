SPECIFICATION Spec
CONSTANTS
    garbage = garbage
    Posts = {"p2"}
    Gets = {}
    Others = {}
    Clients = {"p2"}
    NoClient = "nobody"
    Malformed = garbage
    Bodies <- MCBodies
    Bootstrap <- MCBootstrap
    Backlog = 1
    MaxRead = 14
    MaxBuffer = 20
    Signals = 0
    Outages = 0
CHECK_DEADLOCK FALSE
INVARIANTS
    ActivatedIsComplete
