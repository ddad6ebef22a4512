SPECIFICATION Spec
CONSTANTS
    garbage = garbage
    Posts = {"p1"}
    Gets = {}
    Others = {}
    Clients = {"p1"}
    NoClient = "nobody"
    Malformed = garbage
    Bodies <- MCBodies
    Bootstrap <- MCBootstrap
    Backlog = 1
    MaxRead = 14
    MaxBuffer = 20
    Signals = 0
    Outages = 1
CHECK_DEADLOCK FALSE
INVARIANTS
    EndsOnlyWhenTold
