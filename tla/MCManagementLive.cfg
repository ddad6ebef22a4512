SPECIFICATION FairSpec
CONSTANTS
    garbage = garbage
    Posts = {"p1", "p2"}
    Gets = {}
    Others = {"o1"}
    Clients = {"p1", "p2", "o1"}
    NoClient = "nobody"
    Malformed = garbage
    Bodies <- MCFewBodies
    Bootstrap <- MCBootstrap
    Backlog = 1
    MaxRead = 14
    MaxBuffer = 20
    Signals = 1
    Outages = 1
CHECK_DEADLOCK FALSE
PROPERTIES
    CallsAnswered
    StopReturns
