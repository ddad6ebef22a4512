SPECIFICATION ResponseSpec
CONSTANTS
    Packets <- MCPackets
    MaxBody = 5
    MaxPacket = 40
    MaxDepth = 2
    MaxName = 3
    Rcodes = {2, 3}
    Address <- MCAddress
    Ttl <- MCTtl
CHECK_DEADLOCK FALSE
INVARIANTS
    TypeOK
    QuestionFollowsName
    NameIsNormal
    ReplyRepeatsQuestion
PROPERTIES
    Terminates
