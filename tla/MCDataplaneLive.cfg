SPECIFICATION FairSpec
CONSTANTS
    Queries = {"a1", "a2", "sink", "bad"}
    Question <- MCQuestion
    Malformed = {"bad"}
    Sinkholed = {"sinkhole.test"}
    Bootstrap <- MCBootstrap
    Seed <- MCSeed
    IpcOffers <- MCOneOffer
    Ids = {"id1"}
    MaxPending = 1
    PruneAge = 0
    MaxEntries = 1
    AnswerTtl = 1
    MaxTime = 1
    MaxDatagrams = 1
CHECK_DEADLOCK FALSE
PROPERTIES
    QueueDrains
    BlockedIsAnswered
