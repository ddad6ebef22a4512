SPECIFICATION FairSpec
CONSTANTS
    Queries = {"a1", "b6"}
    Question <- MCQuestion
    Malformed = {}
    Sinkholed = {"sinkhole.test"}
    Bootstrap <- MCBootstrap
    Seed <- MCSeed
    IpcOffers <- MCOneOffer
    Ids = {"id1", "id2"}
    MaxPending = 1
    PruneAge = 0
    MaxEntries = 1
    AnswerTtl = 1
    MaxTime = 1
    MaxDatagrams = 0
CHECK_DEADLOCK FALSE
PROPERTIES
    EveryQueryAnswered
