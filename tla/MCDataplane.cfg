SPECIFICATION Spec
CONSTANTS
    Queries = {"a1", "a2", "b6"}
    Question <- MCQuestion
    Malformed = {}
    Sinkholed = {"sinkhole.test"}
    Bootstrap <- MCBootstrap
    Seed <- MCSeed
    IpcOffers <- MCTwoOffers
    Ids = {"id1", "id2"}
    MaxPending = 1
    PruneAge = 0
    MaxEntries = 1
    AnswerTtl = 1
    MaxTime = 1
    MaxDatagrams = 1
CHECK_DEADLOCK FALSE
INVARIANTS
    AnsweredAtMostOnce
    AnswerFitsQuery
    ResolvedOnlyIfAllowed
