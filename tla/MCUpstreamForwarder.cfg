SPECIFICATION Spec
CONSTANTS
    Queries = {"q1", "q2", "q3"}
    Question <- MCQuestion
    Ids = {1, 2, 3}
    MaxPending = 2
    PruneAge = 1
    MaxTime = 4
INVARIANTS
    TypeOK
    BoundedPending
    AnsweredAtMostOnce
PROPERTIES
    AcceptedAnswersItsQuestion
    YoungTransactionSurvives
