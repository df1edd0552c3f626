SPECIFICATION FairSpec
CONSTANTS
    r1 = r1
    r2 = r2
    NoId = NoId
    e1 = e1
    e2 = e2
    Posts <- ClientPosts
    Sends <- EngineMessages
    MaxFails = 1
INVARIANTS
    AnsweredExactlyOnce
    MissedOnlyAfterItsPanic
    AnswersReachTheirMessage
PROPERTIES
    RequestsAreAnswered
CHECK_DEADLOCK FALSE
