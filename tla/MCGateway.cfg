SPECIFICATION BesideAMessage
CONSTANTS
    m1 = m1
    m2 = m2
    Sends = {m1, m2}
    GhostTimeout = 1
    RetryTimeout = 1
    RetryInterval = 1
    MaxFetches = 1
INVARIANTS
    TimeoutPanicOnlyAfterError
PROPERTIES
    ImplementsSendService
    EverySendEnds
CHECK_DEADLOCK FALSE
