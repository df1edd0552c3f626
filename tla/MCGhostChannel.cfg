SPECIFICATION FairSpec
CONSTANTS
    r1 = r1
    r2 = r2
    e1 = e1
    Requests = {r1, r2}
    Events = {e1}
    Timeouts = {0}
    MaxTime = 1
INVARIANTS
    LateResponseOnlyAfterTimeout
    NoRequestForgotten
    DisconnectIsFinal
PROPERTIES
    ImplementsRequestResponse
    EveryRequestCompletes
    EveryEventReceived
CHECK_DEADLOCK FALSE
