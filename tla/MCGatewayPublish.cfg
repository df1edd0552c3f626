SPECIFICATION Spec
CONSTANTS
    m1 = m1
    m2 = m2
    Sends = {m1}
    GhostTimeout = 2
    RetryTimeout = 2
    RetryInterval = 1
    MaxFetches = 0
INVARIANTS
    NoPublishError
CHECK_DEADLOCK FALSE
