\* Two transports, one of which may bind a second time, and two messages.
SPECIFICATION FairSpec
CONSTANTS
    t1 = t1
    t2 = t2
    m1 = m1
    m2 = m2
    Transports = {t1, t2}
    Messages = {m1, m2}
    Sends <- TwoSends
    Rebinders = {t1}
    Unbinds = {2}
    Starts <- SameStarts
    MaxUrls = 3
INVARIANTS
    QueuesIntact
    PanicNeedsRebind
PROPERTIES
    AcknowledgedIsReceived
    ConnectionsBecomeMutual
CHECK_DEADLOCK FALSE
