SPECIFICATION AheadSpec
CONSTANTS
    a = a
    b = b
    c = c
    l1 = l1
    e1 = e1
    x1 = x1
    Nodes = {a, b}
    Locations = {l1}
    Entries = {e1}
    Aspects = {x1}
    GossipInterval = 1
    TimeoutThreshold = 1
    Introductions <- Link
    Publishers = {a}
    Listers = {b}
    CanRestart = {a}
    MaxRequests = 1
    StartTimes = {0, 1}
    MaxTime = 2
INVARIANTS
    HeldIsVouched
PROPERTIES
    WrapNeedsSkew
    TimeoutBookkeeping
    Monotonic
    BroadcastReachesKnownPeers
