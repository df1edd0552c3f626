SPECIFICATION FairSpec
CONSTANTS
    a = a
    b = b
    c = c
    l1 = l1
    Nodes = {a, b, c}
    Locations = {l1}
    Entries = {}
    Aspects = {}
    GossipInterval = 0
    TimeoutThreshold = 1
    Introductions <- Star
    Publishers = {}
    Listers = {}
    CanRestart = {}
    MaxRequests = 2
    StartTimes = {0}
    MaxTime = 0
PROPERTIES
    PeersConverge
