SPECIFICATION LanFairSpec
CONSTANTS
    n1 = n1
    n2 = n2
    h1 = h1
    h2 = h2
    u1 = u1
    u2 = u2
    u3 = u3
    Hosts = {n1, n2}
    NetworkIds = {h1}
    Urls = {u1, u2, u3}
    OwnRecord <- TwoHosts
    Inserts <- Moves
    DEFAULT_TTL = 2
    READ_BUF_SIZE = 4
    Copies = 1
    ReleaseCopies = 1
    MaxCalls = 1
    MaxFaults = 1
    MaxQueries = 2
    MaxSocket = 2
INVARIANTS
    ReturnedUrlsAreLive
PROPERTIES
    ReceivingNeverForgets
    ReleasedIsForgotten
CHECK_DEADLOCK FALSE
