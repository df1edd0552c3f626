\* One space with an author, one message from the network, one connection.
SPECIFICATION LiveSpec
CONSTANTS
    Spaces = {s1}
    Agents = {a1}
    Authors = {a1}
    Requests = {}
    Incoming = {i1}
    RemoteJoins = {s1}
    Locations = {l1}
    OwnName = own
    PeerListTimeout = 2
    MaxCommands = 1
    MaxEvents = 1
    MaxLists = 2
    MaxEntries = 1
CHECK_DEADLOCK FALSE
PROPERTIES
    IncomingReachesClient
    ProcessReturns
