\* Two spaces, a direct message each way.
SPECIFICATION Spec
CONSTANTS
    Spaces = {s1, s2}
    Agents = {a1}
    Authors = {}
    Requests = {r1}
    Incoming = {i1}
    RemoteJoins = {}
    Locations = {}
    OwnName = own
    PeerListTimeout = 2
    MaxCommands = 1
    MaxEvents = 2
    MaxLists = 2
    MaxEntries = 0
SYMMETRY Symmetry
CHECK_DEADLOCK FALSE
INVARIANTS
    RoutesFollowGateways
    EventHasGateway
PROPERTIES
    NoResultWasted
    NoSilentLoss
    SpacesStay
