CONSTANTS
    ZStart = 1
    ZEnd = 1
    SStart = 11
    SEnd = 11
    AuthTimeout = 1
    None = None
    Ids = {1}
    Peers = {p1, p2}
    NoPeer = NoPeer
    MaxConnections = 2
    Capacities = {1}
    Requests = {r1}
    MaxAttempts = 2
    Needs <- AllNeeds
    Wants <- AllWants
SPECIFICATION FairSpec
PROPERTIES RequestsAnswered LostPeersLeave
