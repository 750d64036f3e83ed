CONSTANTS
    ZStart = 1
    ZEnd = 1
    SStart = 11
    SEnd = 11
    AuthTimeout = 1
    None = None
    Ids = {1}
    Peers = {p1, p2}
    NoPeer = NoPeer
    MaxConnections = 2
    Capacities = {2}
    Requests = {r1, r2}
    MaxAttempts = 2
    Needs <- BothNeeds
    Wants <- NoWants
SPECIFICATION Spec
SYMMETRY Sym
INVARIANTS RegistryConsistent FailedAttemptHoldsNothing
