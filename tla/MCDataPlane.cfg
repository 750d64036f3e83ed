CONSTANTS
    PortStart = 1
    PortEnd = 2
    SessionIds = {s1, s2}
    Servers = {b1}
    Clients = {f1}
    AuthTimeout = 1
    None = None
    SConns = {x1}
    CConns = {y1, y2}
    NoConn = NoConn
    NoPort = NoPort
    TryBound = 2
SYMMETRY Sym
SPECIFICATION Spec
INVARIANTS OnePerRole RunningSessionsListed NoLostPair OccupiedHasSession AdmittedAsGranted
PROPERTIES OnlyOwnTeardownFrees ImplementsUnattendedLease
