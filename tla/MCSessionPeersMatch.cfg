CONSTANTS
    PortStart = 1
    PortEnd = 1
    SessionIds = {s1, s2}
    Servers = {b1}
    Clients = {f1}
    AuthTimeout = 1
    None = None
    SConns = {x1}
    CConns = {y1}
    NoConn = NoConn
    NoPort = NoPort
    TryBound = 2
SPECIFICATION Spec
INVARIANT SessionPeersMatch
