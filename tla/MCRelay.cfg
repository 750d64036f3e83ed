CONSTANTS
    Versions = {"V1", "V2", "V2srt", "V2hello"}
    Ports = {1}
    Conns = {c1, c2, c3}
    Loops = {l1, l2}
    Backends = {b1}
    KillBound = 2
    NoConn = NoConn
    NoLoop = NoLoop
    NoPort = NoPort
SPECIFICATION MCSpec
SYMMETRY Sym
INVARIANTS TypeOK ConnectionExclusive OrderlyUntilStopped
