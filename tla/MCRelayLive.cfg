CONSTANTS
    Versions = {"V1", "V2"}
    Ports = {1}
    Conns = {c1, c2}
    Loops = {l1, l2}
    Backends = {b1}
    KillBound = 2
    NoConn = NoConn
    NoLoop = NoLoop
    NoPort = NoPort
SPECIFICATION MCFairSpec
PROPERTIES AbandonedPortCloses OldLoopsEnd
