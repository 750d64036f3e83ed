CONSTANTS
    Owners = {c1, c2}
    ZMQ = {1, 2}
    SRT = {3}
    Frontends = {"f"}
    Backends = {"b"}
    Sids = {s1, s2}
    HookBound = 1
    NoSid = NoSid
SPECIFICATION MCSpec
SYMMETRY Sym
INVARIANTS MapsAgree LossExplained LeasesSound
