CONSTANTS
    Conns = {c1, c2, c3}
    Addrs = {a1, a2, a3}
    None = None
SPECIFICATION Spec
SYMMETRY Sym
INVARIANTS OneSession NobodyWaitsInVain UdpPaired
