----------------------------- MODULE MCPortSlot -----------------------------
EXTENDS PortSlot, TLC
Sym == Permutations(Conns) \cup Permutations(Addrs)
=============================================================================
