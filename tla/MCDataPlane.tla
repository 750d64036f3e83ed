----------------------------- MODULE MCDataPlane -----------------------------
(* Instances of DataPlane.  Session ids and client connections are alike; so    *)
(* are the invariants, the action property and the steps of the lease in them.  *)
EXTENDS DataPlane, TLC

Sym == Permutations(SessionIds) \cup Permutations(CConns)
=============================================================================
