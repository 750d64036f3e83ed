---------------------------- MODULE MCPortManagers ----------------------------
(* The port managers of V1 and of V3.  A behaviour is that of either.         *)
EXTENDS PortManager, TLC

CONSTANT Owners      \* the clients of V3
VARIABLES version, leases, leaseOf, leasesOf, late, slot, on, h, raced

V3 == INSTANCE LeaseBook WITH
    Ports <- ZMQ, Clients <- Owners, resv <- leases, byPort <- leaseOf,
    byOwner <- leasesOf, overdue <- late, port <- slot

v3vars == <<leases, leaseOf, leasesOf, late, slot, on, h, raced>>
allVars == <<version, vars, v3vars>>

MCInit == version \in {"V1", "V3"} /\ Init /\ V3!Init

MCNext ==
    /\ UNCHANGED version
    /\ \/ version = "V1" /\ Next /\ UNCHANGED v3vars
       \/ version = "V3" /\ V3!Next /\ UNCHANGED vars

MCSpec == MCInit /\ [][MCNext]_allVars

Sym == Permutations(Sids) \cup Permutations(Owners)

\* V3: no entry names a lease that is over, and a port has one lease unless two
\* handlers had found it free at once, between isPortAvailable and reservePort.
LeasesSound == V3!NoDanglingEntry /\ V3!ExclusiveUnlessRaced
=============================================================================
