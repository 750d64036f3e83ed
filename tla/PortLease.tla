------------------------------ MODULE PortLease ------------------------------
(***************************************************************************)
(* What a port pool promises, without its data structures and its clock:   *)
(* a port is leased to one session at a time; a tentative lease may lapse, *)
(* a firm one ends only when its holder returns it, unless an operator     *)
(* withdraws the port.                                                     *)
(***************************************************************************)
EXTENDS Integers

CONSTANTS Ports, SessionIds, None

VARIABLE lease

Free(kind) == [kind |-> kind, sid |-> None]

Lease ==    {Free("free"), Free("withdrawn")}
       \cup [kind : {"tentative", "firm"}, sid : SessionIds]

Init == lease = [p \in Ports |-> Free("free")]

\* A free port is leased to a session, tentatively.
Grant(p, s) ==
    /\ lease[p].kind = "free"
    /\ lease' = [lease EXCEPT ![p] = [kind |-> "tentative", sid |-> s]]

\* The holder confirms its lease.
Confirm(p, s) ==
    /\ lease[p] = [kind |-> "tentative", sid |-> s]
    /\ lease' = [lease EXCEPT ![p] = [kind |-> "firm", sid |-> s]]

\* The holder gives the port back.
Return(p, s) ==
    /\ lease[p].kind \in {"tentative", "firm"} /\ lease[p].sid = s
    /\ lease' = [lease EXCEPT ![p] = Free("free")]

\* Tentative leases, and only those, run out.
Lapse(P) ==
    /\ \A p \in P : lease[p].kind = "tentative"
    /\ lease' = [p \in Ports |-> IF p \in P THEN Free("free") ELSE lease[p]]

\* An operator takes the port out of service, or forces it free.
Withdraw(p, kind) == lease' = [lease EXCEPT ![p] = Free(kind)]

Next ==
    \/ \E p \in Ports, s \in SessionIds : Grant(p, s) \/ Confirm(p, s) \/ Return(p, s)
    \/ \E P \in SUBSET Ports : Lapse(P)
    \/ \E p \in Ports, kind \in {"free", "withdrawn"} : Withdraw(p, kind)

Spec == Init /\ [][Next]_lease

-----------------------------------------------------------------------------
(* The same promise where no operator intervenes: the running gateway       *)
(* itself never calls Block and never releases with an empty session id.   *)
NextUnattended ==
    \/ \E p \in Ports, s \in SessionIds : Grant(p, s) \/ Confirm(p, s) \/ Return(p, s)
    \/ \E P \in SUBSET Ports : Lapse(P)

SpecUnattended == Init /\ [][NextUnattended]_lease
=============================================================================
