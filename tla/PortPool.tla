------------------------------- MODULE PortPool -------------------------------
(***************************************************************************)
(* The port pool of the V4 gateway (src/v4/ports/pool.go).  Every method   *)
(* runs under the pool's own mutex, so each is one atomic action here.     *)
(*                                                                         *)
(* Time: an allocation's ReservedAt is kept as its age in ticks.  The only *)
(* use of ReservedAt is the comparison with maxAge in                      *)
(* ReleaseExpiredReservations, so an age saturates at AuthTimeout + 1, and *)
(* it no longer advances once the port is Occupied.                        *)
(***************************************************************************)
EXTENDS Integers

CONSTANTS
    PortStart, PortEnd,     \* the configured range, both ends included
    SessionIds,             \* what newID() draws from
    Servers, Clients,       \* ids of the backends and frontends
    AuthTimeout,            \* gateway.auth_timeout, in ticks
    None                    \* the empty string: no session, server or client id

\* NewPool rejects any other range.
ASSUME RangeAssumption ==
    /\ PortStart \in Nat /\ PortEnd \in Nat
    /\ 0 < PortStart /\ PortStart <= PortEnd /\ PortEnd <= 65535

\* Config.Validate accepts only positive timeouts.
ASSUME TimeoutAssumption == AuthTimeout \in Nat /\ AuthTimeout > 0

\* newID() and registered ids are never empty.
ASSUME NoneAssumption == None \notin SessionIds \cup Servers \cup Clients

VARIABLES
    state,      \* port -> PortStatus
    alloc       \* port -> Allocation, the zero Allocation when there is none

poolVars == <<state, alloc>>

Ports == PortStart .. PortEnd

PortStatus == {"Idle", "Reserved", "Occupied", "Blocked"}

Ages == 0 .. AuthTimeout + 1

\* A lookup of a missing key in the Go map yields this zero value.
NoAlloc == [sid |-> None, server |-> None, client |-> None, age |-> 0]

Allocation == [sid : SessionIds, server : Servers, client : Clients, age : Ages]

-----------------------------------------------------------------------------
InitPool ==
    /\ state = [p \in Ports |-> "Idle"]
    /\ alloc = [p \in Ports |-> NoAlloc]

\* Faulty variant: the scan does not skip ports reserved for somebody else.
FirstNotOccupied(p) == state[p] \in {"Idle", "Reserved"}

\* Reserve scans the ports in ascending order.
FirstIdle(p) ==
    /\ state[p] = "Idle"
    /\ \A q \in Ports : state[q] = "Idle" => p <= q

ReserveAt(p, s, srv, cli) ==
    /\ FirstIdle(p)
    /\ state' = [state EXCEPT ![p] = "Reserved"]
    /\ alloc' = [alloc EXCEPT ![p] =
                    [sid |-> s, server |-> srv, client |-> cli, age |-> 0]]

\* Reserve returns CodeUnavailable when no port is idle.
NoIdlePort == \A p \in Ports : state[p] # "Idle"

ReservedFor(p, s) == state[p] = "Reserved" /\ alloc[p].sid = s

MarkOccupied(p, s) ==
    \/ /\ ReservedFor(p, s)
       /\ state' = [state EXCEPT ![p] = "Occupied"]
       /\ UNCHANGED alloc
    \/ /\ ~ReservedFor(p, s)
       /\ UNCHANGED poolVars

\* Faulty variant: an Occupied port is not released.
MayReleaseReservedOnly(p, s) == state[p] = "Reserved" /\ (s = None \/ alloc[p].sid = s)

\* Faulty variant: the session id is not compared.
MayReleaseAnySession(p, s) == state[p] # "Idle"

\* s = None forces the release, whoever holds the port.
MayRelease(p, s) == state[p] # "Idle" /\ (s = None \/ alloc[p].sid = s)

Release(p, s) ==
    \/ /\ MayRelease(p, s)
       /\ state' = [state EXCEPT ![p] = "Idle"]
       /\ alloc' = [alloc EXCEPT ![p] = NoAlloc]
    \/ /\ ~MayRelease(p, s)
       /\ UNCHANGED poolVars

Block(p) ==
    /\ state' = [state EXCEPT ![p] = "Blocked"]
    /\ alloc' = [alloc EXCEPT ![p] = NoAlloc]

TouchReservation(p, s) ==
    \/ /\ s # None /\ ReservedFor(p, s)
       /\ alloc' = [alloc EXCEPT ![p].age = 0]
       /\ UNCHANGED state
    \/ /\ s = None \/ ~ReservedFor(p, s)
       /\ UNCHANGED poolVars

\* Faulty variant: the age is not compared.
ExpiredWithoutSession(p) == state[p] = "Reserved" /\ alloc[p].sid = None

Expired(p) ==
    /\ state[p] = "Reserved"
    /\ alloc[p].sid = None \/ alloc[p].age > AuthTimeout

ReleaseExpiredReservations ==
    /\ state' = [p \in Ports |-> IF Expired(p) THEN "Idle" ELSE state[p]]
    /\ alloc' = [p \in Ports |-> IF Expired(p) THEN NoAlloc ELSE alloc[p]]

Older(a) == IF a > AuthTimeout THEN a ELSE a + 1

\* One tick of the clock that time.Now reads.
Tick ==
    /\ alloc' = [p \in Ports |->
                    IF state[p] = "Reserved"
                    THEN [alloc[p] EXCEPT !.age = Older(alloc[p].age)]
                    ELSE alloc[p]]
    /\ UNCHANGED state

-----------------------------------------------------------------------------
(* The pool as a component: any caller, any argument of the right type.     *)
NextPool ==
    \/ \E p \in Ports, s \in SessionIds, srv \in Servers, cli \in Clients :
           ReserveAt(p, s, srv, cli)
    \/ \E p \in Ports, s \in SessionIds : MarkOccupied(p, s) \/ TouchReservation(p, s)
    \/ \E p \in Ports, s \in SessionIds \cup {None} : Release(p, s)
    \/ \E p \in Ports : Block(p)
    \/ ReleaseExpiredReservations
    \/ Tick

PoolSpec == InitPool /\ [][NextPool]_poolVars

-----------------------------------------------------------------------------
\* Type invariant of the pool: state and alloc, as NewPool creates them and
\* every method leaves them.
PoolTypeOK ==
    /\ state \in [Ports -> PortStatus]
    /\ alloc \in [Ports -> Allocation \cup {NoAlloc}]

\* The two maps of the pool stay in step: exactly the Reserved and Occupied
\* ports have an allocation entry.  Allocation(port), which the data plane
\* trusts to admit a connection, reads alloc alone and never looks at state.
AllocIffHeld ==
    \A p \in Ports : alloc[p] = NoAlloc <=> state[p] \in {"Idle", "Blocked"}

\* The lease a pool represents.
LeaseKind(st) ==
    CASE st = "Idle"     -> "free"
      [] st = "Reserved" -> "tentative"
      [] st = "Occupied" -> "firm"
      [] st = "Blocked"  -> "withdrawn"

Leases == [p \in Ports |-> [kind |-> LeaseKind(state[p]), sid |-> alloc[p].sid]]

Abstract == INSTANCE PortLease WITH Ports <- Ports, lease <- Leases

\* The pool implements PortLease: no sequence of calls moves a leased port to
\* another session, and only tentative leases lapse (Reserve, MarkOccupied,
\* Release and ReleaseExpiredReservations against the abstract Grant, Confirm,
\* Return and Lapse).
ImplementsLease == Abstract!Spec
=============================================================================
