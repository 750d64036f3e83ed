--------------------------- MODULE PortPool_proofs ---------------------------
(***************************************************************************)
(* Proofs about the port pool, for every port range, timeout and set of    *)
(* ids.  PoolInv, the type invariant with AllocIffHeld, is inductive: one  *)
(* lemma per method of the pool says that it is preserved, so that modules *)
(* that call these methods inside larger actions can cite them.            *)
(***************************************************************************)
EXTENDS PortPool, TLAPS

PoolInv == PoolTypeOK /\ AllocIffHeld

\* An allocation made for a session is never mistaken for a missing one.
LEMMA AllocationNotNone ==
    ASSUME NEW a \in Allocation
    PROVE  a # NoAlloc /\ a.sid # None
BY NoneAssumption DEF Allocation, NoAlloc

\* NewPool establishes the invariant.
LEMMA InitPoolInv == InitPool => PoolInv
BY DEF InitPool, PoolInv, PoolTypeOK, AllocIffHeld, PortStatus

\* Reserve preserves it.
LEMMA ReservePreserves ==
    ASSUME PoolInv, NEW p \in Ports, NEW s \in SessionIds,
           NEW srv \in Servers, NEW cli \in Clients, ReserveAt(p, s, srv, cli)
    PROVE  PoolInv'
<1> DEFINE a == [sid |-> s, server |-> srv, client |-> cli, age |-> 0]
<1>1. a \in Allocation
  BY TimeoutAssumption DEF Allocation, Ages
<1>2. a # NoAlloc
  BY <1>1, AllocationNotNone
<1> HIDE DEF a
<1>3. state' = [state EXCEPT ![p] = "Reserved"] /\ alloc' = [alloc EXCEPT ![p] = a]
  BY DEF ReserveAt, a
<1> QED BY <1>1, <1>2, <1>3 DEF PoolInv, PoolTypeOK, AllocIffHeld, PortStatus

\* MarkOccupied preserves it.
LEMMA MarkOccupiedPreserves ==
    ASSUME PoolInv, NEW p \in Ports, NEW s \in SessionIds, MarkOccupied(p, s)
    PROVE  PoolInv'
BY DEF PoolInv, PoolTypeOK, AllocIffHeld, PortStatus, MarkOccupied, ReservedFor, poolVars

\* Release preserves it, forced or not.
LEMMA ReleasePreserves ==
    ASSUME PoolInv, NEW p \in Ports, NEW s, Release(p, s)
    PROVE  PoolInv'
BY DEF PoolInv, PoolTypeOK, AllocIffHeld, PortStatus, Release, poolVars

\* Block preserves it.
LEMMA BlockPreserves ==
    ASSUME PoolInv, NEW p \in Ports, Block(p)
    PROVE  PoolInv'
BY DEF PoolInv, PoolTypeOK, AllocIffHeld, PortStatus, Block

\* Changing the age of an allocation yields an allocation.
LEMMA WithAge ==
    ASSUME NEW a \in Allocation, NEW n \in Ages
    PROVE  [a EXCEPT !.age = n] \in Allocation
BY DEF Allocation

\* A port that is Reserved or Occupied has an allocation.
LEMMA HeldHasAllocation ==
    ASSUME PoolInv, NEW p \in Ports, state[p] \in {"Reserved", "Occupied"}
    PROVE  alloc[p] \in Allocation
BY DEF PoolInv, PoolTypeOK, AllocIffHeld

\* TouchReservation preserves it.
LEMMA TouchPreserves ==
    ASSUME PoolInv, NEW p \in Ports, NEW s, TouchReservation(p, s)
    PROVE  PoolInv'
<1>1. CASE UNCHANGED poolVars
  BY <1>1 DEF PoolInv, PoolTypeOK, AllocIffHeld, poolVars
<1>2. CASE /\ ReservedFor(p, s)
           /\ alloc' = [alloc EXCEPT ![p].age = 0]
           /\ UNCHANGED state
  <2> DEFINE a == [alloc[p] EXCEPT !.age = 0]
  <2>1. a \in Allocation
    BY <1>2, HeldHasAllocation, WithAge, TimeoutAssumption DEF ReservedFor, Ages
  <2>2. a # NoAlloc
    BY <2>1, AllocationNotNone
  <2>3. alloc' = [alloc EXCEPT ![p] = a]
    BY <1>2
  <2> HIDE DEF a
  <2> QED BY <1>2, <2>1, <2>2, <2>3
          DEF PoolInv, PoolTypeOK, AllocIffHeld, PortStatus, ReservedFor
<1> QED BY <1>1, <1>2 DEF TouchReservation

\* ReleaseExpiredReservations preserves it.
LEMMA ExpirePreserves ==
    ASSUME PoolInv, ReleaseExpiredReservations
    PROVE  PoolInv'
BY DEF PoolInv, PoolTypeOK, AllocIffHeld, PortStatus, ReleaseExpiredReservations, Expired

\* The passing of time preserves it.
LEMMA TickPreserves ==
    ASSUME PoolInv, Tick
    PROVE  PoolInv'
<1> DEFINE a(p) == [alloc[p] EXCEPT !.age = Older(alloc[p].age)]
<1>1. ASSUME NEW p \in Ports, state[p] = "Reserved"
      PROVE  a(p) \in Allocation /\ a(p) # NoAlloc
  <2>1. alloc[p] \in Allocation
    BY <1>1, HeldHasAllocation
  <2>2. Older(alloc[p].age) \in Ages
    BY <2>1, TimeoutAssumption DEF Allocation, Ages, Older
  <2>3. a(p) \in Allocation
    BY <2>1, <2>2, WithAge
  <2> QED BY <2>3, AllocationNotNone
<1>2. alloc' = [p \in Ports |-> IF state[p] = "Reserved" THEN a(p) ELSE alloc[p]]
  BY DEF Tick
<1>3. state' = state
  BY DEF Tick
<1> HIDE DEF a
<1> QED BY <1>1, <1>2, <1>3 DEF PoolInv, PoolTypeOK, AllocIffHeld, PortStatus

\* No call, and no tick, takes the pool out of the invariant.
LEMMA NextPoolPreserves == PoolInv /\ [NextPool]_poolVars => PoolInv'
<1> SUFFICES ASSUME PoolInv, [NextPool]_poolVars PROVE PoolInv'
  OBVIOUS
<1>1. CASE UNCHANGED poolVars
  BY <1>1 DEF PoolInv, PoolTypeOK, AllocIffHeld, poolVars
<1>2. ASSUME NEW p \in Ports, NEW s \in SessionIds, NEW srv \in Servers,
             NEW cli \in Clients, ReserveAt(p, s, srv, cli)
      PROVE  PoolInv'
  BY <1>2, ReservePreserves
<1>3. ASSUME NEW p \in Ports, NEW s \in SessionIds,
             MarkOccupied(p, s) \/ TouchReservation(p, s)
      PROVE  PoolInv'
  BY <1>3, MarkOccupiedPreserves, TouchPreserves
<1>4. ASSUME NEW p \in Ports, NEW s \in SessionIds \cup {None}, Release(p, s)
      PROVE  PoolInv'
  BY <1>4, ReleasePreserves
<1>5. ASSUME NEW p \in Ports, Block(p)
      PROVE  PoolInv'
  BY <1>5, BlockPreserves
<1> QED BY <1>1, <1>2, <1>3, <1>4, <1>5, ExpirePreserves, TickPreserves DEF NextPool

\* The pool's invariant holds throughout.
LEMMA PoolInvariant == PoolSpec => []PoolInv
BY InitPoolInv, NextPoolPreserves, PTL DEF PoolSpec

-----------------------------------------------------------------------------
\* The pool's maps keep their types, whatever the sequence of calls.
THEOREM PoolTypeCorrect == PoolSpec => []PoolTypeOK
BY PoolInvariant, PTL DEF PoolInv

\* Exactly the Reserved and the Occupied ports have an allocation entry.
THEOREM MapsInStep == PoolSpec => []AllocIffHeld
BY PoolInvariant, PTL DEF PoolInv

-----------------------------------------------------------------------------
(* The refinement of PortLease, again with one lemma per method.            *)

\* The lease of one port, from its state and its allocation.
LEMMA LeaseOf ==
    ASSUME NEW p \in Ports
    PROVE  /\ Leases[p] = [kind |-> LeaseKind(state[p]), sid |-> alloc[p].sid]
           /\ Leases[p].kind = LeaseKind(state[p])
           /\ Leases[p].sid = alloc[p].sid
BY DEF Leases

\* The methods that change one port change one lease.
LEMMA LeaseUpdate ==
    ASSUME PoolTypeOK, NEW p \in Ports, NEW st \in PortStatus, NEW a,
           state' = [state EXCEPT ![p] = st], alloc' = [alloc EXCEPT ![p] = a]
    PROVE  Leases' = [Leases EXCEPT ![p] = [kind |-> LeaseKind(st), sid |-> a.sid]]
BY DEF PoolTypeOK, Leases

\* What each PortStatus means as a lease.
LEMMA LeaseKinds ==
    /\ LeaseKind("Idle") = "free" /\ LeaseKind("Reserved") = "tentative"
    /\ LeaseKind("Occupied") = "firm" /\ LeaseKind("Blocked") = "withdrawn"
BY DEF LeaseKind

\* Reserve grants a free port.
LEMMA ReserveRefines ==
    ASSUME PoolInv, NEW p \in Ports, NEW s \in SessionIds, NEW srv, NEW cli,
           ReserveAt(p, s, srv, cli)
    PROVE  Abstract!Grant(p, s)
<1>1. Leases[p].kind = "free"
  BY LeaseOf, LeaseKinds DEF ReserveAt, FirstIdle
<1>2. Leases' = [Leases EXCEPT ![p] = [kind |-> "tentative", sid |-> s]]
  BY LeaseUpdate, LeaseKinds DEF ReserveAt, PoolInv, PortStatus
<1> QED BY <1>1, <1>2 DEF Abstract!Grant

\* MarkOccupied confirms the caller's lease, or changes nothing.
LEMMA MarkOccupiedRefines ==
    ASSUME PoolInv, NEW p \in Ports, NEW s \in SessionIds, MarkOccupied(p, s)
    PROVE  Abstract!Confirm(p, s) \/ UNCHANGED Leases
<1>1. CASE UNCHANGED poolVars
  BY <1>1 DEF poolVars, Leases
<1>2. CASE /\ ReservedFor(p, s)
           /\ state' = [state EXCEPT ![p] = "Occupied"]
           /\ UNCHANGED alloc
  <2>1. Leases[p] = [kind |-> "tentative", sid |-> s]
    BY <1>2, LeaseOf, LeaseKinds DEF ReservedFor
  <2>2. alloc' = [alloc EXCEPT ![p] = alloc[p]]
    BY <1>2 DEF PoolInv, PoolTypeOK
  <2>3. Leases' = [Leases EXCEPT ![p] = [kind |-> "firm", sid |-> alloc[p].sid]]
    BY <1>2, <2>2, LeaseUpdate, LeaseKinds, ZenonT(60) DEF PoolInv, PortStatus
  <2> QED BY <1>2, <2>1, <2>3 DEF Abstract!Confirm, ReservedFor
<1> QED BY <1>1, <1>2 DEF MarkOccupied

\* A release under the holder's session id returns the port.
LEMMA ReleaseRefines ==
    ASSUME PoolInv, NEW p \in Ports, NEW s \in SessionIds, Release(p, s)
    PROVE  Abstract!Return(p, s) \/ UNCHANGED Leases
<1>1. CASE UNCHANGED poolVars
  BY <1>1 DEF poolVars, Leases
<1>2. CASE /\ MayRelease(p, s)
           /\ state' = [state EXCEPT ![p] = "Idle"]
           /\ alloc' = [alloc EXCEPT ![p] = NoAlloc]
  <2>1. alloc[p].sid = s /\ alloc[p] # NoAlloc
    BY <1>2, NoneAssumption DEF MayRelease, NoAlloc
  <2>2. state[p] \in {"Reserved", "Occupied"}
    BY <2>1 DEF PoolInv, PoolTypeOK, AllocIffHeld, PortStatus
  <2>3. Leases[p].kind \in {"tentative", "firm"} /\ Leases[p].sid = s
    BY <2>1, <2>2, LeaseOf, LeaseKinds
  <2>4. Leases' = [Leases EXCEPT ![p] = [kind |-> "free", sid |-> None]]
    BY <1>2, LeaseUpdate, LeaseKinds DEF PoolInv, PortStatus, NoAlloc
  <2> QED BY <2>3, <2>4 DEF Abstract!Return, Abstract!Free
<1> QED BY <1>1, <1>2 DEF Release

\* A forced release, and Block, withdraw the port.
LEMMA ForceRefines ==
    ASSUME PoolInv, NEW p \in Ports, Release(p, None) \/ Block(p)
    PROVE  (\E kind \in {"free", "withdrawn"} : Abstract!Withdraw(p, kind)) \/ UNCHANGED Leases
<1>1. CASE UNCHANGED poolVars
  BY <1>1 DEF poolVars, Leases
<1>2. ASSUME NEW st \in {"Idle", "Blocked"}, state' = [state EXCEPT ![p] = st],
             alloc' = [alloc EXCEPT ![p] = NoAlloc]
      PROVE  \E kind \in {"free", "withdrawn"} : Abstract!Withdraw(p, kind)
  <2>1. Leases' = [Leases EXCEPT ![p] = [kind |-> LeaseKind(st), sid |-> None]]
    BY <1>2, LeaseUpdate DEF PoolInv, PortStatus, NoAlloc
  <2> QED BY <2>1, LeaseKinds DEF Abstract!Withdraw, Abstract!Free
<1> QED BY <1>1, <1>2 DEF Release, Block

\* The expiry lets tentative leases lapse, and no other.
LEMMA ExpireRefines ==
    ASSUME PoolInv, ReleaseExpiredReservations
    PROVE  \E P \in SUBSET Ports : Abstract!Lapse(P)
<1> DEFINE P == {p \in Ports : Expired(p)}
<1>1. \A p \in P : Leases[p].kind = "tentative"
  BY LeaseOf, LeaseKinds DEF Expired
<1>2. Leases' = [p \in Ports |-> IF p \in P THEN Abstract!Free("free") ELSE Leases[p]]
  BY LeaseKinds DEF ReleaseExpiredReservations, Leases, Abstract!Free, NoAlloc
<1> QED BY <1>1, <1>2 DEF Abstract!Lapse

\* Neither a touch nor the passing of time moves a port to another session ...
LEMMA TouchKeepsSid ==
    ASSUME PoolInv, NEW p \in Ports, NEW s, TouchReservation(p, s), NEW q \in Ports
    PROVE  alloc'[q].sid = alloc[q].sid
<1>1. CASE UNCHANGED poolVars
  BY <1>1 DEF poolVars
<1>2. CASE /\ ReservedFor(p, s)
           /\ alloc' = [alloc EXCEPT ![p].age = 0]
           /\ UNCHANGED state
  <2>1. alloc[p] \in Allocation
    BY <1>2, HeldHasAllocation DEF ReservedFor
  <2>2. alloc'[p].sid = alloc[p].sid
    BY <1>2, <2>1 DEF PoolInv, PoolTypeOK, Allocation
  <2> QED BY <1>2, <2>2 DEF PoolInv, PoolTypeOK
<1> QED BY <1>1, <1>2 DEF TouchReservation

\* A tick changes no session id.
LEMMA TickKeepsSid ==
    ASSUME PoolInv, Tick, NEW p \in Ports
    PROVE  alloc'[p].sid = alloc[p].sid
<1>1. CASE state[p] = "Reserved"
  <2>1. alloc[p] \in Allocation
    BY <1>1, HeldHasAllocation
  <2>2. alloc'[p] = [alloc[p] EXCEPT !.age = Older(alloc[p].age)]
    BY <1>1 DEF Tick
  <2> QED BY <2>1, <2>2 DEF Allocation
<1>2. CASE state[p] # "Reserved"
  BY <1>2 DEF Tick
<1> QED BY <1>1, <1>2

\* ... so neither changes a lease.
LEMMA TouchRefines ==
    ASSUME PoolInv, NEW p \in Ports, NEW s, TouchReservation(p, s)
    PROVE  UNCHANGED Leases
<1>1. \A q \in Ports : alloc'[q].sid = alloc[q].sid
  BY TouchKeepsSid
<1>2. UNCHANGED state
  BY DEF TouchReservation, poolVars
<1> QED BY <1>1, <1>2 DEF Leases

\* A tick is a stuttering step of the lease.
LEMMA TickRefines ==
    ASSUME PoolInv, Tick
    PROVE  UNCHANGED Leases
<1>1. \A p \in Ports : alloc'[p].sid = alloc[p].sid
  BY TickKeepsSid
<1> QED BY <1>1 DEF Leases, Tick

\* The initial pool is the initial lease: every port is free.
LEMMA InitRefines == InitPool => Abstract!Init
BY LeaseKinds DEF InitPool, Abstract!Init, Abstract!Free, Leases, NoAlloc

\* The pool implements PortLease: for every port range and every sequence of
\* calls a port has one holder, a firm lease never lapses, and a port is
\* granted only when it is free.
THEOREM PoolImplementsLease == PoolSpec => ImplementsLease
<1>1. PoolInv /\ [NextPool]_poolVars => [Abstract!Next]_Leases
  <2> SUFFICES ASSUME PoolInv, [NextPool]_poolVars PROVE [Abstract!Next]_Leases
    OBVIOUS
  <2>1. CASE UNCHANGED poolVars
    BY <2>1 DEF poolVars, Leases
  <2>2. ASSUME NEW p \in Ports, NEW s \in SessionIds, NEW srv \in Servers,
               NEW cli \in Clients, ReserveAt(p, s, srv, cli)
        PROVE  Abstract!Next
    BY <2>2, ReserveRefines DEF Abstract!Next
  <2>3. ASSUME NEW p \in Ports, NEW s \in SessionIds,
               MarkOccupied(p, s) \/ TouchReservation(p, s)
        PROVE  [Abstract!Next]_Leases
    BY <2>3, MarkOccupiedRefines, TouchRefines DEF Abstract!Next
  <2>4. ASSUME NEW p \in Ports, NEW s \in SessionIds \cup {None}, Release(p, s)
        PROVE  [Abstract!Next]_Leases
    <3>1. CASE s \in SessionIds
      BY <2>4, <3>1, ReleaseRefines DEF Abstract!Next
    <3>2. CASE s = None
      BY <2>4, <3>2, ForceRefines DEF Abstract!Next
    <3> QED BY <3>1, <3>2
  <2>5. ASSUME NEW p \in Ports, Block(p)
        PROVE  [Abstract!Next]_Leases
    BY <2>5, ForceRefines DEF Abstract!Next
  <2>6. CASE ReleaseExpiredReservations
    BY <2>6, ExpireRefines DEF Abstract!Next
  <2>7. CASE Tick
    BY <2>7, TickRefines
  <2> QED BY <2>1, <2>2, <2>3, <2>4, <2>5, <2>6, <2>7 DEF NextPool
<1> QED BY <1>1, InitRefines, PoolInvariant, PTL
        DEF PoolSpec, ImplementsLease, Abstract!Spec
=============================================================================
