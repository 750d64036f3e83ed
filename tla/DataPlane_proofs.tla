--------------------------- MODULE DataPlane_proofs ---------------------------
(***************************************************************************)
(* Proofs about a data-plane server, for every port range, timeout, set of *)
(* session ids and number of connections.  IndInv is inductive: one lemma  *)
(* per action, with a step for each part of IndInv the action can disturb. *)
(***************************************************************************)
EXTENDS DataPlane, PortPool_proofs

-----------------------------------------------------------------------------
(* Facts about the operators of the model.                                  *)

\* A slot's role, which its hello announces, tells the two kinds of slots apart.
LEMMA RoleFacts ==
    /\ \A c \in Conns : Role(c) \in Roles
    /\ \A c \in CConns : c \in Conns /\ Role(c) = "client"
    /\ \A c \in SConns : c \in Conns /\ Role(c) = "server"
    /\ \A c \in Conns : Role(c) = "client" => c \in CConns
    /\ \A c \in Conns : Role(c) = "server" => c \in SConns
BY ConnAssumption DEF Role, Roles, Conns

\* The keys of the pending maps are pairs of a role and a port.
LEMMA SlotFacts ==
    /\ \A r \in Roles, p \in Ports : <<r, p>> \in Slots
    /\ \A x \in Slots : x[1] \in Roles /\ x[2] \in Ports /\ x = <<x[1], x[2]>>
BY DEF Slots

\* nil is no connection, and NoPort no port.
LEMMA NoConnFacts == NoConn \notin Conns /\ NoConn \notin CConns /\ NoPort \notin Ports
BY ConnAssumption DEF Conns

\* Close frees the slots it is applied to and no other.
LEMMA ClosedFacts ==
    ASSUME NEW C, NEW c \in Conns
    PROVE  /\ c \in C => Closed(C)[c] = FreeSlot
           /\ c \notin C => Closed(C)[c] = conn[c]
BY DEF Closed

\* Close keeps the connections well typed.
LEMMA ClosedType ==
    ASSUME TypeOK, NEW C
    PROVE  Closed(C) \in [Conns -> ConnState \cup {FreeSlot}]
BY DEF Closed, TypeOK

\* A connection that is not a free slot is on some port.
LEMMA ConnFacts ==
    ASSUME TypeOK, NEW c \in Conns
    PROVE  /\ conn[c].phase = "free" <=> conn[c] = FreeSlot
           /\ conn[c] # FreeSlot => conn[c].port \in Ports
           /\ conn[c].phase \in {"free", "accepted", "checked", "pending", "paired"}
BY DEF TypeOK, ConnState, FreeSlot

\* A Session object that exists is on some port and has a session id.
LEMMA SessFacts ==
    ASSUME TypeOK, NEW f \in CConns
    PROVE  /\ sess[f].phase = "none" <=> sess[f] = NoSession
           /\ sess[f] # NoSession => /\ sess[f].port \in Ports /\ sess[f].sid \in SessionIds
                                     /\ sess[f].be \in SConns
           /\ sess[f] = NoSession => sess[f].port \notin Ports
           /\ sess[f].phase \in {"none", "start", "run", "stop", "release"}
BY NoConnFacts DEF TypeOK, SessionState, NoSession

\* The server's invariant contains the pool's.
LEMMA InvPool == IndInv => PoolInv
BY DEF IndInv, PoolInv, TypeOK

\* The initial state satisfies the invariant.
LEMMA InitInv == Init => IndInv
<1> SUFFICES ASSUME Init PROVE IndInv
  OBVIOUS
<1> USE DEF Init, InitServer
<1>1. PoolInv
  BY InitPoolInv
<1>2. TypeOK /\ AllocIffHeld
  BY <1>1, ConnAssumption DEF TypeOK, PoolInv, SweepState
<1>3. PendingInv /\ SessionConnInv /\ MapInv
  BY NoConnFacts DEF PendingInv, SessionConnInv, MapInv, RunningSessionsListed,
                     FreeSlot, NoSession, Live
<1>4. WakeInv /\ GrantInv
  BY DEF WakeInv, NoLostPair, BothPending, GrantInv, AdmittedAsGranted, FreeSlot,
         InitPool, Roles, Slots
<1>5. OccupiedHasSession
  BY DEF OccupiedHasSession, InitPool
<1> QED BY <1>2, <1>3, <1>4, <1>5 DEF IndInv

-----------------------------------------------------------------------------
(* The steps that leave the connections and the sessions alone.             *)

\* A step of the pool alone keeps what is said of the server alone.
LEMMA ServerFrame ==
    ASSUME IndInv, UNCHANGED <<conn, pending, tryq, sessions, sess, pairing, ctx>>
    PROVE  (PendingInv /\ SessionConnInv /\ MapInv /\ WakeInv)'
BY DEF IndInv, PendingInv, SessionConnInv, MapInv, WakeInv, RunningSessionsListed,
       NoLostPair, BothPending, Live

\* The parts that only the pool and the hub can disturb.
LEMMA PoolFrame ==
    ASSUME IndInv, UNCHANGED <<state, alloc>>
    PROVE  PoolTypeOK' /\ AllocIffHeld'
BY DEF IndInv, TypeOK, PoolTypeOK, AllocIffHeld

\* The offer behind a connection that passed handleConn's check.
LEMMA GrantOf ==
    ASSUME IndInv, NEW c \in Conns, conn[c].phase \in {"checked", "pending", "paired"}
    PROVE  conn[c].sid \in SessionIds /\ offer[conn[c].sid].st = "granted"
<1>1. /\ conn[c].sid \in SessionIds
      /\ offer[conn[c].sid] = [port |-> conn[c].port, st |-> "granted"]
  BY DEF IndInv, GrantInv, AdmittedAsGranted
<1> QED BY <1>1

\* tryPairOnce's Reserve preserves the invariant: the session id is fresh.
LEMMA HubReserveInv ==
    ASSUME IndInv, NEW s \in SessionIds, HubReserve(s)
    PROVE  IndInv'
<1>1. PICK p \in Ports, srv \in Servers, cli \in Clients :
          /\ ReserveAt(p, s, srv, cli)
          /\ offer' = [offer EXCEPT ![s] = [port |-> p, st |-> "reserved"]]
  BY DEF HubReserve
<1>2. PoolInv'
  BY <1>1, InvPool, ReservePreserves
<1>3. UNCHANGED <<conn, pending, tryq, sessions, sess, pairing, sweep, ctx>> /\ offer[s] = NoOffer
  BY DEF HubReserve
<1>4. TypeOK' /\ AllocIffHeld'
  BY <1>1, <1>2, <1>3 DEF IndInv, TypeOK, PoolInv, Offer
<1>5. (PendingInv /\ SessionConnInv /\ MapInv /\ WakeInv)'
  BY <1>3, ServerFrame
<1>6. AdmittedAsGranted'
  BY <1>1, <1>3 DEF IndInv, GrantInv, AdmittedAsGranted, TypeOK, NoOffer
<1>7. ASSUME NEW q \in Ports, alloc'[q] # NoAlloc
      PROVE  offer'[alloc'[q].sid].port = q
  <2>1. CASE q = p
    BY <1>1, <2>1 DEF ReserveAt, IndInv, TypeOK, PoolTypeOK
  <2>2. CASE q # p
    <3>1. alloc'[q] = alloc[q]
      BY <1>1, <2>2 DEF ReserveAt, IndInv, TypeOK, PoolTypeOK
    <3>2. offer[alloc[q].sid].port = q /\ alloc[q].sid # s
      BY <1>3, <1>7, <3>1, NoConnFacts DEF IndInv, GrantInv, NoOffer
    <3> QED BY <1>1, <3>1, <3>2 DEF IndInv, TypeOK
  <2> QED BY <2>1, <2>2
<1>8. OccupiedHasSession'
  BY <1>1, <1>3 DEF IndInv, OccupiedHasSession, ReserveAt, TypeOK, PoolTypeOK
<1> QED BY <1>4, <1>5, <1>6, <1>7, <1>8 DEF IndInv, GrantInv

\* Sending a grant preserves the invariant.
LEMMA HubGrantInv ==
    ASSUME IndInv, NEW s \in SessionIds, HubGrant(s)
    PROVE  IndInv'
<1> USE DEF HubGrant
<1>1. TypeOK' /\ AllocIffHeld'
  BY PoolFrame DEF IndInv, TypeOK, Offer, NoOffer
<1>2. (PendingInv /\ SessionConnInv /\ MapInv /\ WakeInv)'
  BY ServerFrame
<1>3. \A t \in SessionIds : /\ offer'[t].port = offer[t].port
                            /\ offer[t].st = "granted" => offer'[t] = offer[t]
  BY DEF IndInv, TypeOK, Offer, NoOffer
<1>4. AdmittedAsGranted'
  <2> SUFFICES ASSUME NEW c \in Conns, conn[c].phase \in {"checked", "pending", "paired"}
               PROVE  offer'[conn[c].sid] = offer[conn[c].sid]
    BY DEF IndInv, GrantInv, AdmittedAsGranted
  <2> QED BY <1>3, GrantOf
<1>5. GrantInv'
  <2> SUFFICES ASSUME NEW p \in Ports, alloc[p] # NoAlloc
               PROVE  offer'[alloc[p].sid].port = p
    BY <1>4 DEF GrantInv
  <2>1. alloc[p].sid \in SessionIds
    BY DEF IndInv, TypeOK, PoolTypeOK, Allocation
  <2> QED BY <1>3, <2>1 DEF IndInv, GrantInv
<1>6. OccupiedHasSession'
  BY DEF IndInv, OccupiedHasSession
<1> QED BY <1>1, <1>2, <1>5, <1>6 DEF IndInv

\* What a pool method must do for the rest of the invariant to survive: no
\* allocation moves to another session, and no port becomes Occupied.
LEMMA PoolOnly ==
    ASSUME IndInv, PoolInv', UNCHANGED <<conn, pending, tryq, sessions, sess, pairing, ctx>>,
           \A p \in Ports : alloc'[p] = NoAlloc \/ alloc'[p].sid = alloc[p].sid,
           \A p \in Ports : alloc'[p] # NoAlloc => alloc[p] # NoAlloc,
           \A p \in Ports : state'[p] = "Occupied" => state[p] = "Occupied",
           \A s \in SessionIds : /\ offer'[s].port = offer[s].port
                                 /\ offer[s].st = "granted" => offer'[s] = offer[s],
           offer' \in [SessionIds -> Offer \cup {NoOffer}],
           sweep' \in SweepState
    PROVE  IndInv'
<1>1. TypeOK' /\ AllocIffHeld'
  BY DEF IndInv, TypeOK, PoolInv
<1>2. (PendingInv /\ SessionConnInv /\ MapInv /\ WakeInv)'
  BY ServerFrame
<1>3. AdmittedAsGranted'
  <2> SUFFICES ASSUME NEW c \in Conns, conn[c].phase \in {"checked", "pending", "paired"}
               PROVE  offer'[conn[c].sid] = offer[conn[c].sid]
    BY DEF IndInv, GrantInv, AdmittedAsGranted
  <2> QED BY GrantOf
<1>4. GrantInv'
  <2> SUFFICES ASSUME NEW p \in Ports, alloc'[p] # NoAlloc
               PROVE  offer'[alloc'[p].sid].port = p
    BY <1>3 DEF GrantInv
  <2>1. alloc'[p].sid = alloc[p].sid /\ alloc[p] # NoAlloc /\ alloc[p].sid \in SessionIds
    BY DEF IndInv, TypeOK, PoolTypeOK, Allocation
  <2> QED BY <2>1 DEF IndInv, GrantInv
<1>5. OccupiedHasSession'
  <2> SUFFICES ASSUME NEW p \in Ports, state'[p] = "Occupied"
               PROVE  alloc'[p].sid = alloc[p].sid
    BY DEF IndInv, OccupiedHasSession
  <2> QED BY DEF PoolInv, AllocIffHeld
<1> QED BY <1>1, <1>2, <1>4, <1>5 DEF IndInv

\* tryPairOnce's Release of its own reservation preserves the invariant.
LEMMA HubRollbackInv ==
    ASSUME IndInv, NEW s \in SessionIds, HubRollback(s)
    PROVE  IndInv'
<1>1. offer[s].port \in Ports
  BY DEF HubRollback, IndInv, TypeOK, Offer, NoOffer
<1>2. Release(offer[s].port, s)
  BY DEF HubRollback
<1>3. PoolInv'
  BY <1>1, <1>2, InvPool, ReleasePreserves
<1>4. \A p \in Ports : /\ alloc'[p] = NoAlloc \/ alloc'[p] = alloc[p]
                       /\ state'[p] = "Occupied" => state[p] = "Occupied"
  BY <1>1, <1>2 DEF Release, poolVars, IndInv, TypeOK, PoolTypeOK
<1>5. /\ offer' \in [SessionIds -> Offer \cup {NoOffer}]
      /\ \A t \in SessionIds : /\ offer'[t].port = offer[t].port
                               /\ offer[t].st = "granted" => offer'[t] = offer[t]
  BY DEF HubRollback, IndInv, TypeOK, Offer, NoOffer
<1>6. sweep' \in SweepState
  BY DEF HubRollback, IndInv, TypeOK
<1> QED BY <1>3, <1>4, <1>5, <1>6, PoolOnly DEF HubRollback

\* checkHeartbeats' expiry preserves the invariant: it frees no Occupied port.
LEMMA HeartbeatExpireInv ==
    ASSUME IndInv, HeartbeatExpire
    PROVE  IndInv'
<1>1. ReleaseExpiredReservations /\ UNCHANGED srvVars
  BY DEF HeartbeatExpire
<1>2. PoolInv'
  BY <1>1, InvPool, ExpirePreserves
<1>3. \A p \in Ports : /\ alloc'[p] = NoAlloc \/ alloc'[p] = alloc[p]
                       /\ state'[p] = "Occupied" => state[p] = "Occupied"
  BY <1>1 DEF ReleaseExpiredReservations
<1> QED BY <1>1, <1>2, <1>3, PoolOnly DEF srvVars, IndInv, TypeOK

\* The passing of time preserves the invariant.
LEMMA ClockInv ==
    ASSUME IndInv, Clock
    PROVE  IndInv'
<1>1. Tick /\ UNCHANGED srvVars
  BY DEF Clock
<1>2. PoolInv /\ PoolInv'
  BY <1>1, InvPool, TickPreserves
<1>3. UNCHANGED state
  BY <1>1 DEF Tick
<1>4. \A p \in Ports : alloc'[p] # NoAlloc => alloc[p] # NoAlloc
  BY <1>2, <1>3 DEF PoolInv, AllocIffHeld
<1>5. ASSUME NEW p \in Ports PROVE alloc'[p].sid = alloc[p].sid
  BY <1>1, <1>2, TickKeepsSid
<1> QED BY <1>1, <1>2, <1>3, <1>4, <1>5, PoolOnly DEF srvVars, IndInv, TypeOK

\* maintainPending's TouchReservation preserves the invariant.
LEMMA SweepTouchInv ==
    ASSUME IndInv, SweepTouch
    PROVE  IndInv'
<1>1. sweep.touch.port \in Ports
  BY DEF SweepTouch, IndInv, TypeOK, SweepState
<1>2. TouchReservation(sweep.touch.port, sweep.touch.sid)
  BY DEF SweepTouch
<1>3. PoolInv /\ PoolInv'
  BY <1>1, <1>2, InvPool, TouchPreserves
<1>4. UNCHANGED state
  BY <1>2 DEF TouchReservation, poolVars
<1>5. \A p \in Ports : alloc'[p] # NoAlloc => alloc[p] # NoAlloc
  BY <1>3, <1>4 DEF PoolInv, AllocIffHeld
<1>6. ASSUME NEW p \in Ports PROVE alloc'[p].sid = alloc[p].sid
  BY <1>1, <1>2, <1>3, TouchKeepsSid
<1>7. sweep' \in SweepState
  BY DEF SweepTouch, IndInv, TypeOK, SweepState
<1> QED BY <1>3, <1>4, <1>5, <1>6, <1>7, PoolOnly DEF SweepTouch, IndInv, TypeOK

-----------------------------------------------------------------------------
(* handleConn: steps of one connection.                                     *)

\* A step of a connection that neither waits nor relays.
LEMMA ConnStep ==
    ASSUME IndInv, NEW c \in Conns,
           UNCHANGED <<state, alloc, offer, pending, tryq, sessions, sess, pairing, sweep, ctx>>,
           conn' \in [Conns -> ConnState \cup {FreeSlot}],
           \A d \in Conns : d # c => conn'[d] = conn[d],
           conn[c].phase \notin {"pending", "paired"},
           conn'[c].phase \notin {"pending", "paired"},
           conn[c] = FreeSlot /\ c \in CConns => sess[c] = NoSession,
           conn'[c].phase = "checked" =>
               /\ conn'[c].sid \in SessionIds
               /\ offer[conn'[c].sid] = [port |-> conn'[c].port, st |-> "granted"]
    PROVE  IndInv'
<1>1. TypeOK' /\ AllocIffHeld'
  BY PoolFrame DEF IndInv, TypeOK
<1>2. PendingInv'
  BY RoleFacts, NoConnFacts DEF IndInv, PendingInv, TypeOK
<1>3. SessionConnInv'
  <2>1. ASSUME NEW f \in CConns, Live(f), NEW d \in {f, sess[f].be}
        PROVE  d \in Conns /\ d # c
    BY <2>1, SessFacts, RoleFacts DEF IndInv, SessionConnInv, Live, NoSession
  <2>2. ASSUME NEW f \in CConns, sess[f].phase \in {"stop", "release"}
        PROVE  f \in Conns /\ f # c
    BY <2>2, SessFacts, RoleFacts DEF IndInv, SessionConnInv, NoSession
  <2> QED BY <2>1, <2>2 DEF IndInv, SessionConnInv, Live
<1>4. MapInv' /\ WakeInv'
  BY DEF IndInv, MapInv, WakeInv, RunningSessionsListed, NoLostPair, BothPending
<1>5. GrantInv'
  BY DEF IndInv, GrantInv, AdmittedAsGranted
<1>6. OccupiedHasSession'
  BY DEF IndInv, OccupiedHasSession
<1> QED BY <1>1, <1>2, <1>3, <1>4, <1>5, <1>6 DEF IndInv

\* acceptLoop's new connection preserves the invariant.
LEMMA AcceptInv ==
    ASSUME IndInv, NEW c \in Conns, NEW p \in Ports, Accept(c, p)
    PROVE  IndInv'
<1>1. conn' \in [Conns -> ConnState \cup {FreeSlot}]
  BY DEF Accept, IndInv, TypeOK, ConnState
<1>2. conn'[c].phase = "accepted" /\ \A d \in Conns : d # c => conn'[d] = conn[d]
  BY DEF Accept, IndInv, TypeOK
<1>3. conn[c].phase = "free" /\ (c \in CConns => sess[c] = NoSession)
  BY DEF Accept, FreeSlot
<1> QED BY <1>1, <1>2, <1>3, ConnStep DEF Accept

\* The ways handleConn gives a connection up before it is pending.
LEMMA GiveUpInv ==
    ASSUME IndInv, NEW c \in Conns, conn[c].phase \in {"accepted", "checked"},
           conn' = Closed({c}),
           UNCHANGED <<state, alloc, offer, pending, tryq, sessions, sess, pairing, sweep, ctx>>
    PROVE  IndInv'
<1>1. conn' \in [Conns -> ConnState \cup {FreeSlot}]
  BY ClosedType DEF IndInv
<1>2. conn'[c] = FreeSlot /\ \A d \in Conns : d # c => conn'[d] = conn[d]
  BY ClosedFacts
<1>3. conn[c] # FreeSlot
  BY DEF FreeSlot
<1>4. conn'[c].phase = "free"
  BY <1>2 DEF FreeSlot
<1> QED BY <1>1, <1>2, <1>3, <1>4, ConnStep

\* handleConn's check of the hello preserves the invariant.
LEMMA ReadHelloInv ==
    ASSUME IndInv, NEW c \in Conns, NEW s \in SessionIds, ReadHello(c, s)
    PROVE  IndInv'
<1>1. CASE conn' = Closed({c})
  BY <1>1, GiveUpInv DEF ReadHello
<1>2. CASE HelloAccepted(c, s) /\ conn' = [conn EXCEPT ![c].sid = s, ![c].phase = "checked"]
  <2>1. conn[c] \in ConnState /\ conn[c].phase = "accepted"
    BY DEF ReadHello, IndInv, TypeOK, FreeSlot
  <2>2. /\ conn' \in [Conns -> ConnState \cup {FreeSlot}]
        /\ conn'[c].phase = "checked" /\ conn'[c].sid = s /\ conn'[c].port = conn[c].port
        /\ \A d \in Conns : d # c => conn'[d] = conn[d]
    BY <1>2, <2>1 DEF IndInv, TypeOK, ConnState
  <2>3. alloc[conn[c].port].sid = s /\ conn[c].port \in Ports
    BY <1>2, <2>1 DEF HelloAccepted, ConnState
  <2>4. alloc[conn[c].port] # NoAlloc
    BY <2>3, NoneAssumption DEF NoAlloc
  <2>5. offer[s].port = conn[c].port
    BY <2>3, <2>4 DEF IndInv, GrantInv
  <2>6. offer[s] = [port |-> conn[c].port, st |-> "granted"]
    BY <2>5 DEF ReadHello, IndInv, TypeOK, Offer, NoOffer
  <2>7. conn[c] # FreeSlot
    BY <2>1 DEF FreeSlot
  <2> QED BY <2>1, <2>2, <2>6, <2>7, ConnStep DEF ReadHello
<1> QED BY <1>1, <1>2 DEF ReadHello

\* Offers, allocations and admitted connections keep agreeing when no
\* connection changes its port or its session id.
LEMMA GrantKept ==
    ASSUME IndInv, UNCHANGED <<alloc, offer>>,
           \A c \in Conns :
               conn'[c].phase \in {"checked", "pending", "paired"} =>
                   /\ conn[c].phase \in {"checked", "pending", "paired"}
                   /\ conn'[c].sid = conn[c].sid /\ conn'[c].port = conn[c].port
    PROVE  GrantInv'
BY DEF IndInv, GrantInv, AdmittedAsGranted

\* handleConn's entry into a pending map preserves the invariant.
LEMMA AdmitInv ==
    ASSUME IndInv, NEW c \in Conns, Admit(c)
    PROVE  IndInv'
<1> DEFINE p == conn[c].port
           x == <<Role(c), p>>
<1>1. conn[c] \in ConnState /\ conn[c].phase = "checked" /\ p \in Ports /\ x \in Slots
  BY SlotFacts, RoleFacts DEF Admit, IndInv, TypeOK, FreeSlot, ConnState
<1>2. /\ conn' \in [Conns -> ConnState \cup {FreeSlot}]
      /\ conn'[c].phase = "pending" /\ conn'[c].port = p /\ conn'[c].sid = conn[c].sid
      /\ \A d \in Conns : d # c => conn'[d] = conn[d]
  BY <1>1 DEF Admit, IndInv, TypeOK, ConnState
<1>3. /\ pending'[x] = c /\ pending[x] = NoConn /\ sessions[p] = NoConn
      /\ \A y \in Slots : y # x => pending'[y] = pending[y]
  BY <1>1 DEF Admit, Admissible, IndInv, TypeOK
<1>4. UNCHANGED <<state, alloc, offer, sessions, sess, pairing, sweep, ctx>>
  BY DEF Admit
<1>5. TypeOK' /\ AllocIffHeld'
  <2>1. tryq' \in [Ports -> 0 .. TryBound]
    BY <1>1, ConnAssumption DEF Admit, IndInv, TypeOK
  <2>2. pending' \in [Slots -> Conns \cup {NoConn}]
    BY <1>1 DEF Admit, IndInv, TypeOK
  <2> QED BY <1>2, <1>4, <2>1, <2>2, PoolFrame DEF IndInv, TypeOK
<1>6. PendingInv'
  <2> HIDE DEF x, p
  <2>1. ASSUME NEW y \in Slots, pending'[y] # NoConn
        PROVE  /\ conn'[pending'[y]].phase = "pending"
               /\ y = <<Role(pending'[y]), conn'[pending'[y]].port>>
    <3>1. CASE y = x
      BY <1>2, <1>3, <3>1 DEF x
    <3>2. CASE y # x
      BY <1>1, <1>2, <1>3, <2>1, <3>2 DEF IndInv, PendingInv, TypeOK
    <3> QED BY <3>1, <3>2
  <2>2. ASSUME NEW d \in Conns, conn'[d].phase = "pending"
        PROVE  pending'[<<Role(d), conn'[d].port>>] = d
    <3>1. CASE d = c
      BY <1>2, <1>3, <3>1 DEF x
    <3>2. CASE d # c
      <4>1. conn[d].phase = "pending" /\ conn'[d] = conn[d] /\ conn[d].port \in Ports
        BY <1>2, <2>2, <3>2, ConnFacts DEF IndInv, FreeSlot
      <4>2. pending[<<Role(d), conn[d].port>>] = d /\ <<Role(d), conn[d].port>> \in Slots
        BY <4>1, SlotFacts, RoleFacts DEF IndInv, PendingInv
      <4> QED BY <1>3, <4>1, <4>2, NoConnFacts
    <3> QED BY <3>1, <3>2
  <2> QED BY <2>1, <2>2 DEF PendingInv
<1>7. SessionConnInv'
  <2> HIDE DEF x, p
  <2>1. ASSUME NEW f \in CConns, Live(f), NEW d \in {f, sess[f].be}
        PROVE  d \in Conns /\ d # c
    BY <1>1, <2>1, SessFacts, RoleFacts DEF IndInv, SessionConnInv, Live, NoSession
  <2>2. ASSUME NEW f \in CConns, sess[f].phase \in {"stop", "release"}
        PROVE  f \in Conns /\ f # c
    BY <1>1, <2>2, SessFacts, RoleFacts DEF IndInv, SessionConnInv, FreeSlot
  <2> QED BY <1>1, <1>2, <1>4, <2>1, <2>2 DEF IndInv, SessionConnInv, Live
<1>8. MapInv'
  BY <1>4 DEF IndInv, MapInv, RunningSessionsListed
<1>9. WakeInv'
  <2>1. \A y \in Slots : sessions'[y[2]] # NoConn => pending'[y] = NoConn
    BY <1>1, <1>3, <1>4, SlotFacts DEF IndInv, WakeInv
  <2>2. ASSUME NEW q \in Ports, BothPending(q)' PROVE tryq'[q] > 0
    <3>1. CASE q = p
      BY <1>1, <3>1, ConnAssumption DEF Admit, IndInv, TypeOK
    <3>2. CASE q # p
      <4>1. \A r \in Roles : pending'[<<r, q>>] = pending[<<r, q>>]
        BY <1>3, <3>2, SlotFacts
      <4>2. tryq'[q] = tryq[q]
        BY <1>1, <3>2 DEF Admit, IndInv, TypeOK
      <4> QED BY <2>2, <4>1, <4>2 DEF IndInv, WakeInv, NoLostPair, BothPending
    <3> QED BY <3>1, <3>2
  <2> QED BY <2>1, <2>2 DEF WakeInv, NoLostPair
<1>10. GrantInv'
  BY <1>1, <1>2, <1>4, GrantKept
<1>11. OccupiedHasSession'
  BY <1>4 DEF IndInv, OccupiedHasSession
<1> QED BY <1>5, <1>6, <1>7, <1>8, <1>9, <1>10, <1>11 DEF IndInv

-----------------------------------------------------------------------------
(* tryPair.                                                                 *)

\* What tryPair finds when both peers wait on a port: neither belongs to a
\* session.
LEMMA WaitingPeer ==
    ASSUME IndInv, NEW x \in Slots, pending[x] # NoConn
    PROVE  /\ pending[x] \in Conns /\ conn[pending[x]] \in ConnState
           /\ conn[pending[x]].phase = "pending" /\ conn[pending[x]].port = x[2]
           /\ Role(pending[x]) = x[1]
           /\ pending[x] \in CConns => sess[pending[x]] = NoSession
           /\ \A f \in CConns : Live(f) => sess[f].be # pending[x]
<1> DEFINE c == pending[x]
<1>1. c \in Conns /\ conn[c].phase = "pending" /\ x = <<Role(c), conn[c].port>>
  BY DEF IndInv, PendingInv, TypeOK
<1>2. conn[c] \in ConnState
  BY <1>1 DEF IndInv, TypeOK, FreeSlot
<1>3. conn[c].port = x[2] /\ Role(c) = x[1]
  BY <1>1
<1>4. ASSUME c \in CConns PROVE sess[c] = NoSession
  <2>1. ~Live(c) /\ sess[c].phase \notin {"stop", "release"}
    BY <1>1, <1>4 DEF IndInv, SessionConnInv, FreeSlot
  <2> QED BY <1>4, <2>1, SessFacts DEF IndInv, Live
<1>5. \A f \in CConns : Live(f) => sess[f].be # c
  BY <1>1 DEF IndInv, SessionConnInv
<1> QED BY <1>1, <1>2, <1>3, <1>4, <1>5

\* A tryPair goroutine that runs is one less to run.
LEMMA TryqType ==
    ASSUME IndInv, NEW p \in Ports, tryq[p] > 0, tryq' = [tryq EXCEPT ![p] = @ - 1]
    PROVE  /\ tryq' \in [Ports -> 0 .. TryBound]
           /\ \A q \in Ports : q # p => tryq'[q] = tryq[q]
BY ConnAssumption DEF IndInv, TypeOK

\* tryPair's early returns preserve the invariant.
LEMMA TryPairNothingInv ==
    ASSUME IndInv, NEW p \in Ports, TryPairNothing(p)
    PROVE  IndInv'
<1>1. UNCHANGED <<state, alloc, offer, conn, pending, sessions, sess, pairing, sweep, ctx>>
  BY DEF TryPairNothing
<1>2. /\ tryq' \in [Ports -> 0 .. TryBound]
      /\ \A q \in Ports : q # p => tryq'[q] = tryq[q]
  BY TryqType DEF TryPairNothing
<1>3. TypeOK' /\ AllocIffHeld'
  BY <1>1, <1>2, PoolFrame DEF IndInv, TypeOK
<1>4. PendingInv' /\ SessionConnInv' /\ MapInv' /\ GrantInv' /\ OccupiedHasSession'
  BY <1>1 DEF IndInv, PendingInv, SessionConnInv, MapInv, RunningSessionsListed, GrantInv,
              AdmittedAsGranted, OccupiedHasSession, Live
<1>5. ~BothPending(p)
  <2>1. CASE sessions[p] # NoConn
    BY <2>1, SlotFacts DEF BothPending, IndInv, WakeInv, Roles
  <2> QED BY <2>1 DEF TryPairNothing
<1>6. WakeInv'
  BY <1>1, <1>2, <1>5 DEF IndInv, WakeInv, NoLostPair, BothPending
<1> QED BY <1>3, <1>4, <1>6 DEF IndInv

\* What tryPair leaves of the pending maps of the port and of its wake-ups.
LEMMA WithoutPendingFacts ==
    ASSUME IndInv, NEW p \in Ports, pending' = WithoutPending(p), tryq[p] > 0,
           tryq' = [tryq EXCEPT ![p] = @ - 1],
           \A q \in Ports : q # p => sessions'[q] = sessions[q]
    PROVE  /\ pending' \in [Slots -> Conns \cup {NoConn}]
           /\ \A x \in Slots : x[2] = p => pending'[x] = NoConn
           /\ \A x \in Slots : x[2] # p => pending'[x] = pending[x]
           /\ WakeInv'
<1>1. /\ pending' \in [Slots -> Conns \cup {NoConn}]
      /\ \A x \in Slots : x[2] = p => pending'[x] = NoConn
      /\ \A x \in Slots : x[2] # p => pending'[x] = pending[x]
  BY DEF WithoutPending, IndInv, TypeOK
<1>2. \A x \in Slots : sessions'[x[2]] # NoConn => pending'[x] = NoConn
  BY <1>1, SlotFacts DEF IndInv, WakeInv
<1>3. ASSUME NEW q \in Ports, BothPending(q)' PROVE tryq'[q] > 0
  <2>1. q # p
    BY <1>1, <1>3, SlotFacts DEF BothPending, Roles
  <2>2. \A r \in Roles : pending'[<<r, q>>] = pending[<<r, q>>]
    BY <1>1, <2>1, SlotFacts
  <2>3. tryq'[q] = tryq[q]
    BY <2>1, TryqType
  <2> QED BY <1>3, <2>2, <2>3 DEF IndInv, WakeInv, NoLostPair, BothPending
<1> QED BY <1>1, <1>2, <1>3 DEF WakeInv, NoLostPair

\* The pending maps without one port, when exactly its waiting connections
\* leave the phase "pending".
LEMMA PendingWithout ==
    ASSUME IndInv, NEW p \in Ports, pending' = WithoutPending(p), NEW C,
           C = {pending[<<r, p>>] : r \in Roles},
           \A c \in Conns : c \notin C => conn'[c] = conn[c],
           \A c \in Conns : c \in C => conn'[c].phase # "pending"
    PROVE  PendingInv'
<1>1. /\ \A x \in Slots : x[2] = p => pending'[x] = NoConn
      /\ \A x \in Slots : x[2] # p => pending'[x] = pending[x]
  BY DEF WithoutPending
<1>2. ASSUME NEW x \in Slots, pending'[x] # NoConn
      PROVE  /\ conn'[pending'[x]].phase = "pending"
             /\ x = <<Role(pending'[x]), conn'[pending'[x]].port>>
  <2>1. x[2] # p /\ pending'[x] = pending[x]
    BY <1>1, <1>2
  <2>2. pending[x] \in Conns /\ conn[pending[x]].port = x[2]
    BY <1>2, <2>1, WaitingPeer
  <2>3. ASSUME NEW r \in Roles PROVE pending[x] # pending[<<r, p>>]
    <3>1. CASE pending[<<r, p>>] = NoConn
      BY <3>1, <1>2, <2>1
    <3>2. CASE pending[<<r, p>>] # NoConn
      <4>1. conn[pending[<<r, p>>]].port = p
        BY <3>2, SlotFacts, WaitingPeer
      <4> QED BY <2>1, <2>2, <4>1
    <3> QED BY <3>1, <3>2
  <2>4. conn'[pending[x]] = conn[pending[x]]
    BY <2>2, <2>3
  <2> QED BY <1>2, <2>1, <2>4 DEF IndInv, PendingInv
<1>3. ASSUME NEW c \in Conns, conn'[c].phase = "pending"
      PROVE  pending'[<<Role(c), conn'[c].port>>] = c
  <2>1. c \notin C /\ conn'[c] = conn[c]
    BY <1>3
  <2>2. pending[<<Role(c), conn[c].port>>] = c /\ conn[c].port \in Ports /\ Role(c) \in Roles
    BY <1>3, <2>1, RoleFacts, ConnFacts DEF IndInv, PendingInv, FreeSlot
  <2>3. conn[c].port # p
    BY <2>1, <2>2
  <2>4. <<Role(c), conn[c].port>> \in Slots /\ <<Role(c), conn[c].port>>[2] # p
    BY <2>2, <2>3, SlotFacts
  <2> QED BY <1>1, <2>1, <2>2, <2>4
<1> QED BY <1>2, <1>3 DEF PendingInv

\* tryPair's closing of both peers preserves the invariant.
LEMMA TryPairStaleInv ==
    ASSUME IndInv, NEW p \in Ports, TryPairStale(p)
    PROVE  IndInv'
<1> DEFINE C == {pending[<<r, p>>] : r \in Roles}
<1>1. /\ conn' = Closed(C) /\ pending' = WithoutPending(p)
      /\ tryq[p] > 0 /\ tryq' = [tryq EXCEPT ![p] = @ - 1]
      /\ UNCHANGED <<state, alloc, offer, sessions, sess, pairing, sweep, ctx>>
  BY DEF TryPairStale
<1>2. \A c \in C : c \in Conns /\ conn[c].phase = "pending"
  <2>1. ASSUME NEW r \in Roles
        PROVE  pending[<<r, p>>] \in Conns /\ conn[pending[<<r, p>>]].phase = "pending"
    BY SlotFacts, WaitingPeer DEF TryPairStale, BothPending
  <2> QED BY <2>1
<1> HIDE DEF C
<1>3. \A c \in Conns : conn'[c] = IF c \in C THEN FreeSlot ELSE conn[c]
  BY <1>1, ClosedFacts
<1>4. TypeOK' /\ AllocIffHeld' /\ WakeInv'
  BY <1>1, ClosedType, TryqType, WithoutPendingFacts, PoolFrame DEF IndInv, TypeOK
<1>5. PendingInv'
  <2>1. C = {pending[<<r, p>>] : r \in Roles}
    BY DEF C
  <2>2. \A c \in Conns : /\ c \notin C => conn'[c] = conn[c]
                         /\ c \in C => conn'[c].phase # "pending"
    BY <1>3 DEF FreeSlot
  <2> QED BY <1>1, <2>1, <2>2, PendingWithout
<1>6. SessionConnInv'
  <2>1. ASSUME NEW f \in CConns, Live(f), NEW d \in {f, sess[f].be}
        PROVE  d \in Conns /\ d \notin C
    BY <1>2, <2>1, SessFacts, RoleFacts DEF IndInv, SessionConnInv, Live, NoSession
  <2>2. \A f \in CConns : sess[f].phase \in {"stop", "release"} => conn'[f] = FreeSlot
    BY <1>3, RoleFacts DEF IndInv, SessionConnInv
  <2>3. \A c \in Conns : conn'[c].phase = "paired" => conn[c].phase = "paired"
    BY <1>3 DEF FreeSlot
  <2> QED BY <1>1, <1>3, <2>1, <2>2, <2>3 DEF IndInv, SessionConnInv, Live
<1>7. MapInv' /\ OccupiedHasSession'
  BY <1>1 DEF IndInv, MapInv, RunningSessionsListed, OccupiedHasSession
<1>8. GrantInv'
  BY <1>1, <1>3, GrantKept DEF FreeSlot
<1> QED BY <1>4, <1>5, <1>6, <1>7, <1>8 DEF IndInv

\* tryPair's new session preserves the invariant: the port had none.
LEMMA TryPairSessionInv ==
    ASSUME IndInv, NEW p \in Ports, TryPairSession(p)
    PROVE  IndInv'
<1> DEFINE fe == pending[<<"client", p>>]
           be == pending[<<"server", p>>]
           new == [port |-> p, sid |-> alloc[p].sid, be |-> be, phase |-> "start"]
<1>1. /\ MuFree /\ tryq[p] > 0 /\ sessions[p] = NoConn /\ BothPending(p) /\ alloc[p] # NoAlloc
      /\ conn' = [c \in Conns |-> IF c \in {fe, be}
                                  THEN [conn[c] EXCEPT !.phase = "paired"] ELSE conn[c]]
      /\ pending' = WithoutPending(p)
      /\ tryq' = [tryq EXCEPT ![p] = @ - 1]
      /\ sess' = [sess EXCEPT ![fe] = new]
      /\ sessions' = [sessions EXCEPT ![p] = fe]
      /\ pairing' = fe
      /\ UNCHANGED <<state, alloc, offer, sweep, ctx>>
  BY DEF TryPairSession
<1>2. /\ fe \in Conns /\ conn[fe] \in ConnState /\ conn[fe].phase = "pending"
      /\ conn[fe].port = p /\ Role(fe) = "client"
      /\ fe \in CConns => sess[fe] = NoSession
  <2>1. <<"client", p>> \in Slots /\ pending[<<"client", p>>] # NoConn
    BY <1>1, SlotFacts DEF BothPending, Roles
  <2> QED BY <2>1, WaitingPeer
<1>3. /\ be \in Conns /\ conn[be] \in ConnState /\ conn[be].phase = "pending"
      /\ conn[be].port = p /\ Role(be) = "server"
      /\ \A f \in CConns : Live(f) => sess[f].be # be
  <2>1. <<"server", p>> \in Slots /\ pending[<<"server", p>>] # NoConn
    BY <1>1, SlotFacts DEF BothPending, Roles
  <2> QED BY <2>1, WaitingPeer
<1>4. {fe, be} = {pending[<<r, p>>] : r \in Roles}
  BY DEF Roles
<1> HIDE DEF fe, be
<1>5. fe \in CConns /\ be \in SConns /\ fe # be /\ sess[fe] = NoSession /\ fe # NoConn
  BY <1>2, <1>3, RoleFacts, NoConnFacts
<1>6. new \in SessionState /\ new.port = p /\ new.sid = alloc[p].sid /\ new.be = be
                           /\ new.phase = "start"
  BY <1>1, <1>5 DEF IndInv, TypeOK, PoolTypeOK, Allocation, SessionState
<1> HIDE DEF new
<1>7. /\ conn' \in [Conns -> ConnState \cup {FreeSlot}]
      /\ \A c \in {fe, be} : /\ conn'[c].phase = "paired" /\ conn'[c].port = p
                             /\ conn'[c].sid = conn[c].sid
      /\ \A c \in Conns : c \notin {fe, be} => conn'[c] = conn[c]
  <2>1. ASSUME NEW c \in {fe, be}
        PROVE  /\ conn'[c] \in ConnState /\ conn'[c].phase = "paired" /\ conn'[c].port = p
               /\ conn'[c].sid = conn[c].sid
    <3>1. conn'[c] = [conn[c] EXCEPT !.phase = "paired"] /\ conn[c] \in ConnState
      BY <1>1, <1>2, <1>3
    <3> QED BY <1>2, <1>3, <3>1 DEF ConnState
  <2>2. \A c \in Conns : c \notin {fe, be} => conn'[c] = conn[c]
    BY <1>1
  <2>3. conn' \in [Conns -> ConnState \cup {FreeSlot}]
    BY <1>1, <2>1, <2>2 DEF IndInv, TypeOK
  <2> QED BY <2>1, <2>2, <2>3
<1>8. /\ sess' \in [CConns -> SessionState \cup {NoSession}]
      /\ sess'[fe] = new /\ \A f \in CConns : f # fe => sess'[f] = sess[f]
  BY <1>1, <1>5, <1>6 DEF IndInv, TypeOK
<1>9. /\ sessions' \in [Ports -> CConns \cup {NoConn}]
      /\ sessions'[p] = fe /\ \A q \in Ports : q # p => sessions'[q] = sessions[q]
  BY <1>1, <1>5 DEF IndInv, TypeOK
<1>10. /\ WakeInv' /\ pending' \in [Slots -> Conns \cup {NoConn}]
       /\ tryq' \in [Ports -> 0 .. TryBound]
  BY <1>1, <1>9, WithoutPendingFacts, TryqType
<1>11. TypeOK' /\ AllocIffHeld'
  BY <1>1, <1>5, <1>7, <1>8, <1>9, <1>10, PoolFrame DEF IndInv, TypeOK
<1>12. PendingInv'
  <2>1. \A c \in Conns : /\ c \notin {fe, be} => conn'[c] = conn[c]
                         /\ c \in {fe, be} => conn'[c].phase # "pending"
    BY <1>7
  <2> QED BY <1>1, <1>4, <2>1, PendingWithout
<1>13. \A f \in CConns : Live(f)' <=> f = fe \/ Live(f)
  BY <1>6, <1>8 DEF Live
<1>14. ~Live(fe)
  BY <1>5 DEF Live, NoSession
<1>15. SessionConnInv'
  <2>1. ASSUME NEW f \in CConns, Live(f)', NEW c \in {f, sess'[f].be}
        PROVE  conn'[c].phase = "paired" /\ conn'[c].port = sess'[f].port
    <3>1. CASE f = fe
      BY <1>6, <1>7, <1>8, <2>1, <3>1
    <3>2. CASE f # fe
      <4>1. Live(f) /\ sess'[f] = sess[f] /\ sess[f].be \in SConns
        BY <1>8, <1>13, <2>1, <3>2, SessFacts DEF Live, NoSession, IndInv
      <4>2. conn[c].phase = "paired" /\ conn[c].port = sess[f].port /\ c \in Conns
        BY <2>1, <4>1, RoleFacts DEF IndInv, SessionConnInv
      <4>3. c \notin {fe, be}
        BY <1>2, <1>3, <4>2
      <4> QED BY <1>7, <4>1, <4>2, <4>3
    <3> QED BY <3>1, <3>2
  <2>2. ASSUME NEW c \in Conns, conn'[c].phase = "paired"
        PROVE  \E f \in CConns : Live(f)' /\ c \in {f, sess'[f].be}
    <3>1. CASE c \in {fe, be}
      BY <1>5, <1>6, <1>8, <1>13, <3>1
    <3>2. CASE c \notin {fe, be}
      <4>1. PICK f \in CConns : Live(f) /\ c \in {f, sess[f].be}
        BY <1>7, <2>2, <3>2 DEF IndInv, SessionConnInv
      <4>2. f # fe
        BY <1>14, <4>1
      <4> QED BY <1>8, <1>13, <4>1, <4>2
    <3> QED BY <3>1, <3>2
  <2>3. ASSUME NEW f \in CConns, NEW g \in CConns, Live(f)', Live(g)', sess'[f].be = sess'[g].be
        PROVE  f = g
    <3>1. CASE f # fe /\ g # fe
      BY <1>8, <1>13, <2>3, <3>1 DEF IndInv, SessionConnInv
    <3>2. \A h \in CConns : h # fe /\ Live(h)' => sess'[h].be # be
      BY <1>3, <1>8, <1>13
    <3>3. sess'[fe].be = be
      BY <1>6, <1>8
    <3> QED BY <2>3, <3>1, <3>2, <3>3
  <2>4. ASSUME NEW f \in CConns, sess'[f].phase \in {"stop", "release"}
        PROVE  conn'[f] = FreeSlot
    <3>1. f # fe /\ sess'[f] = sess[f]
      BY <1>6, <1>8, <2>4
    <3>2. conn[f] = FreeSlot /\ f \in Conns
      BY <2>4, <3>1, RoleFacts DEF IndInv, SessionConnInv
    <3>3. f \notin {fe, be}
      BY <1>2, <1>3, <3>2 DEF FreeSlot
    <3> QED BY <1>7, <3>2, <3>3
  <2> QED BY <2>1, <2>2, <2>3, <2>4 DEF SessionConnInv
<1>16. MapInv'
  <2>1. ASSUME ctx # "stopped", NEW f \in CConns, sess'[f].phase \in {"start", "run", "stop"}
        PROVE  sessions'[sess'[f].port] = f
    <3>1. CASE f = fe
      BY <1>6, <1>8, <1>9, <3>1
    <3>2. CASE f # fe
      <4>1. sessions[sess[f].port] = f /\ sess[f].port \in Ports /\ f # NoConn
        BY <1>8, <2>1, <3>2, SessFacts, NoConnFacts
           DEF IndInv, MapInv, RunningSessionsListed, NoSession
      <4> QED BY <1>1, <1>8, <1>9, <3>2, <4>1
    <3> QED BY <3>1, <3>2
  <2>2. ASSUME NEW q \in Ports, sessions'[q] # NoConn
        PROVE  /\ sess'[sessions'[q]].port = q
               /\ sess'[sessions'[q]].phase \in {"start", "run", "stop"}
    <3>1. CASE q = p
      BY <1>6, <1>8, <1>9, <3>1
    <3>2. CASE q # p
      <4>1. /\ sessions[q] \in CConns /\ sess[sessions[q]].port = q
            /\ sess[sessions[q]].phase \in {"start", "run", "stop"}
        BY <1>9, <2>2, <3>2 DEF IndInv, MapInv, TypeOK
      <4>2. sessions[q] # fe
        BY <1>5, <4>1 DEF NoSession
      <4> QED BY <1>8, <1>9, <3>2, <4>1, <4>2
    <3> QED BY <3>1, <3>2
  <2>3. \A f \in CConns : sess'[f].phase = "start" <=> pairing' = f
    <3>1. \A f \in CConns : sess[f].phase # "start"
      BY <1>1, NoConnFacts DEF MuFree, IndInv, MapInv
    <3> QED BY <1>1, <1>6, <1>8, <3>1
  <2> QED BY <1>1, <2>1, <2>2, <2>3 DEF MapInv, RunningSessionsListed
<1>17. GrantInv'
  <2>1. \A c \in Conns :
            conn'[c].phase \in {"checked", "pending", "paired"} =>
                /\ conn[c].phase \in {"checked", "pending", "paired"}
                /\ conn'[c].sid = conn[c].sid /\ conn'[c].port = conn[c].port
    BY <1>2, <1>3, <1>7
  <2> QED BY <1>1, <2>1, GrantKept
<1>18. OccupiedHasSession'
  <2> SUFFICES ASSUME NEW q \in Ports, state[q] = "Occupied"
               PROVE  \E f \in CConns : sess'[f].port = q /\ sess'[f].sid = alloc[q].sid
    BY <1>1 DEF OccupiedHasSession
  <2>1. PICK f \in CConns : sess[f].port = q /\ sess[f].sid = alloc[q].sid
    BY DEF IndInv, OccupiedHasSession
  <2>2. f # fe
    BY <1>5, <2>1, NoConnFacts DEF NoSession
  <2> QED BY <1>8, <2>1, <2>2
<1> QED BY <1>10, <1>11, <1>12, <1>15, <1>16, <1>17, <1>18 DEF IndInv

\* tryPair's MarkOccupied and Start preserve the invariant, error or not.
LEMMA TryPairMarkInv ==
    ASSUME IndInv, TryPairMark
    PROVE  IndInv'
<1> DEFINE p == sess[pairing].port
           s == sess[pairing].sid
<1>1. /\ MarkOccupied(p, s) /\ sess' = [sess EXCEPT ![pairing].phase = "run"]
      /\ pairing # NoConn /\ pairing' = NoConn
      /\ UNCHANGED <<offer, conn, pending, tryq, sessions, sweep, ctx>>
  BY DEF TryPairMark
<1>2. pairing \in CConns /\ sess[pairing] \in SessionState /\ sess[pairing].phase = "start"
  BY <1>1 DEF IndInv, TypeOK, MapInv, NoSession
<1>3. p \in Ports /\ s \in SessionIds
  BY <1>2 DEF SessionState
<1> HIDE DEF p, s
<1>4. PoolInv'
  BY <1>1, <1>3, InvPool, MarkOccupiedPreserves
<1>5. /\ sess' \in [CConns -> SessionState \cup {NoSession}]
      /\ sess'[pairing].phase = "run"
      /\ \A f \in CConns : f # pairing => sess'[f] = sess[f]
      /\ \A f \in CConns : /\ sess'[f].port = sess[f].port /\ sess'[f].sid = sess[f].sid
                           /\ sess'[f].be = sess[f].be
  BY <1>1, <1>2 DEF IndInv, TypeOK, SessionState
<1>6. TypeOK' /\ AllocIffHeld'
  BY <1>1, <1>4, <1>5 DEF IndInv, TypeOK, PoolInv
<1>7. UNCHANGED alloc
  BY <1>1 DEF MarkOccupied, poolVars
<1>8. PendingInv' /\ WakeInv'
  BY <1>1 DEF IndInv, PendingInv, WakeInv, NoLostPair, BothPending
<1>9. SessionConnInv'
  <2>1. \A f \in CConns : /\ Live(f)' <=> Live(f)
                          /\ sess'[f].phase \in {"stop", "release"} <=>
                             sess[f].phase \in {"stop", "release"}
    BY <1>2, <1>5 DEF Live
  <2> QED BY <1>1, <1>5, <2>1 DEF IndInv, SessionConnInv
<1>10. MapInv'
  <2>1. \A f \in CConns : sess'[f].phase \in {"start", "run", "stop"} <=>
                          sess[f].phase \in {"start", "run", "stop"}
    BY <1>2, <1>5
  <2>2. RunningSessionsListed'
    BY <1>1, <1>5, <2>1 DEF IndInv, MapInv, RunningSessionsListed
  <2>3. \A q \in Ports : sessions[q] # NoConn => sessions[q] \in CConns
    BY DEF IndInv, TypeOK
  <2>4. \A q \in Ports : sessions'[q] # NoConn =>
            /\ sess'[sessions'[q]].port = q
            /\ sess'[sessions'[q]].phase \in {"start", "run", "stop"}
    BY <1>1, <1>5, <2>1, <2>3 DEF IndInv, MapInv
  <2>5. \A f \in CConns : sess'[f].phase = "start" <=> pairing' = f
    BY <1>1, <1>5, NoConnFacts DEF IndInv, MapInv
  <2> QED BY <2>2, <2>4, <2>5 DEF MapInv
<1>11. GrantInv'
  BY <1>1, <1>7 DEF IndInv, GrantInv, AdmittedAsGranted
<1>12. OccupiedHasSession'
  <2> SUFFICES ASSUME NEW q \in Ports, state'[q] = "Occupied"
               PROVE  \E f \in CConns : sess[f].port = q /\ sess[f].sid = alloc[q].sid
    BY <1>5, <1>7 DEF OccupiedHasSession
  <2>1. CASE state[q] = "Occupied"
    BY <2>1 DEF IndInv, OccupiedHasSession
  <2>2. CASE state[q] # "Occupied"
    <3>1. q = p /\ alloc[q].sid = s
      BY <1>1, <1>3, <2>2 DEF MarkOccupied, ReservedFor, poolVars, IndInv, TypeOK, PoolTypeOK
    <3> QED BY <1>2, <3>1 DEF p, s
  <2> QED BY <2>1, <2>2
<1> QED BY <1>6, <1>8, <1>9, <1>10, <1>11, <1>12 DEF IndInv

-----------------------------------------------------------------------------
(* The end of a session.                                                    *)

\* Session.Stop preserves the invariant.
LEMMA SessionStopInv ==
    ASSUME IndInv, NEW f \in CConns, SessionStop(f)
    PROVE  IndInv'
<1> DEFINE be == sess[f].be
<1>1. /\ sess[f].phase = "run" /\ sess' = [sess EXCEPT ![f].phase = "stop"]
      /\ conn' = Closed({f, be})
      /\ UNCHANGED <<state, alloc, offer, pending, tryq, sessions, pairing, sweep, ctx>>
  BY DEF SessionStop
<1>2. sess[f] \in SessionState /\ be \in SConns /\ Live(f)
  BY <1>1 DEF IndInv, TypeOK, NoSession, SessionState, Live
<1>3. conn[f].phase = "paired" /\ conn[be].phase = "paired" /\ f \in Conns /\ be \in Conns
  BY <1>2, RoleFacts DEF IndInv, SessionConnInv
<1> HIDE DEF be
<1>4. /\ conn' \in [Conns -> ConnState \cup {FreeSlot}]
      /\ \A c \in Conns : conn'[c] = IF c \in {f, be} THEN FreeSlot ELSE conn[c]
  BY <1>1, ClosedType, ClosedFacts DEF IndInv
<1>5. /\ sess' \in [CConns -> SessionState \cup {NoSession}]
      /\ sess'[f].phase = "stop"
      /\ \A g \in CConns : g # f => sess'[g] = sess[g]
      /\ \A g \in CConns : /\ sess'[g].port = sess[g].port /\ sess'[g].sid = sess[g].sid
                           /\ sess'[g].be = sess[g].be
  BY <1>1, <1>2 DEF IndInv, TypeOK, SessionState
<1>6. TypeOK' /\ AllocIffHeld'
  BY <1>1, <1>4, <1>5, PoolFrame DEF IndInv, TypeOK
<1>7. PendingInv'
  <2>1. \A c \in Conns : /\ conn'[c].phase = "pending" <=> conn[c].phase = "pending"
                         /\ conn'[c].phase = "pending" => conn'[c] = conn[c]
    BY <1>3, <1>4 DEF FreeSlot
  <2>2. \A x \in Slots : pending[x] # NoConn => pending[x] \in Conns
    BY DEF IndInv, TypeOK
  <2> QED BY <1>1, <2>1, <2>2 DEF IndInv, PendingInv
<1>8. SessionConnInv'
  <2>1. \A g \in CConns : Live(g)' <=> g # f /\ Live(g)
    BY <1>5 DEF Live
  <2>2. ASSUME NEW g \in CConns, Live(g), g # f, NEW c \in {g, sess[g].be}
        PROVE  c \in Conns /\ c \notin {f, be}
    <3>1. sess[g].be \in SConns /\ sess[g].be # be
      BY <1>2, <2>2, SessFacts DEF IndInv, SessionConnInv, be, Live, NoSession
    <3> QED BY <1>2, <2>2, <3>1, RoleFacts, ConnAssumption
  <2>3. ASSUME NEW c \in Conns, conn'[c].phase = "paired"
        PROVE  \E g \in CConns : Live(g)' /\ c \in {g, sess'[g].be}
    <3>1. c \notin {f, be} /\ conn[c].phase = "paired"
      BY <1>4, <2>3 DEF FreeSlot
    <3>2. PICK g \in CConns : Live(g) /\ c \in {g, sess[g].be}
      BY <3>1 DEF IndInv, SessionConnInv
    <3>3. g # f
      BY <3>1, <3>2 DEF be
    <3> QED BY <1>5, <2>1, <3>2, <3>3
  <2>4. \A g \in CConns : Live(g)' => \A c \in {g, sess'[g].be} :
            conn'[c].phase = "paired" /\ conn'[c].port = sess'[g].port
    BY <1>4, <1>5, <2>1, <2>2 DEF IndInv, SessionConnInv
  <2>5. \A g, h \in CConns : Live(g)' /\ Live(h)' /\ sess'[g].be = sess'[h].be => g = h
    BY <1>5, <2>1 DEF IndInv, SessionConnInv
  <2>6. \A g \in CConns : sess'[g].phase \in {"stop", "release"} => conn'[g] = FreeSlot
    BY <1>3, <1>4, <1>5, RoleFacts DEF IndInv, SessionConnInv
  <2> QED BY <2>3, <2>4, <2>5, <2>6 DEF SessionConnInv
<1>9. MapInv'
  <2>1. \A g \in CConns : /\ sess'[g].phase \in {"start", "run", "stop"} <=>
                             sess[g].phase \in {"start", "run", "stop"}
                          /\ sess'[g].phase = "start" <=> sess[g].phase = "start"
    BY <1>1, <1>5
  <2>2. \A q \in Ports : sessions[q] # NoConn => sessions[q] \in CConns
    BY DEF IndInv, TypeOK
  <2> QED BY <1>1, <1>5, <2>1, <2>2 DEF IndInv, MapInv, RunningSessionsListed
<1>10. WakeInv'
  BY <1>1 DEF IndInv, WakeInv, NoLostPair, BothPending
<1>11. GrantInv'
  <2>1. \A c \in Conns :
            conn'[c].phase \in {"checked", "pending", "paired"} => conn'[c] = conn[c]
    BY <1>4 DEF FreeSlot
  <2> QED BY <1>1, <2>1, GrantKept
<1>12. OccupiedHasSession'
  BY <1>1, <1>5 DEF IndInv, OccupiedHasSession
<1> QED BY <1>6, <1>7, <1>8, <1>9, <1>10, <1>11, <1>12 DEF IndInv

\* onStop's delete preserves the invariant: until StopAll the entry is its own.
LEMMA OnStopDeleteInv ==
    ASSUME IndInv, NEW f \in CConns, OnStopDelete(f)
    PROVE  IndInv'
<1> DEFINE p == sess[f].port
<1>1. /\ MuFree /\ sess[f].phase = "stop" /\ sess' = [sess EXCEPT ![f].phase = "release"]
      /\ sessions' = [sessions EXCEPT ![p] = NoConn]
      /\ UNCHANGED <<state, alloc, offer, conn, pending, tryq, pairing, sweep, ctx>>
  BY DEF OnStopDelete
<1>2. sess[f] \in SessionState /\ p \in Ports
  BY <1>1 DEF IndInv, TypeOK, NoSession, SessionState
<1> HIDE DEF p
<1>3. /\ sess' \in [CConns -> SessionState \cup {NoSession}]
      /\ sess'[f].phase = "release"
      /\ \A g \in CConns : g # f => sess'[g] = sess[g]
      /\ \A g \in CConns : /\ sess'[g].port = sess[g].port /\ sess'[g].sid = sess[g].sid
                           /\ sess'[g].be = sess[g].be
  BY <1>1, <1>2 DEF IndInv, TypeOK, SessionState
<1>4. /\ sessions' \in [Ports -> CConns \cup {NoConn}] /\ sessions'[p] = NoConn
      /\ \A q \in Ports : q # p => sessions'[q] = sessions[q]
  BY <1>1, <1>2 DEF IndInv, TypeOK
<1>5. TypeOK' /\ AllocIffHeld'
  BY <1>1, <1>3, <1>4, PoolFrame DEF IndInv, TypeOK
<1>6. PendingInv' /\ GrantInv'
  BY <1>1 DEF IndInv, PendingInv, GrantInv, AdmittedAsGranted
<1>7. SessionConnInv'
  <2>1. \A g \in CConns : /\ Live(g)' <=> Live(g)
                          /\ sess'[g].phase \in {"stop", "release"} <=>
                             sess[g].phase \in {"stop", "release"}
    BY <1>1, <1>3 DEF Live
  <2> QED BY <1>1, <1>3, <2>1 DEF IndInv, SessionConnInv
<1>8. MapInv'
  <2>1. ASSUME ctx # "stopped", NEW g \in CConns, sess'[g].phase \in {"start", "run", "stop"}
        PROVE  sessions'[sess'[g].port] = g
    <3>1. g # f /\ sess'[g] = sess[g]
      BY <1>3, <2>1
    <3>2. sessions[sess[g].port] = g /\ sess[g].port \in Ports
      BY <2>1, <3>1, SessFacts DEF IndInv, MapInv, RunningSessionsListed, NoSession
    <3>3. sessions[p] = f
      BY <1>1, <2>1 DEF IndInv, MapInv, RunningSessionsListed, p
    <3> QED BY <1>4, <3>1, <3>2, <3>3
  <2>2. ASSUME NEW q \in Ports, sessions'[q] # NoConn
        PROVE  /\ sess'[sessions'[q]].port = q
               /\ sess'[sessions'[q]].phase \in {"start", "run", "stop"}
    <3>1. q # p /\ sessions'[q] = sessions[q] /\ sessions[q] \in CConns
      BY <1>4, <2>2 DEF IndInv, TypeOK
    <3>2. sess[sessions[q]].port = q /\ sess[sessions[q]].phase \in {"start", "run", "stop"}
      BY <2>2, <3>1 DEF IndInv, MapInv
    <3>3. sessions[q] # f
      BY <3>1, <3>2 DEF p
    <3> QED BY <1>3, <3>1, <3>2, <3>3
  <2>3. \A g \in CConns : sess'[g].phase = "start" <=> pairing' = g
    BY <1>1, <1>3 DEF IndInv, MapInv
  <2> QED BY <1>1, <2>1, <2>2, <2>3 DEF MapInv, RunningSessionsListed
<1>9. WakeInv'
  BY <1>1, <1>4, SlotFacts DEF IndInv, WakeInv, NoLostPair, BothPending
<1>10. OccupiedHasSession'
  BY <1>1, <1>3 DEF IndInv, OccupiedHasSession
<1> QED BY <1>5, <1>6, <1>7, <1>8, <1>9, <1>10 DEF IndInv

\* onStop's Release preserves the invariant: only its own allocation goes.
LEMMA OnStopReleaseInv ==
    ASSUME IndInv, NEW f \in CConns, OnStopRelease(f)
    PROVE  IndInv'
<1> DEFINE p == sess[f].port
           s == sess[f].sid
<1>1. /\ sess[f].phase = "release" /\ Release(p, s) /\ sess' = [sess EXCEPT ![f] = NoSession]
      /\ UNCHANGED <<offer, conn, pending, tryq, sessions, pairing, sweep, ctx>>
  BY DEF OnStopRelease
<1>2. p \in Ports /\ s \in SessionIds
  BY <1>1 DEF IndInv, TypeOK, NoSession, SessionState
<1> HIDE DEF p, s
<1>3. PoolInv'
  BY <1>1, <1>2, InvPool, ReleasePreserves
<1>4. /\ sess' \in [CConns -> SessionState \cup {NoSession}] /\ sess'[f] = NoSession
      /\ \A g \in CConns : g # f => sess'[g] = sess[g]
  BY <1>1 DEF IndInv, TypeOK
<1>5. TypeOK' /\ AllocIffHeld'
  BY <1>1, <1>3, <1>4 DEF IndInv, TypeOK, PoolInv
<1>6. PendingInv' /\ WakeInv'
  BY <1>1 DEF IndInv, PendingInv, WakeInv, NoLostPair, BothPending
<1>7. SessionConnInv'
  <2>1. \A g \in CConns : /\ Live(g)' <=> Live(g)
                          /\ Live(g) => g # f
                          /\ sess'[g].phase \in {"stop", "release"} =>
                             sess[g].phase \in {"stop", "release"}
    BY <1>1, <1>4 DEF Live, NoSession
  <2> QED BY <1>1, <1>4, <2>1 DEF IndInv, SessionConnInv
<1>8. MapInv'
  <2>1. \A g \in CConns : sess'[g].phase \in {"start", "run", "stop"} =>
                          g # f /\ sess'[g] = sess[g]
    BY <1>4 DEF NoSession
  <2>2. \A q \in Ports : sessions[q] # NoConn => sessions[q] \in CConns /\ sessions[q] # f
    BY <1>1 DEF IndInv, TypeOK, MapInv
  <2>3. RunningSessionsListed'
    BY <1>1, <2>1 DEF IndInv, MapInv, RunningSessionsListed
  <2>4. \A q \in Ports : sessions'[q] # NoConn =>
            /\ sess'[sessions'[q]].port = q
            /\ sess'[sessions'[q]].phase \in {"start", "run", "stop"}
    BY <1>1, <1>4, <2>2 DEF IndInv, MapInv
  <2>5. \A g \in CConns : sess'[g].phase = "start" <=> pairing' = g
    BY <1>1, <1>4 DEF IndInv, MapInv, NoSession
  <2> QED BY <2>3, <2>4, <2>5 DEF MapInv
<1>9. \A q \in Ports : /\ alloc'[q] = NoAlloc \/ alloc'[q] = alloc[q]
                       /\ state'[q] = "Occupied" => state[q] = "Occupied" /\ alloc'[q] = alloc[q]
                       /\ state'[q] = "Occupied" /\ q = p => alloc[q].sid # s
  BY <1>1, <1>2 DEF Release, MayRelease, poolVars, IndInv, TypeOK, PoolTypeOK
<1>10. GrantInv'
  BY <1>1, <1>9 DEF IndInv, GrantInv, AdmittedAsGranted
<1>11. OccupiedHasSession'
  <2> SUFFICES ASSUME NEW q \in Ports, state'[q] = "Occupied"
               PROVE  \E g \in CConns : sess'[g].port = q /\ sess'[g].sid = alloc'[q].sid
    BY DEF OccupiedHasSession
  <2>1. PICK g \in CConns : sess[g].port = q /\ sess[g].sid = alloc[q].sid
    BY <1>9 DEF IndInv, OccupiedHasSession
  <2>2. g # f
    BY <1>9, <2>1 DEF p, s
  <2> QED BY <1>4, <1>9, <2>1, <2>2
<1> QED BY <1>5, <1>6, <1>7, <1>8, <1>10, <1>11 DEF IndInv

-----------------------------------------------------------------------------
(* maintainPending and the shutdown.                                        *)

\* The start of maintainPending preserves the invariant.
LEMMA SweepStartInv ==
    ASSUME IndInv, SweepStart
    PROVE  IndInv'
<1>1. UNCHANGED <<state, alloc, offer, conn, pending, tryq, sessions, sess, pairing, ctx>>
  BY DEF SweepStart
<1>2. sweep' \in SweepState
  BY DEF SweepStart, IndInv, TypeOK, SweepState
<1>3. TypeOK' /\ AllocIffHeld'
  BY <1>1, <1>2, PoolFrame DEF IndInv, TypeOK
<1>4. (PendingInv /\ SessionConnInv /\ MapInv /\ WakeInv)'
  BY <1>1, ServerFrame
<1>5. GrantInv' /\ OccupiedHasSession'
  BY <1>1 DEF IndInv, GrantInv, AdmittedAsGranted, OccupiedHasSession
<1> QED BY <1>3, <1>4, <1>5 DEF IndInv

\* maintainPending's look at one entry preserves the invariant.
LEMMA SweepVisitInv ==
    ASSUME IndInv, NEW x \in Slots, SweepVisit(x)
    PROVE  IndInv'
<1>1. UNCHANGED <<state, alloc, offer, tryq, sessions, sess, pairing, ctx>>
  BY DEF SweepVisit
<1>2. OccupiedHasSession' /\ MapInv' /\ PoolTypeOK' /\ AllocIffHeld'
  BY <1>1, PoolFrame DEF IndInv, OccupiedHasSession, MapInv, RunningSessionsListed
<1>3. CASE /\ alloc[x[2]] # NoAlloc
           /\ sweep' = [todo  |-> sweep.todo \ {x},
                        touch |-> [port |-> x[2], sid |-> alloc[x[2]].sid]]
           /\ UNCHANGED <<conn, pending>>
  <2>1. sweep' \in SweepState
    BY <1>3, SlotFacts DEF IndInv, TypeOK, PoolTypeOK, Allocation, SweepState
  <2>2. TypeOK'
    BY <1>1, <1>2, <1>3, <2>1 DEF IndInv, TypeOK
  <2>3. (PendingInv /\ SessionConnInv /\ MapInv /\ WakeInv)'
    BY <1>1, <1>3, ServerFrame
  <2>4. GrantInv'
    BY <1>1, <1>3 DEF IndInv, GrantInv, AdmittedAsGranted
  <2> QED BY <1>2, <2>2, <2>3, <2>4 DEF IndInv
<1>4. CASE /\ conn' = Closed({pending[x]})
           /\ pending' = [pending EXCEPT ![x] = NoConn]
           /\ sweep' = [sweep EXCEPT !.todo = @ \ {x}]
  <2>1. sweep' \in SweepState
    BY <1>4 DEF IndInv, TypeOK, SweepState
  <2>2. /\ conn' \in [Conns -> ConnState \cup {FreeSlot}]
        /\ \A c \in Conns : conn'[c] = IF c = pending[x] THEN FreeSlot ELSE conn[c]
    BY <1>4, ClosedType, ClosedFacts DEF IndInv
  <2>3. /\ pending' \in [Slots -> Conns \cup {NoConn}] /\ pending'[x] = NoConn
        /\ \A y \in Slots : y # x => pending'[y] = pending[y]
    BY <1>4 DEF IndInv, TypeOK
  <2>4. TypeOK'
    BY <1>1, <1>2, <2>1, <2>2, <2>3 DEF IndInv, TypeOK
  <2>5. \A c \in Conns : c = pending[x] => conn[c].phase = "pending"
    BY NoConnFacts DEF IndInv, PendingInv
  <2>6. PendingInv'
    <3>1. ASSUME NEW y \in Slots, pending'[y] # NoConn
          PROVE  /\ conn'[pending'[y]].phase = "pending"
                 /\ y = <<Role(pending'[y]), conn'[pending'[y]].port>>
      <4>1. y # x /\ pending'[y] = pending[y] /\ pending[y] \in Conns
        BY <2>3, <3>1 DEF IndInv, TypeOK
      <4>2. pending[y] # pending[x]
        <5>1. y = <<Role(pending[y]), conn[pending[y]].port>>
          BY <3>1, <4>1 DEF IndInv, PendingInv
        <5>2. pending[x] # NoConn => x = <<Role(pending[x]), conn[pending[x]].port>>
          BY DEF IndInv, PendingInv
        <5> QED BY <3>1, <4>1, <5>1, <5>2
      <4> QED BY <2>2, <3>1, <4>1, <4>2 DEF IndInv, PendingInv
    <3>2. ASSUME NEW c \in Conns, conn'[c].phase = "pending"
          PROVE  pending'[<<Role(c), conn'[c].port>>] = c
      <4>1. c # pending[x] /\ conn'[c] = conn[c]
        BY <2>2, <3>2 DEF FreeSlot
      <4>2. pending[<<Role(c), conn[c].port>>] = c /\ conn[c].port \in Ports
        BY <3>2, <4>1, ConnFacts DEF IndInv, PendingInv, FreeSlot
      <4>3. <<Role(c), conn[c].port>> \in Slots
        BY <4>2, RoleFacts, SlotFacts
      <4> QED BY <2>3, <4>1, <4>2, <4>3
    <3> QED BY <3>1, <3>2 DEF PendingInv
  <2>7. SessionConnInv'
    <3>1. ASSUME NEW f \in CConns, Live(f), NEW d \in {f, sess[f].be}
          PROVE  d \in Conns /\ d # pending[x]
      BY <2>5, <3>1, SessFacts, RoleFacts DEF IndInv, SessionConnInv, Live, NoSession
    <3>2. \A f \in CConns : sess[f].phase \in {"stop", "release"} => conn'[f] = FreeSlot
      BY <2>2, RoleFacts DEF IndInv, SessionConnInv
    <3>3. \A c \in Conns : conn'[c].phase = "paired" => conn[c].phase = "paired"
      BY <2>2 DEF FreeSlot
    <3> QED BY <1>1, <2>2, <3>1, <3>2, <3>3 DEF IndInv, SessionConnInv, Live
  <2>8. WakeInv'
    BY <1>1, <2>3, SlotFacts DEF IndInv, WakeInv, NoLostPair, BothPending
  <2>9. GrantInv'
    <3>1. \A c \in Conns :
              conn'[c].phase \in {"checked", "pending", "paired"} => conn'[c] = conn[c]
      BY <2>2 DEF FreeSlot
    <3> QED BY <1>1, <3>1, GrantKept
  <2> QED BY <1>2, <2>4, <2>6, <2>7, <2>8, <2>9 DEF IndInv
<1> QED BY <1>3, <1>4 DEF SweepVisit

\* Manager.Stop's cancel preserves the invariant.
LEMMA CancelInv ==
    ASSUME IndInv, Cancel
    PROVE  IndInv'
<1>1. /\ ctx = "run" /\ ctx' = "cancelled"
      /\ UNCHANGED <<state, alloc, offer, conn, pending, tryq, sessions, sess, pairing, sweep>>
  BY DEF Cancel
<1>2. TypeOK' /\ AllocIffHeld'
  BY <1>1, PoolFrame DEF IndInv, TypeOK
<1>3. PendingInv' /\ SessionConnInv' /\ WakeInv' /\ GrantInv' /\ OccupiedHasSession'
  BY <1>1 DEF IndInv, PendingInv, SessionConnInv, WakeInv, NoLostPair, BothPending, GrantInv,
              AdmittedAsGranted, OccupiedHasSession, Live
<1>4. MapInv'
  BY <1>1 DEF IndInv, MapInv, RunningSessionsListed
<1> QED BY <1>2, <1>3, <1>4 DEF IndInv

\* StopAll preserves the invariant.
LEMMA StopAllInv ==
    ASSUME IndInv, StopAll
    PROVE  IndInv'
<1> DEFINE T == {f \in CConns : \E p \in Ports : sessions[p] = f /\ sess[f].phase = "run"}
           C == {pending[x] : x \in Slots} \cup T \cup {sess[f].be : f \in T}
<1>1. /\ ctx = "cancelled" /\ MuFree /\ conn' = Closed(C)
      /\ pending' = [x \in Slots |-> NoConn]
      /\ sess' = [f \in CConns |-> IF f \in T THEN [sess[f] EXCEPT !.phase = "stop"] ELSE sess[f]]
      /\ sessions' = [p \in Ports |-> NoConn] /\ ctx' = "stopped"
      /\ UNCHANGED <<state, alloc, offer, tryq, pairing, sweep>>
  BY DEF StopAll
<1>2. \A f \in CConns : f \in T <=> Live(f)
  <2>1. \A f \in CConns : sess[f].phase # "start"
    BY <1>1, NoConnFacts DEF MuFree, IndInv, MapInv
  <2>2. ASSUME NEW f \in CConns, sess[f].phase = "run"
        PROVE  sessions[sess[f].port] = f /\ sess[f].port \in Ports
    BY <1>1, <2>2, SessFacts DEF IndInv, MapInv, RunningSessionsListed, NoSession
  <2> QED BY <2>1, <2>2 DEF Live
<1>3. \A f \in T : f \in CConns /\ sess[f] \in SessionState
  BY <1>2 DEF IndInv, TypeOK, Live, NoSession
<1>4. \A c \in Conns : conn'[c] = IF c \in C THEN FreeSlot ELSE conn[c]
  BY <1>1, ClosedFacts
<1>5. \A c \in Conns : conn'[c].phase \notin {"pending", "paired"}
  <2> SUFFICES ASSUME NEW c \in Conns, conn[c].phase \in {"pending", "paired"}
               PROVE  c \in C
    BY <1>4 DEF FreeSlot
  <2>1. CASE conn[c].phase = "pending"
    <3>1. pending[<<Role(c), conn[c].port>>] = c /\ conn[c].port \in Ports
      BY <2>1, ConnFacts DEF IndInv, PendingInv, FreeSlot
    <3>2. <<Role(c), conn[c].port>> \in Slots
      BY <3>1, RoleFacts, SlotFacts
    <3> QED BY <3>1, <3>2
  <2>2. CASE conn[c].phase = "paired"
    <3>1. PICK f \in CConns : Live(f) /\ c \in {f, sess[f].be}
      BY <2>2 DEF IndInv, SessionConnInv
    <3> QED BY <1>2, <3>1
  <2> QED BY <2>1, <2>2
<1> HIDE DEF C
<1>6. /\ sess' \in [CConns -> SessionState \cup {NoSession}]
      /\ \A f \in CConns : f \notin T => sess'[f] = sess[f]
      /\ \A f \in CConns : f \in T => sess'[f].phase = "stop"
      /\ \A f \in CConns : sess'[f].port = sess[f].port /\ sess'[f].sid = sess[f].sid
  <2>1. ASSUME NEW f \in T
        PROVE  /\ sess'[f] \in SessionState /\ sess'[f].phase = "stop"
               /\ sess'[f].port = sess[f].port /\ sess'[f].sid = sess[f].sid
    <3>1. sess'[f] = [sess[f] EXCEPT !.phase = "stop"]
      BY <1>1, <1>3
    <3> QED BY <1>3, <3>1 DEF SessionState
  <2>2. \A f \in CConns : f \notin T => sess'[f] = sess[f]
    BY <1>1
  <2>3. sess' \in [CConns -> SessionState \cup {NoSession}]
    BY <1>1, <2>1, <2>2 DEF IndInv, TypeOK
  <2> QED BY <2>1, <2>2, <2>3
<1>7. TypeOK' /\ AllocIffHeld'
  <2>1. conn' \in [Conns -> ConnState \cup {FreeSlot}]
    BY <1>1, ClosedType DEF IndInv
  <2> QED BY <1>1, <1>6, <2>1, PoolFrame DEF IndInv, TypeOK
<1>8. PendingInv'
  BY <1>1, <1>5 DEF PendingInv
<1>9. SessionConnInv'
  <2>1. \A f \in CConns : ~Live(f)'
    BY <1>2, <1>6 DEF Live
  <2>2. ASSUME NEW f \in CConns, sess'[f].phase \in {"stop", "release"}
        PROVE  conn'[f] = FreeSlot
    <3>1. CASE f \in T
      BY <1>4, <3>1, RoleFacts DEF C
    <3>2. CASE f \notin T
      BY <1>4, <1>6, <2>2, <3>2, RoleFacts DEF IndInv, SessionConnInv
    <3> QED BY <3>1, <3>2
  <2> QED BY <1>5, <2>1, <2>2 DEF SessionConnInv
<1>10. MapInv'
  <2>1. \A f \in CConns : sess'[f].phase = "start" <=> pairing' = f
    BY <1>1, <1>2, <1>6, NoConnFacts DEF MuFree, IndInv, MapInv
  <2> QED BY <1>1, <2>1 DEF MapInv, RunningSessionsListed
<1>11. WakeInv'
  BY <1>1, SlotFacts DEF WakeInv, NoLostPair, BothPending, Roles
<1>12. GrantInv'
  <2>1. \A c \in Conns :
            conn'[c].phase \in {"checked", "pending", "paired"} => conn'[c] = conn[c]
    BY <1>4 DEF FreeSlot
  <2> QED BY <1>1, <2>1, GrantKept
<1>13. OccupiedHasSession'
  BY <1>1, <1>6 DEF IndInv, OccupiedHasSession
<1> QED BY <1>7, <1>8, <1>9, <1>10, <1>11, <1>12, <1>13 DEF IndInv

-----------------------------------------------------------------------------
\* The steps that do not call the pool, and the pool calls of the others.
PoolIdle == UNCHANGED <<state, alloc>>

\* Every step of the server changes its pool by one call of the pool, or not at all.
LEMMA PoolCalls ==
    ASSUME Next
    PROVE  \/ PoolIdle
           \/ \E s \in SessionIds : HubReserve(s) \/ HubRollback(s)
           \/ TryPairMark \/ SweepTouch \/ HeartbeatExpire \/ Clock
           \/ \E f \in CConns : OnStopRelease(f)
BY DEF Next, PoolIdle, HubGrant, Accept, HelloError, Admit, Refuse, ReadHello, TryPairNothing,
       TryPairStale, TryPairSession, SessionStop, OnStopDelete, SweepStart, SweepVisit,
       Cancel, StopAll

\* Every step of the server, its pool and the hub preserves the invariant.
LEMMA NextInv == IndInv /\ [Next]_vars => IndInv'
<1> SUFFICES ASSUME IndInv, [Next]_vars PROVE IndInv'
  OBVIOUS
<1>1. CASE UNCHANGED vars
  <2>1. TypeOK' /\ AllocIffHeld'
    BY <1>1, PoolFrame DEF vars, IndInv, TypeOK
  <2>2. (PendingInv /\ SessionConnInv /\ MapInv /\ WakeInv)'
    BY <1>1, ServerFrame DEF vars
  <2>3. GrantInv' /\ OccupiedHasSession'
    BY <1>1 DEF vars, IndInv, GrantInv, AdmittedAsGranted, OccupiedHasSession
  <2> QED BY <2>1, <2>2, <2>3 DEF IndInv
<1>2. ASSUME NEW s \in SessionIds, HubReserve(s) \/ HubGrant(s) \/ HubRollback(s)
      PROVE  IndInv'
  BY <1>2, HubReserveInv, HubGrantInv, HubRollbackInv
<1>3. ASSUME NEW c \in Conns, NEW p \in Ports, Accept(c, p)
      PROVE  IndInv'
  BY <1>3, AcceptInv
<1>4. ASSUME NEW c \in Conns, HelloError(c) \/ Admit(c) \/ Refuse(c)
      PROVE  IndInv'
  <2>1. CASE HelloError(c)
    BY <2>1, GiveUpInv DEF HelloError
  <2>2. CASE Refuse(c)
    BY <2>2, GiveUpInv DEF Refuse
  <2> QED BY <1>4, <2>1, <2>2, AdmitInv
<1>5. ASSUME NEW c \in Conns, NEW s \in SessionIds, ReadHello(c, s)
      PROVE  IndInv'
  BY <1>5, ReadHelloInv
<1>6. ASSUME NEW p \in Ports, TryPairNothing(p) \/ TryPairStale(p) \/ TryPairSession(p)
      PROVE  IndInv'
  BY <1>6, TryPairNothingInv, TryPairStaleInv, TryPairSessionInv
<1>7. ASSUME NEW f \in CConns, SessionStop(f) \/ OnStopDelete(f) \/ OnStopRelease(f)
      PROVE  IndInv'
  BY <1>7, SessionStopInv, OnStopDeleteInv, OnStopReleaseInv
<1>8. CASE TryPairMark
  BY <1>8, TryPairMarkInv
<1>9. CASE SweepStart \/ SweepTouch \/ \E x \in Slots : SweepVisit(x)
  BY <1>9, SweepStartInv, SweepTouchInv, SweepVisitInv
<1>10. CASE HeartbeatExpire \/ Clock \/ Cancel \/ StopAll
  BY <1>10, HeartbeatExpireInv, ClockInv, CancelInv, StopAllInv
<1> QED BY <1>1, <1>2, <1>3, <1>4, <1>5, <1>6, <1>7, <1>8, <1>9, <1>10 DEF Next

\* IndInv is an invariant of the data plane for every value of the constants.
THEOREM Invariance == Spec => []IndInv
BY InitInv, NextInv, PTL DEF Spec

\* The variables of the data plane keep their types.
THEOREM TypeCorrect == Spec => []TypeOK
<1>1. IndInv => TypeOK
  BY DEF IndInv
<1> QED BY <1>1, Invariance, PTL

\* Until StopAll no port ever has two waiting or relaying connections of one
\* role: handleConn's checks under s.mu, tryPair and onStop together.
THEOREM RolesExclusive == Spec => []OnePerRole
<1>1. IndInv => OnePerRole
  <2> SUFFICES ASSUME IndInv, ctx # "stopped", NEW c \in Conns, NEW d \in Conns,
                      Engaged(c), Engaged(d), Role(c) = Role(d), conn[c].port = conn[d].port
               PROVE  c = d
    BY DEF OnePerRole
  <2> DEFINE x == <<Role(c), conn[c].port>>
  <2>1. x \in Slots /\ conn[c].port \in Ports /\ x[2] = conn[c].port
    BY ConnFacts, RoleFacts, SlotFacts DEF IndInv, Engaged, FreeSlot
  <2>2. ASSUME NEW e \in Conns, conn[e].phase = "paired", conn[e].port = conn[c].port
        PROVE  \E f \in CConns : /\ Live(f) /\ e \in {f, sess[f].be} /\ sess[f].be \in SConns
                                 /\ sessions[conn[c].port] = f
    <3>1. PICK f \in CConns : Live(f) /\ e \in {f, sess[f].be}
      BY <2>2 DEF IndInv, SessionConnInv
    <3>2. sess[f].port = conn[c].port
      BY <2>2, <3>1 DEF IndInv, SessionConnInv
    <3>3. sessions[conn[c].port] = f /\ sess[f].be \in SConns
      BY <3>1, <3>2, SessFacts DEF IndInv, MapInv, RunningSessionsListed, Live, NoSession
    <3> QED BY <3>1, <3>3
  <2>3. ASSUME NEW e \in Conns, conn[e].phase = "pending", Role(e) = Role(c),
               conn[e].port = conn[c].port
        PROVE  pending[x] = e /\ sessions[conn[c].port] = NoConn
    <3>1. pending[x] = e
      BY <2>3 DEF IndInv, PendingInv
    <3> QED BY <2>1, <3>1, NoConnFacts DEF IndInv, WakeInv
  <2> HIDE DEF x
  <2>4. CASE conn[c].phase = "pending" /\ conn[d].phase = "pending"
    BY <2>3, <2>4
  <2>5. CASE conn[c].phase = "paired" /\ conn[d].phase = "paired"
    <3>1. PICK f \in CConns : /\ c \in {f, sess[f].be} /\ d \in {f, sess[f].be}
                              /\ sess[f].be \in SConns
      BY <2>2, <2>5
    <3> QED BY <3>1, RoleFacts
  <2>6. conn[c].phase = conn[d].phase
    BY <2>2, <2>3, NoConnFacts DEF Engaged
  <2> QED BY <2>4, <2>5, <2>6 DEF Engaged
<1> QED BY <1>1, Invariance, PTL

\* Until StopAll every running session can be found in the sessions map.
THEOREM SessionsListed == Spec => []RunningSessionsListed
<1>1. IndInv => RunningSessionsListed
  BY DEF IndInv, MapInv
<1> QED BY <1>1, Invariance, PTL

\* Two peers that wait on one port always have a tryPair goroutine to come.
THEOREM NoWakeupLost == Spec => []NoLostPair
<1>1. IndInv => NoLostPair
  BY DEF IndInv, WakeInv
<1> QED BY <1>1, Invariance, PTL

\* An Occupied port always has a session that has yet to release it.
THEOREM NoPortLeaks == Spec => []OccupiedHasSession
<1>1. IndInv => OccupiedHasSession
  BY DEF IndInv
<1> QED BY <1>1, Invariance, PTL

\* A connection past handleConn's check was granted the port it came in on.
THEOREM AdmissionSound == Spec => []AdmittedAsGranted
<1>1. IndInv => AdmittedAsGranted
  BY DEF IndInv, GrantInv
<1> QED BY <1>1, Invariance, PTL

-----------------------------------------------------------------------------
\* Seen through its ports the running gateway implements PortLease.
THEOREM DataPlaneImplementsLease == Spec => ImplementsUnattendedLease
<1>1. IndInv /\ [Next]_vars => [Abstract!NextUnattended]_Leases
  <2> SUFFICES ASSUME IndInv, [Next]_vars PROVE [Abstract!NextUnattended]_Leases
    OBVIOUS
  <2>1. PoolInv
    BY InvPool
  <2>2. CASE UNCHANGED vars \/ PoolIdle
    BY <2>2 DEF vars, PoolIdle, Leases
  <2>3. ASSUME NEW s \in SessionIds, HubReserve(s) PROVE [Abstract!NextUnattended]_Leases
    <3>1. PICK p \in Ports, srv \in Servers, cli \in Clients : ReserveAt(p, s, srv, cli)
      BY <2>3 DEF HubReserve
    <3>2. Abstract!Grant(p, s)
      BY <2>1, <3>1, ReserveRefines
    <3> QED BY <3>2 DEF Abstract!NextUnattended
  <2>4. ASSUME NEW s \in SessionIds, HubRollback(s) PROVE [Abstract!NextUnattended]_Leases
    <3>1. offer[s].port \in Ports /\ Release(offer[s].port, s)
      BY <2>4 DEF HubRollback, IndInv, TypeOK, Offer, NoOffer
    <3>2. Abstract!Return(offer[s].port, s) \/ UNCHANGED Leases
      BY <2>1, <3>1, ReleaseRefines
    <3> QED BY <3>1, <3>2 DEF Abstract!NextUnattended
  <2>5. CASE TryPairMark
    <3>1. /\ sess[pairing].port \in Ports /\ sess[pairing].sid \in SessionIds
          /\ MarkOccupied(sess[pairing].port, sess[pairing].sid)
      BY <2>5 DEF TryPairMark, IndInv, TypeOK, MapInv, NoSession, SessionState
    <3>2. Abstract!Confirm(sess[pairing].port, sess[pairing].sid) \/ UNCHANGED Leases
      BY <2>1, <3>1, MarkOccupiedRefines
    <3> QED BY <3>1, <3>2 DEF Abstract!NextUnattended
  <2>6. CASE SweepTouch
    <3>1. /\ sweep.touch.port \in Ports
          /\ TouchReservation(sweep.touch.port, sweep.touch.sid)
      BY <2>6 DEF SweepTouch, IndInv, TypeOK, SweepState
    <3> QED BY <2>1, <3>1, TouchRefines
  <2>7. CASE HeartbeatExpire
    BY <2>1, <2>7, ExpireRefines DEF HeartbeatExpire, Abstract!NextUnattended
  <2>8. CASE Clock
    BY <2>1, <2>8, TickRefines DEF Clock
  <2>9. ASSUME NEW f \in CConns, OnStopRelease(f) PROVE [Abstract!NextUnattended]_Leases
    <3>1. /\ sess[f].port \in Ports /\ sess[f].sid \in SessionIds
          /\ Release(sess[f].port, sess[f].sid)
      BY <2>9 DEF OnStopRelease, IndInv, TypeOK, NoSession, SessionState
    <3>2. Abstract!Return(sess[f].port, sess[f].sid) \/ UNCHANGED Leases
      BY <2>1, <3>1, ReleaseRefines
    <3> QED BY <3>1, <3>2 DEF Abstract!NextUnattended
  <2> QED BY <2>2, <2>3, <2>4, <2>5, <2>6, <2>7, <2>8, <2>9, PoolCalls
<1>2. Init => Abstract!Init
  BY InitRefines DEF Init
<1> QED BY <1>1, <1>2, Invariance, PTL DEF Spec, ImplementsUnattendedLease, Abstract!SpecUnattended

\* No session ever loses its port to the teardown of another one.
THEOREM TeardownIsOwn == Spec => OnlyOwnTeardownFrees
<1> DEFINE A == \A p \in Ports :
                   alloc[p] # NoAlloc /\ alloc'[p].sid # alloc[p].sid =>
                       \/ state[p] = "Reserved" /\ alloc[p].age > AuthTimeout
                       \/ offer[alloc[p].sid].st = "reserved" /\ offer'[alloc[p].sid].st = "void"
                       \/ \E f \in CConns : /\ sess[f].port = p /\ sess[f].sid = alloc[p].sid
                                            /\ sess'[f] = NoSession
<1>1. IndInv /\ [Next]_vars => [A]_vars
  <2> SUFFICES ASSUME IndInv, Next, NEW p \in Ports,
                      alloc[p] # NoAlloc, alloc'[p].sid # alloc[p].sid
               PROVE  \/ state[p] = "Reserved" /\ alloc[p].age > AuthTimeout
                      \/ offer[alloc[p].sid].st = "reserved" /\ offer'[alloc[p].sid].st = "void"
                      \/ \E f \in CConns : /\ sess[f].port = p /\ sess[f].sid = alloc[p].sid
                                           /\ sess'[f] = NoSession
    OBVIOUS
  <2>1. PoolInv /\ alloc[p] \in Allocation /\ alloc[p].sid \in SessionIds
    BY InvPool DEF PoolInv, PoolTypeOK, Allocation
  <2>2. ~PoolIdle /\ ~TryPairMark
    BY DEF PoolIdle, TryPairMark, MarkOccupied, poolVars
  <2>3. ~Clock
    BY <2>1, TickKeepsSid DEF Clock
  <2>4. ~SweepTouch
    <3> SUFFICES ASSUME SweepTouch PROVE FALSE
      OBVIOUS
    <3>1. /\ sweep.touch.port \in Ports
          /\ TouchReservation(sweep.touch.port, sweep.touch.sid)
      BY DEF SweepTouch, IndInv, TypeOK, SweepState
    <3> QED BY <2>1, <3>1, TouchKeepsSid
  <2>5. ASSUME NEW s \in SessionIds, HubReserve(s) PROVE FALSE
    <3>1. PICK q \in Ports, srv \in Servers, cli \in Clients : ReserveAt(q, s, srv, cli)
      BY <2>5 DEF HubReserve
    <3>2. alloc[q] = NoAlloc
      BY <2>1, <3>1 DEF ReserveAt, FirstIdle, PoolInv, AllocIffHeld
    <3> QED BY <2>1, <3>1, <3>2 DEF ReserveAt, PoolInv, PoolTypeOK
  <2>6. ASSUME NEW q \in Ports, NEW s \in SessionIds, Release(q, s)
        PROVE  p = q /\ alloc[p].sid = s
    BY <2>1, <2>6, NoneAssumption DEF Release, MayRelease, poolVars, PoolInv, PoolTypeOK
  <2>7. ASSUME NEW s \in SessionIds, HubRollback(s)
        PROVE  offer[alloc[p].sid].st = "reserved" /\ offer'[alloc[p].sid].st = "void"
    <3>1. offer[s].port \in Ports /\ Release(offer[s].port, s) /\ offer[s].st = "reserved"
      BY <2>7 DEF HubRollback, IndInv, TypeOK, Offer, NoOffer
    <3>2. alloc[p].sid = s
      BY <2>6, <3>1
    <3>3. offer'[s].st = "void"
      BY <2>7 DEF HubRollback, IndInv, TypeOK, Offer, NoOffer
    <3> QED BY <3>1, <3>2, <3>3
  <2>8. ASSUME HeartbeatExpire PROVE state[p] = "Reserved" /\ alloc[p].age > AuthTimeout
    BY <2>1, <2>8, NoneAssumption DEF HeartbeatExpire, ReleaseExpiredReservations, Expired
  <2>9. ASSUME NEW f \in CConns, OnStopRelease(f)
        PROVE  sess[f].port = p /\ sess[f].sid = alloc[p].sid /\ sess'[f] = NoSession
    <3>1. /\ sess[f].port \in Ports /\ sess[f].sid \in SessionIds
          /\ Release(sess[f].port, sess[f].sid)
      BY <2>9 DEF OnStopRelease, IndInv, TypeOK, NoSession, SessionState
    <3>2. sess'[f] = NoSession
      BY <2>9 DEF OnStopRelease, IndInv, TypeOK
    <3> QED BY <2>6, <3>1, <3>2
  <2> QED BY <2>2, <2>3, <2>4, <2>5, <2>7, <2>8, <2>9, PoolCalls
<1> QED BY <1>1, Invariance, PTL DEF Spec, OnlyOwnTeardownFrees

\* The server and the hub use the pool only through its methods: whatever holds
\* of every behaviour of the pool holds of the pool inside the data plane.
THEOREM PoolUsedByItsMethods == Spec => PoolSpec
<1>1. IndInv /\ [Next]_vars => [NextPool]_poolVars
  <2> SUFFICES ASSUME IndInv, Next, ~PoolIdle PROVE NextPool
    BY DEF vars, poolVars, PoolIdle
  <2>1. ASSUME NEW s \in SessionIds, HubReserve(s) PROVE NextPool
    BY <2>1 DEF HubReserve, NextPool
  <2>2. ASSUME NEW s \in SessionIds, HubRollback(s) PROVE NextPool
    <3>1. offer[s].port \in Ports /\ Release(offer[s].port, s)
      BY <2>2 DEF HubRollback, IndInv, TypeOK, Offer, NoOffer
    <3> QED BY <3>1 DEF NextPool
  <2>3. CASE TryPairMark
    <3>1. pairing \in CConns /\ sess[pairing] \in SessionState
      BY <2>3 DEF TryPairMark, IndInv, TypeOK, MapInv, NoSession
    <3>2. sess[pairing].port \in Ports /\ sess[pairing].sid \in SessionIds
      BY <3>1 DEF SessionState
    <3> QED BY <2>3, <3>2 DEF TryPairMark, NextPool
  <2>4. CASE SweepTouch
    <3>1. /\ sweep.touch.port \in Ports /\ sweep.touch.sid \in SessionIds
          /\ TouchReservation(sweep.touch.port, sweep.touch.sid)
      BY <2>4 DEF SweepTouch, IndInv, TypeOK, SweepState
    <3> QED BY <3>1 DEF NextPool
  <2>5. CASE HeartbeatExpire \/ Clock
    BY <2>5 DEF HeartbeatExpire, Clock, NextPool
  <2>6. ASSUME NEW f \in CConns, OnStopRelease(f) PROVE NextPool
    <3>1. /\ sess[f].port \in Ports /\ sess[f].sid \in SessionIds
          /\ Release(sess[f].port, sess[f].sid)
      BY <2>6 DEF OnStopRelease, IndInv, TypeOK, NoSession, SessionState
    <3> QED BY <3>1 DEF NextPool
  <2> QED BY <2>1, <2>2, <2>3, <2>4, <2>5, <2>6, PoolCalls
<1>2. Init => InitPool
  BY DEF Init
<1> QED BY <1>1, <1>2, Invariance, PTL DEF Spec, PoolSpec
=============================================================================
