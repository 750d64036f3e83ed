------------------------------ MODULE DataPlane ------------------------------
(***************************************************************************)
(* A data-plane server of the V4 gateway: tcpServer (tcp_server.go) with   *)
(* its port pool, the sessions it starts (session.go), the reservation     *)
(* expiry of Manager.checkHeartbeats (manager.go) and the reservations the *)
(* control plane makes (tryPairOnce in control/server.go).  srtServer      *)
(* (srt_server.go) is the same algorithm over SRT connections.             *)
(*                                                                         *)
(* Two mutexes are involved.  Pool methods are atomic (module PortPool).   *)
(* The server's own s.mu protects pending and sessions; tryPair and        *)
(* maintainPending hold it across several pool calls, and between two such *)
(* calls everybody who needs only the pool may run.  Those two critical    *)
(* sections are therefore several steps each: `pairing` and `sweep` say    *)
(* who is inside, and MuFree guards every other section under s.mu.        *)
(*                                                                         *)
(* A connection slot is used again once its connection is closed, so a     *)
(* finite set of slots stands for any number of connections.               *)
(***************************************************************************)
EXTENDS PortPool

CONSTANTS
    SConns, CConns,     \* slots of connections whose hello says server / client
    NoConn,             \* a nil *BufferedConn
    NoPort,             \* no port
    TryBound            \* at most so many tryPair goroutines wait on a port

ASSUME ConnAssumption ==
    /\ SConns \cap CConns = {}
    /\ NoConn \notin SConns \cup CConns
    /\ NoPort \notin Ports
    /\ TryBound \in Nat

VARIABLES
    offer,      \* session id -> the port the hub reserved for it, and its fate
    conn,       \* connection slot -> port, session id of its hello, phase
    pending,    \* <<role, port>> -> connection, pendingS and pendingC of the code
    tryq,       \* port -> number of tryPair goroutines not yet run
    sessions,   \* port -> the session in the sessions map, named by its client
    sess,       \* client connection -> its Session object until onStop is over
    pairing,    \* the session for which tryPair has yet to call MarkOccupied
    sweep,      \* what maintainPending still has to visit, and to touch
    ctx         \* "run", then "cancelled", then "stopped" (StopAll is done)

srvVars == <<offer, conn, pending, tryq, sessions, sess, pairing, sweep, ctx>>
vars == <<state, alloc, offer, conn, pending, tryq, sessions, sess, pairing, sweep, ctx>>

Conns == SConns \cup CConns
Roles == {"server", "client"}
Role(c) == IF c \in SConns THEN "server" ELSE "client"
Slots == Roles \X Ports

NoOffer == [port |-> NoPort, st |-> "none"]
FreeSlot == [port |-> NoPort, sid |-> None, phase |-> "free"]
NoSession == [port |-> NoPort, sid |-> None, be |-> NoConn, phase |-> "none"]
NoTouch == [port |-> NoPort, sid |-> None]

MuFree == pairing = NoConn /\ sweep.todo = {} /\ sweep.touch = NoTouch

InitServer ==
    /\ offer = [s \in SessionIds |-> NoOffer]
    /\ conn = [c \in Conns |-> FreeSlot]
    /\ pending = [x \in Slots |-> NoConn]
    /\ tryq = [p \in Ports |-> 0]
    /\ sessions = [p \in Ports |-> NoConn]
    /\ sess = [f \in CConns |-> NoSession]
    /\ pairing = NoConn
    /\ sweep = [todo |-> {}, touch |-> NoTouch]
    /\ ctx = "run"

Init == InitPool /\ InitServer

Closed(C) == [c \in Conns |-> IF c \in C THEN FreeSlot ELSE conn[c]]

-----------------------------------------------------------------------------
(* The control plane.  tryPairOnce draws a fresh session id and reserves a  *)
(* port; the grant then goes out to the two peers, unless the other pool    *)
(* has no port left and the reservation is rolled back.                     *)
HubReserve(s) ==
    /\ offer[s] = NoOffer
    /\ \E p \in Ports, srv \in Servers, cli \in Clients :
           /\ ReserveAt(p, s, srv, cli)
           /\ offer' = [offer EXCEPT ![s] = [port |-> p, st |-> "reserved"]]
    /\ UNCHANGED <<conn, pending, tryq, sessions, sess, pairing, sweep, ctx>>

HubGrant(s) ==
    /\ offer[s].st = "reserved"
    /\ offer' = [offer EXCEPT ![s].st = "granted"]
    /\ UNCHANGED <<state, alloc, conn, pending, tryq, sessions, sess, pairing, sweep, ctx>>

HubRollback(s) ==
    /\ offer[s].st = "reserved"
    /\ Release(offer[s].port, s)
    /\ offer' = [offer EXCEPT ![s].st = "void"]
    /\ UNCHANGED <<conn, pending, tryq, sessions, sess, pairing, sweep, ctx>>

-----------------------------------------------------------------------------
(* handleConn.  Listeners accept until StopAll closes them.                 *)
Accept(c, p) ==
    /\ ctx # "stopped"
    /\ conn[c] = FreeSlot
    /\ c \in CConns => sess[c] = NoSession
    /\ conn' = [conn EXCEPT ![c] = [port |-> p, sid |-> None, phase |-> "accepted"]]
    /\ UNCHANGED <<state, alloc, offer, pending, tryq, sessions, sess, pairing, sweep, ctx>>

\* ReadHello fails: bad first line, bad fields, or its 2 s deadline.
HelloError(c) ==
    /\ conn[c].phase = "accepted"
    /\ conn' = Closed({c})
    /\ UNCHANGED <<state, alloc, offer, pending, tryq, sessions, sess, pairing, sweep, ctx>>

\* Faulty variant: the allocation's session id is not compared.
HelloAcceptedUnchecked(c, s) == alloc[conn[c].port] # NoAlloc

HelloAccepted(c, s) == alloc[conn[c].port].sid = s

\* ReadHello succeeds and the hello is compared with pool.Allocation(port),
\* which is not protected by s.mu.
ReadHello(c, s) ==
    /\ conn[c].phase = "accepted"
    /\ offer[s].st = "granted"
    /\ \/ /\ HelloAccepted(c, s)
          /\ conn' = [conn EXCEPT ![c].sid = s, ![c].phase = "checked"]
       \/ /\ ~HelloAccepted(c, s)
          /\ conn' = Closed({c})
    /\ UNCHANGED <<state, alloc, offer, pending, tryq, sessions, sess, pairing, sweep, ctx>>

\* Faulty variant: a second connection of the same role replaces the first.
AdmissibleReplacing(c) == sessions[conn[c].port] = NoConn

\* Faulty variant: only the role is examined, not the running session.
AdmissibleDespiteSession(c) == pending[<<Role(c), conn[c].port>>] = NoConn

Admissible(c) ==
    /\ sessions[conn[c].port] = NoConn
    /\ pending[<<Role(c), conn[c].port>>] = NoConn

\* Faulty variant: only the arrival of a client starts a tryPair goroutine.
AdmitClientWakes(c) ==
    /\ MuFree
    /\ conn[c].phase = "checked" /\ Admissible(c)
    /\ tryq[conn[c].port] < TryBound
    /\ conn' = [conn EXCEPT ![c].phase = "pending"]
    /\ pending' = [pending EXCEPT ![<<Role(c), conn[c].port>>] = c]
    /\ tryq' = [tryq EXCEPT ![conn[c].port] = IF c \in CConns THEN @ + 1 ELSE @]
    /\ UNCHANGED <<state, alloc, offer, sessions, sess, pairing, sweep, ctx>>

\* The connection becomes pending and a tryPair goroutine is started.
Admit(c) ==
    /\ MuFree
    /\ conn[c].phase = "checked" /\ Admissible(c)
    /\ tryq[conn[c].port] < TryBound
    /\ conn' = [conn EXCEPT ![c].phase = "pending"]
    /\ pending' = [pending EXCEPT ![<<Role(c), conn[c].port>>] = c]
    /\ tryq' = [tryq EXCEPT ![conn[c].port] = @ + 1]
    /\ UNCHANGED <<state, alloc, offer, sessions, sess, pairing, sweep, ctx>>

\* port_occupied, server_dup or client_dup.
Refuse(c) ==
    /\ MuFree
    /\ conn[c].phase = "checked" /\ ~Admissible(c)
    /\ conn' = Closed({c})
    /\ UNCHANGED <<state, alloc, offer, pending, tryq, sessions, sess, pairing, sweep, ctx>>

-----------------------------------------------------------------------------
(* tryPair, first part: from taking s.mu to reading the allocation.          *)
BothPending(p) == \A r \in Roles : pending[<<r, p>>] # NoConn

WithoutPending(p) == [x \in Slots |-> IF x[2] = p THEN NoConn ELSE pending[x]]

\* A session exists already, or a peer is missing: nothing to do.
TryPairNothing(p) ==
    /\ MuFree
    /\ tryq[p] > 0
    /\ sessions[p] # NoConn \/ ~BothPending(p)
    /\ tryq' = [tryq EXCEPT ![p] = @ - 1]
    /\ UNCHANGED <<state, alloc, offer, conn, pending, sessions, sess, pairing, sweep, ctx>>

\* Both peers wait, but the allocation is gone: both are closed.
TryPairStale(p) ==
    /\ MuFree
    /\ tryq[p] > 0
    /\ sessions[p] = NoConn /\ BothPending(p)
    /\ alloc[p] = NoAlloc
    /\ conn' = Closed({pending[<<r, p>>] : r \in Roles})
    /\ pending' = WithoutPending(p)
    /\ tryq' = [tryq EXCEPT ![p] = @ - 1]
    /\ UNCHANGED <<state, alloc, offer, sessions, sess, pairing, sweep, ctx>>

\* The session is created for whatever session id the port is allocated to.
TryPairSession(p) ==
    LET fe == pending[<<"client", p>>]
        be == pending[<<"server", p>>]
    IN  /\ MuFree
        /\ tryq[p] > 0
        /\ sessions[p] = NoConn /\ BothPending(p)
        /\ alloc[p] # NoAlloc
        /\ conn' = [c \in Conns |-> IF c \in {fe, be}
                                    THEN [conn[c] EXCEPT !.phase = "paired"]
                                    ELSE conn[c]]
        /\ pending' = WithoutPending(p)
        /\ tryq' = [tryq EXCEPT ![p] = @ - 1]
        /\ sess' = [sess EXCEPT ![fe] = [port |-> p, sid |-> alloc[p].sid,
                                         be |-> be, phase |-> "start"]]
        /\ sessions' = [sessions EXCEPT ![p] = fe]
        /\ pairing' = fe
        /\ UNCHANGED <<state, alloc, offer, sweep, ctx>>

\* tryPair, second part: MarkOccupied, whose error is dropped, and Start.
TryPairMark ==
    /\ pairing # NoConn
    /\ MarkOccupied(sess[pairing].port, sess[pairing].sid)
    /\ sess' = [sess EXCEPT ![pairing].phase = "run"]
    /\ pairing' = NoConn
    /\ UNCHANGED <<offer, conn, pending, tryq, sessions, sweep, ctx>>

-----------------------------------------------------------------------------
(* The end of a session.                                                    *)

\* Faulty variant: the map entry is deleted at once, not by onStop.
SessionStopUnlisting(f) ==
    /\ sess[f].phase = "run"
    /\ sess' = [sess EXCEPT ![f].phase = "stop"]
    /\ conn' = Closed({f, sess[f].be})
    /\ sessions' = [sessions EXCEPT ![sess[f].port] = NoConn]
    /\ UNCHANGED <<state, alloc, offer, pending, tryq, pairing, sweep, ctx>>

\* Session.Stop closes both connections, whoever calls it: a pipe that hits
\* end of file, a read or a write error, or the heartbeat check.
SessionStop(f) ==
    /\ sess[f].phase = "run"
    /\ sess' = [sess EXCEPT ![f].phase = "stop"]
    /\ conn' = Closed({f, sess[f].be})
    /\ UNCHANGED <<state, alloc, offer, pending, tryq, sessions, pairing, sweep, ctx>>

\* The pipes leave their loops when ctx is done; Stop follows.
SessionCtxDone(f) == ctx # "run" /\ SessionStop(f)

\* onStop runs after both pipes have returned: the map entry of the port goes,
\* whichever session it holds...
OnStopDelete(f) ==
    /\ MuFree
    /\ sess[f].phase = "stop"
    /\ sessions' = [sessions EXCEPT ![sess[f].port] = NoConn]
    /\ sess' = [sess EXCEPT ![f].phase = "release"]
    /\ UNCHANGED <<state, alloc, offer, conn, pending, tryq, pairing, sweep, ctx>>

\* ... and, with s.mu no longer held, the port is released.
OnStopRelease(f) ==
    /\ sess[f].phase = "release"
    /\ Release(sess[f].port, sess[f].sid)
    /\ sess' = [sess EXCEPT ![f] = NoSession]
    /\ UNCHANGED <<offer, conn, pending, tryq, sessions, pairing, sweep, ctx>>

-----------------------------------------------------------------------------
(* maintainPending: the ticker of pendingMaintenanceLoop starts a sweep over *)
(* pendingS, then pendingC, under s.mu throughout.  The loop ends with ctx,  *)
(* but its select may still take a tick that is due.                        *)
SweepStart ==
    /\ MuFree
    /\ sweep' = [sweep EXCEPT !.todo = {x \in Slots : pending[x] # NoConn}]
    /\ UNCHANGED <<state, alloc, offer, conn, pending, tryq, sessions, sess, pairing, ctx>>

\* Faulty variant: an entry without an allocation is skipped.
SweepVisitSkipping(x) ==
    /\ x \in sweep.todo /\ sweep.touch = NoTouch
    /\ sweep' = [todo  |-> sweep.todo \ {x},
                 touch |-> IF alloc[x[2]] = NoAlloc THEN NoTouch
                           ELSE [port |-> x[2], sid |-> alloc[x[2]].sid]]
    /\ UNCHANGED <<state, alloc, offer, conn, pending, tryq, sessions, sess, pairing, ctx>>

\* The next entry: its allocation is read, and an entry without one is closed.
SweepVisit(x) ==
    /\ x \in sweep.todo /\ sweep.touch = NoTouch
    /\ x[1] = "client" => \A y \in sweep.todo : y[1] = "client"
    /\ \/ /\ alloc[x[2]] = NoAlloc
          /\ conn' = Closed({pending[x]})
          /\ pending' = [pending EXCEPT ![x] = NoConn]
          /\ sweep' = [sweep EXCEPT !.todo = @ \ {x}]
       \/ /\ alloc[x[2]] # NoAlloc
          /\ sweep' = [todo  |-> sweep.todo \ {x},
                       touch |-> [port |-> x[2], sid |-> alloc[x[2]].sid]]
          /\ UNCHANGED <<conn, pending>>
    /\ UNCHANGED <<state, alloc, offer, tryq, sessions, sess, pairing, ctx>>

\* ... and an entry with one keeps the reservation alive.
SweepTouch ==
    /\ sweep.touch # NoTouch
    /\ TouchReservation(sweep.touch.port, sweep.touch.sid)
    /\ sweep' = [sweep EXCEPT !.touch = NoTouch]
    /\ UNCHANGED <<offer, conn, pending, tryq, sessions, sess, pairing, ctx>>

-----------------------------------------------------------------------------
(* Manager: the heartbeat loop expires reservations.  It ends with ctx, but  *)
(* a check that its last tick began may still be under way.                 *)
HeartbeatExpire == ReleaseExpiredReservations /\ UNCHANGED srvVars

Clock == Tick /\ UNCHANGED srvVars

\* Manager.Stop: cancel(), then StopAll under s.mu.
Cancel ==
    /\ ctx = "run"
    /\ ctx' = "cancelled"
    /\ UNCHANGED <<state, alloc, offer, conn, pending, tryq, sessions, sess, pairing, sweep>>

StopAll ==
    LET stopped == {f \in CConns : \E p \in Ports : sessions[p] = f /\ sess[f].phase = "run"}
    IN  /\ ctx = "cancelled"
        /\ MuFree
        /\ conn' = Closed(   {pending[x] : x \in Slots}
                        \cup stopped \cup {sess[f].be : f \in stopped})
        /\ pending' = [x \in Slots |-> NoConn]
        /\ sess' = [f \in CConns |-> IF f \in stopped
                                     THEN [sess[f] EXCEPT !.phase = "stop"]
                                     ELSE sess[f]]
        /\ sessions' = [p \in Ports |-> NoConn]
        /\ ctx' = "stopped"
        /\ UNCHANGED <<state, alloc, offer, tryq, pairing, sweep>>

-----------------------------------------------------------------------------
Next ==
    \/ \E s \in SessionIds : HubReserve(s) \/ HubGrant(s) \/ HubRollback(s)
    \/ \E c \in Conns, p \in Ports : Accept(c, p)
    \/ \E c \in Conns : HelloError(c) \/ Admit(c) \/ Refuse(c)
    \/ \E c \in Conns, s \in SessionIds : ReadHello(c, s)
    \/ \E p \in Ports : TryPairNothing(p) \/ TryPairStale(p) \/ TryPairSession(p)
    \/ TryPairMark
    \/ \E f \in CConns : SessionStop(f) \/ OnStopDelete(f) \/ OnStopRelease(f)
    \/ SweepStart \/ SweepTouch \/ \E x \in Slots : SweepVisit(x)
    \/ HeartbeatExpire \/ Clock \/ Cancel \/ StopAll

Spec == Init /\ [][Next]_vars

(***************************************************************************)
(* Fairness.  Goroutines keep being scheduled (WF); sync.RWMutex hands the *)
(* lock to a waiter after at most a bounded wait, so a section that waits  *)
(* for s.mu is entered although others enter in between (SF).  The tickers *)
(* of the two loops keep firing while ctx runs, and ReadHello has a        *)
(* deadline.  A session that runs after StopAll began after the cancel, so *)
(* its pipes leave before their first Read; an older one may be blocked in *)
(* a Write without a deadline, and only StopAll ends it.  Peers owe        *)
(* nothing: no fairness on connections, hellos or the end of a session;    *)
(* and none on Cancel.                                                     *)
(***************************************************************************)
HandleConn(c) == Admit(c) \/ Refuse(c)
TryPair(p) == TryPairNothing(p) \/ TryPairStale(p) \/ TryPairSession(p)

Fairness ==
    /\ \A c \in Conns : WF_vars(HelloError(c)) /\ SF_vars(HandleConn(c))
    /\ \A p \in Ports : SF_vars(TryPair(p))
    /\ WF_vars(TryPairMark)
    /\ \A f \in CConns : /\ WF_vars(ctx = "stopped" /\ SessionCtxDone(f))
                         /\ SF_vars(OnStopDelete(f))
                         /\ WF_vars(OnStopRelease(f))
    /\ SF_vars(ctx = "run" /\ SweepStart) /\ WF_vars(SweepTouch)
    /\ WF_vars(\E x \in Slots : SweepVisit(x))
    /\ WF_vars(ctx = "run" /\ HeartbeatExpire) /\ WF_vars(Clock)
    /\ SF_vars(StopAll)

FairSpec == Spec /\ Fairness

-----------------------------------------------------------------------------
Offer == [port : Ports, st : {"reserved", "granted", "void"}]
ConnState == [port : Ports, sid : SessionIds \cup {None},
              phase : {"accepted", "checked", "pending", "paired"}]
SessionState == [port : Ports, sid : SessionIds, be : SConns,
                 phase : {"start", "run", "stop", "release"}]
SweepState == [todo  : SUBSET Slots,
               touch : [port : Ports, sid : SessionIds] \cup {NoTouch}]

\* Type invariant of a data-plane server and its pool.
TypeOK ==
    /\ PoolTypeOK
    /\ offer \in [SessionIds -> Offer \cup {NoOffer}]
    /\ conn \in [Conns -> ConnState \cup {FreeSlot}]
    /\ pending \in [Slots -> Conns \cup {NoConn}]
    /\ tryq \in [Ports -> 0 .. TryBound]
    /\ sessions \in [Ports -> CConns \cup {NoConn}]
    /\ sess \in [CConns -> SessionState \cup {NoSession}]
    /\ pairing \in CConns \cup {NoConn}
    /\ sweep \in SweepState
    /\ ctx \in {"run", "cancelled", "stopped"}

Engaged(c) == conn[c].phase \in {"pending", "paired"}

\* Until StopAll, a port has at most one server and one client connection that
\* waits or relays, whatever the order of accepts, expiries, pairings and
\* teardowns (the role checks of handleConn with those of tryPair and onStop).
OnePerRole ==
    ctx # "stopped" =>
        \A c, d \in Conns :
            /\ Engaged(c) /\ Engaged(d)
            /\ Role(c) = Role(d) /\ conn[c].port = conn[d].port
            => c = d

\* Until StopAll, every session that runs is in the sessions map, where
\* checkHeartbeats and StopAll find it: onStop deletes by port, without
\* comparing the session, and still never removes another session.
RunningSessionsListed ==
    ctx # "stopped" =>
        \A f \in CConns :
            sess[f].phase \in {"start", "run", "stop"} => sessions[sess[f].port] = f

\* No lost wake-up: when both peers wait on a port some tryPair goroutine has
\* still to run, so the polling of TickPair is not needed.
NoLostPair == \A p \in Ports : BothPending(p) => tryq[p] > 0

\* No port leaks: an Occupied port has a Session object for its allocation
\* whose onStop has yet to release it.
OccupiedHasSession ==
    \A p \in Ports :
        state[p] = "Occupied" =>
            \E f \in CConns : sess[f].port = p /\ sess[f].sid = alloc[p].sid

\* A connection that passed handleConn's check holds a session id that was
\* granted, and granted for the very port it came in on.
AdmittedAsGranted ==
    \A c \in Conns :
        conn[c].phase \in {"checked", "pending", "paired"} =>
            /\ conn[c].sid \in SessionIds
            /\ offer[conn[c].sid] = [port |-> conn[c].port, st |-> "granted"]

\* A session loses its port only to the expiry of a reservation that was not
\* touched for more than AuthTimeout, to the hub's rollback of its own
\* reservation, or to its own onStop; never to the teardown of another session.
OnlyOwnTeardownFrees ==
    [][\A p \in Ports :
          alloc[p] # NoAlloc /\ alloc'[p].sid # alloc[p].sid =>
              \/ state[p] = "Reserved" /\ alloc[p].age > AuthTimeout
              \/ offer[alloc[p].sid].st = "reserved" /\ offer'[alloc[p].sid].st = "void"
              \/ \E f \in CConns : /\ sess[f].port = p /\ sess[f].sid = alloc[p].sid
                                   /\ sess'[f] = NoSession]_vars

\* Seen through its ports the whole server implements PortLease without any
\* operator's intervention: Reserve, MarkOccupied, Release and the expiry, as
\* the data plane and the hub call them.
ImplementsUnattendedLease == Abstract!SpecUnattended

-----------------------------------------------------------------------------
(* The inductive invariant behind the safety properties: what ties the       *)
(* connections, the pending maps, the session objects, the sessions map and  *)
(* the pool to each other.                                                  *)

\* pendingS/pendingC and the connections in phase "pending" are inverse.
PendingInv ==
    /\ \A x \in Slots : pending[x] # NoConn =>
           /\ conn[pending[x]].phase = "pending"
           /\ x = <<Role(pending[x]), conn[pending[x]].port>>
    /\ \A c \in Conns : conn[c].phase = "pending" =>
           pending[<<Role(c), conn[c].port>>] = c

Live(f) == sess[f].phase \in {"start", "run"}

\* The open connections of sessions are those in phase "paired", no two
\* sessions share one, and the client slot of a stopped session is not reused.
SessionConnInv ==
    /\ \A f \in CConns : Live(f) => \A c \in {f, sess[f].be} :
           conn[c].phase = "paired" /\ conn[c].port = sess[f].port
    /\ \A c \in Conns : conn[c].phase = "paired" =>
           \E f \in CConns : Live(f) /\ c \in {f, sess[f].be}
    /\ \A f, g \in CConns : Live(f) /\ Live(g) /\ sess[f].be = sess[g].be => f = g
    /\ \A f \in CConns : sess[f].phase \in {"stop", "release"} => conn[f] = FreeSlot

\* The sessions map holds sessions that have not yet left it, each under its
\* own port, and only tryPair's current session is not yet started.
MapInv ==
    /\ RunningSessionsListed
    /\ \A p \in Ports : sessions[p] # NoConn =>
           /\ sess[sessions[p]].port = p
           /\ sess[sessions[p]].phase \in {"start", "run", "stop"}
    /\ \A f \in CConns : sess[f].phase = "start" <=> pairing = f

\* Nobody waits on a port that has a session.
WakeInv ==
    /\ \A x \in Slots : sessions[x[2]] # NoConn => pending[x] = NoConn
    /\ NoLostPair

\* A port's allocation and the hub's offer name each other.
GrantInv ==
    /\ AdmittedAsGranted
    /\ \A p \in Ports : alloc[p] # NoAlloc => offer[alloc[p].sid].port = p

\* All of it together is inductive.
IndInv ==
    /\ TypeOK /\ AllocIffHeld
    /\ PendingInv /\ SessionConnInv /\ MapInv /\ WakeInv /\ GrantInv
    /\ OccupiedHasSession

-----------------------------------------------------------------------------
\* A reservation for which nobody waits ends: it is paired, rolled back or
\* expired by checkHeartbeats.
LonelyReservationEnds ==
    \A p \in Ports, s \in SessionIds :
        ReservedFor(p, s) ~> \/ ~ReservedFor(p, s)
                             \/ \E r \in Roles : pending[<<r, p>>] # NoConn
                             \/ ctx # "run"

\* A connection that waits on a port without an allocation is not left there:
\* maintainPending or tryPair closes it, unless the port is allocated again.
OrphanPendingLeaves ==
    \A x \in Slots, c \in Conns :
        (pending[x] = c /\ alloc[x[2]] = NoAlloc)
            ~> (pending[x] # c \/ alloc[x[2]] # NoAlloc \/ ctx # "run")

\* Nobody waits for ever: not the two peers that wait on one port, and not a
\* handleConn for s.mu, which is never held for good.
PeersMeet ==
    /\ \A p \in Ports : BothPending(p) ~> ~BothPending(p)
    /\ \A c \in Conns : conn[c].phase = "checked" ~> conn[c].phase # "checked"

\* A stopped session gives its port back: onStop reaches pool.Release.
StoppedSessionFreesPort ==
    \A f \in CConns, p \in Ports, s \in SessionIds :
        (sess[f].phase = "stop" /\ sess[f].port = p /\ sess[f].sid = s)
            ~> alloc[p].sid # s

-----------------------------------------------------------------------------
\* README.md: a hello must carry the session_id of the pair_grant, else the
\* connection is rejected; so the two peers of a session carry the session's id.
SessionPeersMatch ==
    \A f \in CConns :
        sess[f].phase = "run" =>
            conn[f].sid = sess[f].sid /\ conn[sess[f].be].sid = sess[f].sid
=============================================================================
