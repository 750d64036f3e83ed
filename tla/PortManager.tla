---------------------------- MODULE PortManager ----------------------------
(***************************************************************************)
(* PortManager of v1/control/port_manager.go: reservations of data ports   *)
(* for control clients, in three maps under pm.mu, ended by release, by    *)
(* the owner's departure, by time, or by the relay's port-free callback.   *)
(* The relay (module RelayServer) is reduced here to what the manager sees *)
(* of it: the state of each port, and the callbacks it has yet to make.    *)
(***************************************************************************)
EXTENDS Integers, FiniteSets

CONSTANTS
    ZMQ, SRT,       \* the ports of the two protocols: disjoint sets of numbers
    Frontends, Backends,
    Sids,           \* session ids; one is used again after its end
    HookBound,      \* callbacks under way on a port
    NoSid

ASSUME PortAssumption == ZMQ \cup SRT \subseteq Nat \ {0} /\ ZMQ \cap SRT = {}
ASSUME SidAssumption == NoSid \notin Sids
ASSUME HookAssumption == HookBound \in Nat

Ports == ZMQ \cup SRT
Clients == Frontends \cup Backends

VARIABLES
    resv,       \* resvBySession: session id -> [owner, port], or Nothing
    byPort,     \* resvByPort: port -> session id
    byOwner,    \* resvByOwner: client -> set of session ids
    range,      \* zmqPorts and srtPorts together
    overdue,    \* the reservations whose expiresAt has passed
    client,     \* client -> "off", "on", or "late": unregistered in mid-message
    port,       \* the relay's view: port -> "empty", "ready" or "busy"
    hooks,      \* port -> onPortFree callbacks that have yet to run
    sound       \* history: reservations whose loss nothing justifies so far

vars == <<resv, byPort, byOwner, range, overdue, client, port, hooks, sound>>
relay == <<port, hooks>>

Nothing == [owner |-> "", port |-> 0]
Live == {s \in Sids : resv[s] # Nothing}
Needs == {{}, {"zmq"}, {"srt"}, {"zmq", "srt"}}

Init ==
    /\ resv = [s \in Sids |-> Nothing]
    /\ byPort = [p \in Ports |-> NoSid]
    /\ byOwner = [c \in Clients |-> {}]
    /\ range \in {{}, Ports}
    /\ overdue = {}
    /\ client = [c \in Clients |-> "off"]
    /\ port = [p \in Ports |-> "empty"]
    /\ hooks = [p \in Ports |-> 0]
    /\ sound = {}

-----------------------------------------------------------------------------
(* deleteReservationLocked of all reservations of S: the three maps after it. *)

\* Faulty variant: the port keeps naming the reservation.
PortStays(S) == byPort

ResvWithout(S) == [s \in Sids |-> IF s \in S THEN Nothing ELSE resv[s]]
PortWithout(S) == [p \in Ports |-> IF \E s \in S : resv[s].port = p THEN NoSid ELSE byPort[p]]
OwnerWithout(S) == [c \in Clients |-> byOwner[c] \ {s \in S : resv[s].owner = c}]

Delete(S) ==
    /\ resv' = ResvWithout(S)
    /\ byPort' = PortWithout(S)
    /\ byOwner' = OwnerWithout(S)
    /\ overdue' = overdue \ S

-----------------------------------------------------------------------------
\* SetRanges: the configured ports, or those of a backend's port_alloc.
SetRanges(R) ==
    /\ range' = R
    /\ UNCHANGED <<resv, byPort, byOwner, overdue, client, relay, sound>>

Proto(p) == IF p \in ZMQ THEN "zmq" ELSE "srt"

\* The ports a request may be given: Acquire looks through the ranges and
\* AcquireFromReady, for frontends, through the ready ports of a snapshot.
FreePorts(c, S) ==
    {p \in IF c \in Frontends THEN {q \in Ports : port[q] = "ready"} ELSE range :
        PortWithout(S)[p] = NoSid /\ port[p] # "busy"}

\* Acquire and AcquireFromReady.  A request must name exactly one protocol;
\* any other is refused before anything is touched.  The overdue reservations
\* are swept first, also when the request then fails.
Acquire(c, need) ==
    /\ client[c] # "off"
    /\ LET S == IF Cardinality(need) = 1 THEN overdue ELSE {}
           avail == {p \in FreePorts(c, S) : Proto(p) \in need}
           ok == Cardinality(need) = 1 /\ avail # {}
       IN  \/ ~ok /\ Delete(S) /\ UNCHANGED sound
           \/ \E s \in Sids, p \in avail :
                 /\ ok /\ s \notin Live /\ \A q \in avail : p =< q
                 /\ resv' = [ResvWithout(S) EXCEPT ![s] = [owner |-> c, port |-> p]]
                 /\ byPort' = [PortWithout(S) EXCEPT ![p] = s]
                 /\ byOwner' = [OwnerWithout(S) EXCEPT ![c] = @ \cup {s}]
                 /\ overdue' = overdue \ S
                 /\ sound' = sound \cup (IF hooks[p] = 0 THEN {s} ELSE {})
    /\ UNCHANGED <<range, client, relay>>

\* Release: only the owner's own, still existing reservation.
Release(c, s) ==
    /\ client[c] # "off" /\ s \in Live /\ resv[s].owner = c
    /\ Delete({s})
    /\ sound' = sound \ {s}
    /\ UNCHANGED <<range, client, relay>>

\* Faulty variant: every reservation of the owner ends with the port's.
OwnersOf(p) == IF byPort[p] = NoSid THEN {} ELSE byOwner[resv[byPort[p]].owner]

Reserved(p) == {byPort[p]} \cap Live

\* ReleaseByPort, called back by the relay after a session or a StopPort.
PortFree(p) ==
    /\ hooks[p] > 0
    /\ hooks' = [hooks EXCEPT ![p] = @ - 1]
    /\ Delete(Reserved(p))
    /\ UNCHANGED <<range, client, port, sound>>

\* sweepLoop, once per second.
Sweep ==
    /\ overdue # {}
    /\ Delete(overdue)
    /\ UNCHANGED <<range, client, relay, sound>>

-----------------------------------------------------------------------------
(* Clients, time and the relay.                                             *)
Connect(c) ==
    /\ client[c] = "off"
    /\ client' = [client EXCEPT ![c] = "on"]
    /\ UNCHANGED <<resv, byPort, byOwner, range, overdue, relay, sound>>

\* Unregister calls ReleaseAllForOwner.  When a failed broadcast closes the
\* client, its handler may still be at work on a message ("late").
Unregister(c, handler) ==
    /\ client[c] = "on"
    /\ client' = [client EXCEPT ![c] = handler]
    /\ Delete(byOwner[c] \cap Live)
    /\ sound' = {s \in sound : resv[s].owner # c}
    /\ UNCHANGED <<range, relay>>

HandlerEnds(c) ==
    /\ client[c] = "late"
    /\ client' = [client EXCEPT ![c] = "off"]
    /\ UNCHANGED <<resv, byPort, byOwner, range, overdue, relay, sound>>

Expire(s) ==
    /\ s \in Live \ overdue
    /\ overdue' = overdue \cup {s}
    /\ sound' = sound \ {s}
    /\ UNCHANGED <<resv, byPort, byOwner, range, client, relay>>

\* A backend waits on the port, or a frontend is paired with it.
RelayGoesOn(p) ==
    /\ port' = [port EXCEPT ![p] = IF @ = "empty" THEN "ready" ELSE "busy"]
    /\ port[p] # "busy"
    /\ UNCHANGED <<resv, byPort, byOwner, range, overdue, client, hooks, sound>>

\* A session ends, with its backend kept or not, or the port is stopped: the
\* callback comes later, when s.mu is no longer held.
RelayFrees(p) ==
    /\ hooks[p] < HookBound
    /\ \E st \in {"empty", "ready"} : /\ st = "ready" => port[p] = "busy"
                                      /\ port' = [port EXCEPT ![p] = st]
    /\ hooks' = [hooks EXCEPT ![p] = @ + 1]
    /\ sound' = sound \ Reserved(p)
    /\ UNCHANGED <<resv, byPort, byOwner, range, overdue, client>>

\* SnapshotPortState finds the waiting backend dead: no callback follows.
RelayDrops(p) ==
    /\ port[p] = "ready"
    /\ port' = [port EXCEPT ![p] = "empty"]
    /\ UNCHANGED <<resv, byPort, byOwner, range, overdue, client, hooks, sound>>

-----------------------------------------------------------------------------
Next ==
    \/ \E R \in {{}, Ports} : SetRanges(R)
    \/ \E c \in Clients : \/ \E need \in Needs : Acquire(c, need)
                          \/ \E s \in Sids : Release(c, s)
                          \/ \E handler \in {"off", "late"} : Unregister(c, handler)
                          \/ Connect(c) \/ HandlerEnds(c)
    \/ \E p \in Ports : PortFree(p) \/ RelayGoesOn(p) \/ RelayFrees(p) \/ RelayDrops(p)
    \/ Sweep
    \/ \E s \in Sids : Expire(s)

Spec == Init /\ [][Next]_vars

-----------------------------------------------------------------------------
\* Type invariant.
TypeOK ==
    /\ resv \in [Sids -> [owner : Clients, port : Ports] \cup {Nothing}]
    /\ byPort \in [Ports -> Sids \cup {NoSid}]
    /\ byOwner \in [Clients -> SUBSET Sids]
    /\ range \in {{}, Ports}
    /\ overdue \subseteq Live /\ sound \subseteq Sids
    /\ client \in [Clients -> {"off", "on", "late"}]
    /\ port \in [Ports -> {"empty", "ready", "busy"}]
    /\ hooks \in [Ports -> 0 .. HookBound]

\* The three maps say the same after every mix of grants, releases, sweeps and
\* callbacks; so no port has two reservations, and none is forgotten by the
\* map through which its owner's departure or its port's end would find it.
MapsAgree ==
    /\ TypeOK
    /\ \A s \in Sids, p \in Ports : byPort[p] = s <=> s \in Live /\ resv[s].port = p
    /\ \A s \in Sids, c \in Clients : s \in byOwner[c] <=> s \in Live /\ resv[s].owner = c

\* No reservation disappears without a cause: one that is not overdue, that
\* its owner neither released nor lost by departing, and whose port has seen
\* no session end and no stop since the grant, is still there, unless the
\* callback of an earlier session was still to come when it was granted.
LossExplained == sound \subseteq Live
=============================================================================
