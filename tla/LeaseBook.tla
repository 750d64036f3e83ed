----------------------------- MODULE LeaseBook -----------------------------
(***************************************************************************)
(* Leases of ports in V3: PortManager of v3/control/port_manager.go and    *)
(* the handlers of v3/control/hub.go that call it.  Unlike V1, a handler   *)
(* takes pm.mu once to see that a port is free and again to reserve it,    *)
(* and resets the port in the relay after it has given the lease back.     *)
(* The relay (module PortSlot) is reduced to the state of each port.       *)
(***************************************************************************)
EXTENDS Naturals, FiniteSets, FiniteSetsExt

CONSTANTS Ports, Clients, Sids, NoSid     \* as in PortManager

VARIABLES
    resv,       \* resvBySession: session id -> [owner, port], or Nothing
    byPort,     \* resvByPort: port -> session id
    byOwner,    \* resvByOwner: client -> set of session ids
    overdue,    \* the reservations whose expiresAt has passed
    port,       \* the relay's view: port -> "empty", "ready" or "busy"
    on,         \* the clients in the hub's map
    h,          \* client -> its handler: [st, list, port]
    raced       \* history: two handlers had found the same port free

vars == <<resv, byPort, byOwner, overdue, port, on, h, raced>>
book == <<resv, byPort, byOwner, overdue>>

Nothing == [owner |-> "", port |-> 0]
Live == {s \in Sids : resv[s] # Nothing}
Handler(st, list, p) == [st |-> st, list |-> list, port |-> p]
Off == Handler("off", {}, 0)
Idle == Handler("idle", {}, 0)

Init ==
    /\ resv = [s \in Sids |-> Nothing]
    /\ byPort = [p \in Ports |-> NoSid]
    /\ byOwner = [c \in Clients |-> {}]
    /\ overdue = {}
    /\ port = [p \in Ports |-> "empty"]
    /\ on = {}
    /\ h = [c \in Clients |-> Off]
    /\ raced = FALSE

-----------------------------------------------------------------------------
(* deleteReservationLocked: the port's entry goes, whichever lease it names. *)

ResvWithout(S) == [s \in Sids |-> IF s \in S THEN Nothing ELSE resv[s]]
PortWithout(S) == [p \in Ports |-> IF \E s \in S : resv[s].port = p THEN NoSid ELSE byPort[p]]

Delete(S) ==
    /\ resv' = ResvWithout(S)
    /\ byPort' = PortWithout(S)
    /\ byOwner' = [c \in Clients |-> byOwner[c] \ {s \in S : resv[s].owner = c}]
    /\ overdue' = overdue \ S

-----------------------------------------------------------------------------
(* A handler: handleConnection.                                             *)
Connect(c) ==
    /\ h[c] = Off
    /\ on' = on \cup {c}
    /\ h' = [h EXCEPT ![c] = Idle]
    /\ UNCHANGED <<book, port, raced>>

\* AcquireFromReady: the ready ports of a snapshot are tried in order...
AcquireFromReady(c) ==
    /\ h[c] = Idle
    /\ h' = [h EXCEPT ![c] = Handler("ready", {p \in Ports : port[p] = "ready"}, 0)]
    /\ UNCHANGED <<book, port, on, raced>>

\* Faulty variant: the book is not looked at.
isAnyAvailable(p) == TRUE

isPortAvailable(p) == byPort[p] = NoSid

Try(c) ==
    /\ h[c].st \in {"ready", "empty"} /\ h[c].list # {}
    /\ LET p == Min(h[c].list) IN
       h' = [h EXCEPT ![c] = IF isPortAvailable(p) THEN Handler("take", {}, p)
                             ELSE Handler(@.st, @.list \ {p}, 0)]
    /\ UNCHANGED <<book, port, on, raced>>

\* ... then, with a new snapshot, the empty ones (Acquire); then the request is refused.
Exhausted(c) ==
    /\ h[c].st \in {"ready", "empty"} /\ h[c].list = {}
    /\ h' = [h EXCEPT ![c] = IF @.st = "ready" THEN Handler("empty", {p \in Ports : port[p] = "empty"}, 0)
                             ELSE Idle]
    /\ UNCHANGED <<book, port, on, raced>>

\* reservePort, which does not look again; StartRelayPort finds the port started.
reservePort(c) ==
    /\ h[c].st = "take"
    /\ LET p == h[c].port IN
       \E s \in Sids \ Live :
           /\ resv' = [resv EXCEPT ![s] = [owner |-> c, port |-> p]]
           /\ byPort' = [byPort EXCEPT ![p] = s]
           /\ byOwner' = [byOwner EXCEPT ![c] = @ \cup {s}]
           /\ raced' = (raced \/ \E d \in Clients \ {c} : h[d].st = "take" /\ h[d].port = p)
    /\ h' = [h EXCEPT ![c] = Idle]
    /\ UNCHANGED <<overdue, port, on>>

\* port_release: Release...
Release(c, s) ==
    /\ h[c] = Idle /\ s \in Live /\ resv[s].owner = c
    /\ Delete({s})
    /\ h' = [h EXCEPT ![c] = Handler("reset", {}, resv[s].port)]
    /\ UNCHANGED <<port, on, raced>>

\* ... and ResetPort, by when the port may be somebody else's.
ResetPort(c) ==
    /\ h[c].st = "reset"
    /\ port' = [port EXCEPT ![h[c].port] = "empty"]
    /\ h' = [h EXCEPT ![c] = Idle]
    /\ UNCHANGED <<book, on, raced>>

\* Close and Unregister with ReleaseAllForOwner: at the end of the handler or,
\* in the midst of a message, by a broadcast that failed.  The port is not reset.
Unregister(c) ==
    /\ c \in on
    /\ on' = on \ {c}
    /\ h' = [h EXCEPT ![c] = IF @ = Idle THEN Off ELSE @]
    /\ Delete(byOwner[c])
    /\ UNCHANGED <<port, raced>>

HandlerEnds(c) ==
    /\ c \notin on /\ h[c] = Idle
    /\ h' = [h EXCEPT ![c] = Off]
    /\ UNCHANGED <<book, port, on, raced>>

-----------------------------------------------------------------------------
Expire(s) ==
    /\ s \in Live \ overdue
    /\ overdue' = overdue \cup {s}
    /\ UNCHANGED <<resv, byPort, byOwner, port, on, h, raced>>

\* sweepLoop.
Sweep ==
    /\ overdue # {}
    /\ Delete(overdue)
    /\ UNCHANGED <<port, on, h, raced>>

\* The relay: peers come to a port, are paired and leave.
RelayChanges(p) ==
    /\ \E st \in {"empty", "ready", "busy"} :
           /\ st # port[p] /\ (st = "busy" => port[p] = "ready")
           /\ port' = [port EXCEPT ![p] = st]
    /\ UNCHANGED <<book, on, h, raced>>

-----------------------------------------------------------------------------
Next ==
    \/ \E c \in Clients : \/ Connect(c) \/ AcquireFromReady(c) \/ Try(c) \/ Exhausted(c) \/ reservePort(c)
                          \/ ResetPort(c) \/ Unregister(c) \/ HandlerEnds(c)
                          \/ \E s \in Sids : Release(c, s)
    \/ \E s \in Sids : Expire(s)
    \/ Sweep
    \/ \E p \in Ports : RelayChanges(p)

Spec == Init /\ [][Next]_vars

-----------------------------------------------------------------------------
\* Type invariant.
TypeOK ==
    /\ resv \in [Sids -> [owner : Clients, port : Ports] \cup {Nothing}]
    /\ byPort \in [Ports -> Sids \cup {NoSid}]
    /\ byOwner \in [Clients -> SUBSET Sids]
    /\ overdue \subseteq Live
    /\ port \in [Ports -> {"empty", "ready", "busy"}]
    /\ on \subseteq Clients /\ raced \in BOOLEAN
    /\ h \in [Clients -> [st : {"off", "idle", "ready", "empty", "take", "reset"},
                          list : SUBSET Ports, port : Ports \cup {0}]]

\* Even when a port was reserved twice and one of the leases then took the
\* port's entry of the other away, no entry names a lease that is over (the
\* port could not be had again, for only its lease's end would remove it).
NoDanglingEntry ==
    /\ TypeOK
    /\ \A p \in Ports : byPort[p] # NoSid => byPort[p] \in Live /\ resv[byPort[p]].port = p
    /\ \A s \in Sids, c \in Clients : s \in byOwner[c] <=> s \in Live /\ resv[s].owner = c

\* Unless two handlers had found the same port free at the same time, a port
\* has one lease, and is protected by it until it ends.
ExclusiveUnlessRaced == ~raced => \A s \in Live : byPort[resv[s].port] = s
=============================================================================
