----------------------------- MODULE ControlHub -----------------------------
(***************************************************************************)
(* The control hub of v1/control/hub.go with log streaming (stream.go) and *)
(* the broadcasts of the relay's state (cmd/relay-server/main.go).         *)
(*                                                                         *)
(* Three kinds of goroutine send to clients: the handler of a connection,  *)
(* the tasks that broadcast a log line or a port state, and the telemetry  *)
(* of a backend.  Each Send holds the client's c.mu during the write,      *)
(* which has no deadline: it lasts as long as the peer does not read.  A   *)
(* client that is to be removed is closed, then unregistered under h.mu,   *)
(* for which a backend's c.mu is needed once more.                         *)
(***************************************************************************)
EXTENDS Naturals, Sequences, FiniteSets

CONSTANTS
    Clients,        \* slots of control connections, used again when free
    Watched,        \* those the liveness properties are about (all behave alike)
    Tasks,          \* slots of broadcasts and of telemetry goroutines
    MaxFE, MaxBE,
    None

Senders == Clients \cup Tasks
Role == {"FE", "BE"}
Max(r) == IF r = "FE" THEN MaxFE ELSE MaxBE
Other(r) == IF r = "FE" THEN "BE" ELSE "FE"

VARIABLES
    life,       \* client -> "free", "first", "open", "shut" (closed, to be unregistered),
                \* "locked" (its Close holds h.mu), "dead" or "leaked"
    role,       \* client -> the role it registered with
    reg,        \* the clients in feClients and beClients
    authed,     \* the clients with c.authed set
    first,      \* client -> the first message written to it: "", "auth" or "other"
    phase,      \* client -> its handler: "off", "auth" or "loop"
    todo,       \* sender -> the clients it has yet to send to
    casts,      \* sender -> the roles it has yet to broadcast to
    tele,       \* task -> the client whose telemetry it is
    mu,         \* client -> the sender in Send with c.mu held
    closing,    \* sender -> the client whose Close it runs in the middle of a broadcast
    full,       \* clients that do not read, so that writes to them block
    gone        \* clients whose far end has left

vars == <<life, role, reg, authed, first, phase, todo, casts, tele, mu, closing,
          full, gone>>
conns == <<life, role, reg, authed, first, phase>>
sends == <<todo, casts, tele, mu, closing>>
peers == <<full, gone>>

Init ==
    /\ life = [c \in Clients |-> "free"]
    /\ role = [c \in Clients |-> "FE"]
    /\ reg = {} /\ authed = {}
    /\ first = [c \in Clients |-> ""]
    /\ phase = [c \in Clients |-> "off"]
    /\ todo = [x \in Senders |-> {}]
    /\ casts = [x \in Senders |-> <<>>]
    /\ tele = [t \in Tasks |-> None]
    /\ mu = [c \in Clients |-> None]
    /\ closing = [x \in Senders |-> None]
    /\ full = {} /\ gone = {}

HubLocked == \E c \in Clients : life[c] = "locked"
Registered(r) == {c \in reg : role[c] = r}

\* A sender is in no Send, and in no Close.
Between(x) == closing[x] = None /\ \A c \in Clients : mu[c] # x
Idle(x) == todo[x] = {} /\ casts[x] = <<>> /\ Between(x)

-----------------------------------------------------------------------------
(* handleConnection.                                                        *)
Accept(c) ==
    /\ life[c] = "free"
    /\ life' = [life EXCEPT ![c] = "first"]
    /\ UNCHANGED <<role, reg, authed, first, phase, sends, peers>>

\* The first message is missing, malformed or not a registration, the secret
\* is wrong or the role is none of the two.
FirstFails(c) ==
    /\ life[c] = "first"
    /\ life' = [life EXCEPT ![c] = "free"]
    /\ UNCHANGED <<role, reg, authed, first, phase, sends, peers>>

Refuses(r) == Cardinality(Registered(r)) >= Max(r)

Register(c, r) ==
    /\ life[c] = "first" /\ ~HubLocked
    /\ \/ /\ Refuses(r)
          /\ life' = [life EXCEPT ![c] = "free"]
          /\ UNCHANGED <<role, reg, phase, todo>>
       \/ /\ ~Refuses(r)
          /\ life' = [life EXCEPT ![c] = "open"]
          /\ role' = [role EXCEPT ![c] = r]
          /\ reg' = reg \cup {c}
          /\ phase' = [phase EXCEPT ![c] = "auth"]
          /\ todo' = [todo EXCEPT ![c] = {c}]
    /\ UNCHANGED <<authed, first, casts, tele, mu, closing, peers>>

\* A message of the loop, by what is sent for it: a reply to ping, port_state
\* and a failed port_acquire; a reply and a broadcast to the other role for a
\* granted one; only the broadcast for port_release and, from a backend, for
\* key_exchange and port_alloc, which also starts a telemetry goroutine.
Message(c, reply, cast, t) ==
    /\ phase[c] = "loop" /\ life[c] = "open" /\ c \notin gone /\ Idle(c)
    /\ reply \/ cast
    /\ todo' = [todo EXCEPT ![c] = IF reply THEN {c} ELSE {}]
    /\ casts' = [casts EXCEPT ![c] = IF cast THEN <<Other(role[c])>> ELSE <<>>]
    /\ \/ t = None /\ UNCHANGED tele
       \/ /\ t \in Tasks /\ tele[t] = None /\ Idle(t)
          /\ role[c] = "BE" /\ cast /\ ~reply
          /\ tele' = [tele EXCEPT ![t] = c]
    /\ UNCHANGED <<conns, mu, closing, peers>>

\* Writes to the connection fail.
Broken(c) == life[c] # "open" \/ c \in gone

\* Faulty variant: the handler returns without the deferred Close.
ReadFailsQuietly(c) ==
    /\ phase[c] = "loop" /\ Idle(c)
    /\ phase' = [phase EXCEPT ![c] = "off"]
    /\ UNCHANGED <<life, role, reg, authed, first, sends, peers>>

\* Decode fails, because the connection is broken or what came is not JSON: the
\* deferred Close begins.
ReadFails(c) ==
    /\ phase[c] = "loop" /\ Idle(c)
    /\ phase' = [phase EXCEPT ![c] = "off"]
    /\ life' = [life EXCEPT ![c] = IF @ = "open" THEN "shut" ELSE @]
    /\ UNCHANGED <<role, reg, authed, first, sends, peers>>

\* Unregister takes h.mu...
UnregisterLock(c) ==
    /\ life[c] = "shut" /\ ~HubLocked
    /\ life' = [life EXCEPT ![c] = "locked"]
    /\ UNCHANGED <<role, reg, authed, first, phase, sends, peers>>

\* ... and for a backend c.mu, when whoever sends to it has given up.  The
\* goroutine that ran Close goes on.
Unregister(c) ==
    /\ life[c] = "locked"
    /\ role[c] = "BE" => mu[c] = None
    /\ life' = [life EXCEPT ![c] = "dead"]
    /\ reg' = reg \ {c}
    /\ closing' = [x \in Senders |-> IF closing[x] = c THEN None ELSE closing[x]]
    /\ UNCHANGED <<role, authed, first, phase, todo, casts, tele, mu, peers>>

\* Nothing refers to the client any more.
Reuse(c) ==
    /\ life[c] = "dead" /\ phase[c] = "off" /\ mu[c] = None
    /\ \A x \in Senders : c \notin todo[x]
    /\ \A t \in Tasks : tele[t] # c
    /\ life' = [life EXCEPT ![c] = "free"]
    /\ authed' = authed \ {c}
    /\ first' = [first EXCEPT ![c] = ""]
    /\ role' = [role EXCEPT ![c] = "FE"]
    /\ full' = full \ {c} /\ gone' = gone \ {c}
    /\ UNCHANGED <<reg, phase, sends>>

-----------------------------------------------------------------------------
(* Senders.                                                                 *)

\* A log line (Write) or a change of the relay's state (main) is broadcast to
\* both roles.
StartBroadcast(t) ==
    /\ tele[t] = None /\ Idle(t)
    /\ \E r \in Role : casts' = [casts EXCEPT ![t] = <<r, Other(r)>>]
    /\ UNCHANGED <<conns, todo, tele, mu, closing, peers>>

\* startTelemetry: the next tick.
Tick(t) ==
    /\ tele[t] # None /\ Idle(t)
    /\ todo' = [todo EXCEPT ![t] = {tele[t]}]
    /\ UNCHANGED <<conns, casts, tele, mu, closing, peers>>

\* Faulty variant: every registered client is sent to.
TargetsAll(r) == Registered(r)

Targets(r) == Registered(r) \cap authed

\* BroadcastToRole takes its targets under h.mu, when the sends before it are over.
BroadcastToRole(x) ==
    /\ casts[x] # <<>> /\ todo[x] = {} /\ Between(x)
    /\ ~HubLocked
    /\ todo' = [todo EXCEPT ![x] = Targets(Head(casts[x]))]
    /\ casts' = [casts EXCEPT ![x] = Tail(@)]
    /\ UNCHANGED <<conns, tele, mu, closing, peers>>

\* Faulty variant: telemetry goes on.
TeleGoesOn(x, c) == UNCHANGED tele

TeleEnds(x, c) == tele' = IF x \in Tasks /\ tele[x] = c THEN [tele EXCEPT ![x] = None] ELSE tele

\* A sender whose Send has failed goes on: a telemetry goroutine ends, and a
\* handler that could not send the auth reply closes the connection and ends
\* without Unregister.
AfterError(x, c) ==
    /\ TeleEnds(x, c)
    /\ todo' = [todo EXCEPT ![x] = @ \ {c}]
    /\ phase' = IF x = c /\ phase[c] = "auth" THEN [phase EXCEPT ![c] = "off"] ELSE phase
    /\ UNCHANGED <<role, reg, authed, first, casts, peers>>

\* Send: refused at once when c.closed is set, else it waits for c.mu.
SendRefused(x, c) ==
    /\ c \in todo[x] /\ life[c] \in {"shut", "locked", "dead"}
    /\ Between(x)
    /\ AfterError(x, c)
    /\ UNCHANGED <<life, mu, closing>>

SendLocks(x, c) ==
    /\ c \in todo[x] /\ life[c] = "open" /\ mu[c] = None
    /\ Between(x)
    /\ mu' = [mu EXCEPT ![c] = x]
    /\ UNCHANGED <<conns, todo, casts, tele, closing, peers>>

\* The message is written.  After the auth reply the handler sets authed and
\* sends the first port state, to which a client may be slow like to any other.
SendWrites(x, c) ==
    /\ mu[c] = x /\ ~Broken(c) /\ c \notin full
    /\ mu' = [mu EXCEPT ![c] = None]
    /\ LET auth == x = c /\ phase[c] = "auth" IN
       /\ first' = [first EXCEPT ![c] = IF @ # "" THEN @ ELSE IF auth THEN "auth" ELSE "other"]
       /\ authed' = IF auth THEN authed \cup {c} ELSE authed
       /\ phase' = IF auth THEN [phase EXCEPT ![c] = "loop"] ELSE phase
       /\ todo' = IF auth THEN todo ELSE [todo EXCEPT ![x] = @ \ {c}]
    /\ UNCHANGED <<life, role, reg, casts, tele, closing, peers>>

\* Is the Send to c one of a broadcast?
OfBroadcast(x, c) == x # c /\ ~(x \in Tasks /\ tele[x] = c)

\* The write fails.  A broadcast runs the client's Close before its next Send,
\* unless the client is closed already.
SendFails(x, c) ==
    /\ mu[c] = x /\ Broken(c)
    /\ mu' = [mu EXCEPT ![c] = None]
    /\ \/ /\ life[c] = "open" /\ OfBroadcast(x, c)
          /\ life' = [life EXCEPT ![c] = "shut"]
          /\ closing' = [closing EXCEPT ![x] = c]
       \/ /\ life[c] # "open" \/ ~OfBroadcast(x, c)
          /\ life' = [life EXCEPT ![c] = IF @ = "open" /\ x = c /\ phase[c] = "auth"
                                         THEN "leaked" ELSE @]
          /\ UNCHANGED closing
    /\ AfterError(x, c)

-----------------------------------------------------------------------------
(* Peers: they stop reading, read again, and leave.                         *)
Stalls(c) ==
    /\ life[c] = "open" /\ c \notin full \cup gone
    /\ full' = full \cup {c}
    /\ UNCHANGED <<conns, sends, gone>>

Resumes(c) ==
    /\ c \in full
    /\ full' = full \ {c}
    /\ UNCHANGED <<conns, sends, gone>>

Leaves(c) ==
    /\ life[c] = "open" /\ c \notin gone
    /\ gone' = gone \cup {c} /\ full' = full \ {c}
    /\ UNCHANGED <<conns, sends>>

-----------------------------------------------------------------------------
Sends(x) == \E c \in Clients : SendRefused(x, c) \/ SendLocks(x, c) \/ SendWrites(x, c) \/ SendFails(x, c)

Next ==
    \/ \E c \in Clients : \/ Accept(c) \/ FirstFails(c) \/ ReadFails(c)
                          \/ \E r \in Role : Register(c, r)
                          \/ \E reply, cast \in BOOLEAN, t \in Tasks \cup {None} : Message(c, reply, cast, t)
                          \/ UnregisterLock(c) \/ Unregister(c) \/ Reuse(c)
                          \/ Stalls(c) \/ Resumes(c) \/ Leaves(c)
    \/ \E t \in Tasks : StartBroadcast(t) \/ Tick(t)
    \/ \E x \in Senders : BroadcastToRole(x) \/ Sends(x)

Spec == Init /\ [][Next]_vars

\* The goroutines run; locks are granted fairly (Go's mutexes do not starve a
\* waiter).  Nothing is assumed of the peers.
Fairness ==
    /\ \A c \in Clients : /\ SF_vars(UnregisterLock(c) \/ Unregister(c))
                          /\ WF_vars(Broken(c) /\ ReadFails(c)) /\ WF_vars(Reuse(c))
    /\ \A t \in Tasks : WF_vars(Tick(t))
    /\ \A x \in Senders : SF_vars(BroadcastToRole(x) \/ Sends(x))

FairSpec == Spec /\ Fairness

-----------------------------------------------------------------------------
\* Type invariant.
TypeOK ==
    /\ life \in [Clients -> {"free", "first", "open", "shut", "locked", "dead", "leaked"}]
    /\ role \in [Clients -> Role]
    /\ \A r \in Role : Cardinality(Registered(r)) <= Max(r)
    /\ reg \subseteq Clients /\ authed \subseteq reg \cup {c \in Clients : life[c] = "dead"}
    /\ first \in [Clients -> {"", "auth", "other"}]
    /\ phase \in [Clients -> {"off", "auth", "loop"}]
    /\ todo \in [Senders -> SUBSET Clients]
    /\ casts \in [Senders -> UNION {[1 .. n -> Role] : n \in 0 .. 2}]
    /\ tele \in [Tasks -> Clients \cup {None}]
    /\ mu \in [Clients -> Senders \cup {None}]
    /\ closing \in [Senders -> Clients \cup {None}]
    /\ full \subseteq Clients /\ gone \subseteq Clients

\* The first thing a client receives is its auth reply, although broadcasts
\* run while it registers.
AuthFirst == TypeOK /\ \A c \in Clients : first[c] # "other"

\* Every entry in the hub's maps, and so every place that counts against MaxFE
\* or MaxBE, has someone who takes it out: the client's handler with its deferred
\* Close, or a Close under way.  There is one exception: the entry of a client
\* whose auth reply could not be sent, which has received nothing.
EntriesAttended ==
    \A c \in reg :
        \/ phase[c] # "off"
        \/ life[c] \in {"shut", "locked"}
        \/ life[c] = "leaked" /\ c \notin authed /\ first[c] = ""

Stalled(c) == \E d \in full : d # c /\ life[d] = "open"

\* The departure of a peer is noticed and everything that was started for it
\* ends, broadcasts and telemetry included, unless another client does not
\* read (which stops all who send to it), or its auth reply failed.  And a
\* client that is closed leaves the maps, and h.mu is given back: its Close
\* waits for c.mu with h.mu held, but whoever sends to that client fails,
\* because the connection was closed before.
DepartureCleansUp ==
    \A c \in Watched :
        /\ c \in gone /\ life[c] = "open" ~> life[c] \in {"free", "leaked"} \/ Stalled(c)
        /\ life[c] = "shut" ~> life[c] = "dead"
=============================================================================
