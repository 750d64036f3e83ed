--------------------------------- MODULE Hub ---------------------------------
(***************************************************************************)
(* The control plane of the V4 gateway (src/v4/control/server.go):         *)
(* registration, the loss of control connections, and the pairLoop         *)
(* goroutines that reserve ports in the ZMQ and the SRT pool.              *)
(*                                                                         *)
(* Every goroutine's steps that touch shared state are separate actions:   *)
(* pairLoop snapshots the servers under h.mu, reads the two pools one      *)
(* after the other, reserves in each, and looks the server up again before *)
(* it forwards the grant; anything may happen in between.  What the data   *)
(* plane does to the pools is the environment (modelled in DataPlane).     *)
(*                                                                         *)
(* Not in the state: tokens, rejected registrations and the messages that  *)
(* only report (register_ack, status, telemetry, port_state, /status).     *)
(***************************************************************************)
EXTENDS Integers, FiniteSets

CONSTANTS
    ZStart, ZEnd, SStart, SEnd,     \* the two port ranges
    AuthTimeout, None,
    Ids,                \* ids that peers register under, ordered like strings
    Peers, NoPeer,      \* slots of control connections (Client objects)
    MaxConnections,     \* gateway.max_connections
    Capacities,         \* the max_conn values servers send
    Requests,           \* pair_requests, each its own goroutine
    Needs,              \* the <<need_zmq, need_srt>> that clients send
    Wants,              \* the server_id that clients send, None if empty
    MaxAttempts         \* tries of pairLoop: 50 in the code

ASSUME HubAssumption ==
    /\ Ids \subseteq Nat /\ None \notin Ids
    /\ NoPeer \notin Peers
    /\ MaxConnections \in Nat /\ Capacities \subseteq Int
    /\ MaxAttempts \in Nat \ {0}
    /\ Needs \subseteq BOOLEAN \X BOOLEAN /\ Wants \subseteq Ids \cup {None}

VARIABLES
    zstate, zalloc, sstate, salloc,     \* the pools
    peer,       \* slot -> its Client
    clients,    \* keys of h.clients
    servers,    \* h.servers: id -> slot
    fe,         \* h.fe: id -> slot
    loop,       \* request -> its pairLoop goroutine
    answer,     \* request -> what the requesting client received
    told,       \* request -> the server connection that received the grant
    running     \* ctx is not done

hubVars == <<zstate, zalloc, sstate, salloc, peer, clients, servers, fe,
             loop, answer, told, running>>

\* newID() never repeats: one id per attempt of a request.
SessionIds == Requests \X (1 .. MaxAttempts)

Z == INSTANCE PortPool WITH PortStart <- ZStart, PortEnd <- ZEnd, Servers <- Ids,
                            Clients <- Ids, state <- zstate, alloc <- zalloc
S == INSTANCE PortPool WITH PortStart <- SStart, PortEnd <- SEnd, Servers <- Ids,
                            Clients <- Ids, state <- sstate, alloc <- salloc

\* NewPool rejects other ranges, Config.Validate other timeouts; ids are not empty.
ASSUME PoolsAssumption ==
    /\ ZStart \in Nat /\ ZEnd \in Nat /\ SStart \in Nat /\ SEnd \in Nat
    /\ 0 < ZStart /\ ZStart <= ZEnd /\ ZEnd <= 65535
    /\ 0 < SStart /\ SStart <= SEnd /\ SEnd <= 65535
    /\ AuthTimeout \in Nat /\ AuthTimeout > 0
    /\ None \notin SessionIds

NoClient == [role |-> "none", id |-> None, max |-> 0, link |-> "closed"]

NoLoop == [pc |-> "unused", client |-> NoPeer, cid |-> None, want |-> None,
           zmq |-> FALSE, srt |-> FALSE, i |-> 1, cands |-> {}, server |-> None,
           zport |-> 0, sport |-> 0, srv |-> NoPeer]

Init ==
    /\ Z!InitPool /\ S!InitPool
    /\ peer = [c \in Peers |-> NoClient]
    /\ clients = {}
    /\ servers = [id \in Ids |-> NoPeer]
    /\ fe = [id \in Ids |-> NoPeer]
    /\ loop = [r \in Requests |-> NoLoop]
    /\ answer = [r \in Requests |-> "none"]
    /\ told = [r \in Requests |-> NoPeer]
    /\ running = TRUE

-----------------------------------------------------------------------------
(* Registration.                                                            *)
Effective(max) == IF max <= 0 THEN 1 ELSE max

\* A slot's Client object lives on while a pairLoop refers to it.
SlotFree(c) == peer[c] = NoClient /\ \A r \in Requests : c \notin {loop[r].client, loop[r].srv}

RoomLeft == Cardinality(clients) < MaxConnections

\* Faulty variant: a second registration under an id replaces the first.
IdFreeAlways(m, id) == TRUE

IdFree(m, id) == m[id] = NoPeer

\* Connections accepted before the shutdown may still register after it.
RegisterServer(c, id, max) ==
    /\ SlotFree(c)
    /\ RoomLeft /\ IdFree(servers, id)
    /\ peer' = [peer EXCEPT ![c] = [role |-> "server", id |-> id,
                                    max |-> Effective(max), link |-> "up"]]
    /\ servers' = [servers EXCEPT ![id] = c]
    /\ clients' = clients \cup {c}
    /\ UNCHANGED <<zstate, zalloc, sstate, salloc, fe, loop, answer, told, running>>

RegisterClient(c, id) ==
    /\ SlotFree(c)
    /\ RoomLeft /\ IdFree(fe, id)
    /\ peer' = [peer EXCEPT ![c] = [role |-> "client", id |-> id,
                                    max |-> 1, link |-> "up"]]
    /\ fe' = [fe EXCEPT ![id] = c]
    /\ clients' = clients \cup {c}
    /\ UNCHANGED <<zstate, zalloc, sstate, salloc, servers, loop, answer, told, running>>

\* The peer stops reading, so that a Send to it blocks (there is no write
\* deadline), or reads again.
LinkStalls(c) ==
    /\ peer[c].link \in {"up", "stalled"}
    /\ peer' = [peer EXCEPT ![c].link = IF @ = "up" THEN "stalled" ELSE "up"]
    /\ UNCHANGED <<zstate, zalloc, sstate, salloc, clients, servers, fe,
                   loop, answer, told, running>>

\* The peer is gone, and nothing on this side has noticed.
LinkLost(c) ==
    /\ peer[c].link \in {"up", "stalled"}
    /\ peer' = [peer EXCEPT ![c].link = "lost"]
    /\ UNCHANGED <<zstate, zalloc, sstate, salloc, clients, servers, fe,
                   loop, answer, told, running>>

\* handleConn leaves its loop: Decode fails because the peer has closed the
\* connection, or ctx is done when a message has been handled.
PeerClosed(c) ==
    /\ peer[c].link \in {"up", "stalled"}
    /\ peer' = [peer EXCEPT ![c].link = "closed"]
    /\ UNCHANGED <<zstate, zalloc, sstate, salloc, clients, servers, fe,
                   loop, answer, told, running>>

\* Broadcast sends to one client after the other: a Send that blocks keeps it
\* from all the others.
NobodyStalls == \A c \in clients : peer[c].link # "stalled"

\* Faulty variant: the error of Send is ignored.
BroadcastIgnoresError(c) ==
    /\ NobodyStalls
    /\ c \in clients /\ peer[c].link = "lost"
    /\ UNCHANGED hubVars

\* Broadcast (every second or two) fails to Send and closes the connection,
\* which makes handleConn's Decode return.
BroadcastCloses(c) ==
    /\ NobodyStalls
    /\ c \in clients /\ peer[c].link = "lost"
    /\ peer' = [peer EXCEPT ![c].link = "closed"]
    /\ UNCHANGED <<zstate, zalloc, sstate, salloc, clients, servers, fe,
                   loop, answer, told, running>>

\* Only the connection's own entry goes (cur == c).
Without(m, c) == [id \in Ids |-> IF m[id] = c THEN NoPeer ELSE m[id]]

\* The deferred unregister and Close of handleConn.
Unregister(c) ==
    /\ peer[c].role # "none" /\ peer[c].link = "closed"
    /\ clients' = clients \ {c}
    /\ servers' = IF peer[c].role = "server" THEN Without(servers, c) ELSE servers
    /\ fe' = IF peer[c].role = "client" THEN Without(fe, c) ELSE fe
    /\ peer' = [peer EXCEPT ![c] = NoClient]
    /\ UNCHANGED <<zstate, zalloc, sstate, salloc, loop, answer, told, running>>

-----------------------------------------------------------------------------
(* pairLoop.                                                                *)
Goto(r, pc) == [loop EXCEPT ![r].pc = pc]

\* Faulty variant: the last attempt fails without a pair_error.
BackoffSilently(r) ==
    [loop EXCEPT ![r] =
        [@ EXCEPT !.pc = IF loop[r].i < MaxAttempts THEN "begin" ELSE "failed",
                  !.i = IF loop[r].i < MaxAttempts THEN loop[r].i + 1 ELSE loop[r].i,
                  !.cands = {}, !.server = None,
                  !.zport = 0, !.sport = 0]]

\* A CodeUnavailable error: sleep and try again, at most MaxAttempts times.
Backoff(r) ==
    [loop EXCEPT ![r] =
        [@ EXCEPT !.pc = IF loop[r].i < MaxAttempts THEN "begin" ELSE "giveup",
                  !.i = IF loop[r].i < MaxAttempts THEN loop[r].i + 1 ELSE loop[r].i,
                  !.cands = {}, !.server = None,
                  !.zport = 0, !.sport = 0]]

Sid(r) == <<r, loop[r].i>>

\* handlePairRequest: only clients may ask; want = None leaves the choice open.
PairRequest(c, r, want, need) ==
    /\ c \in clients /\ peer[c].role = "client" /\ peer[c].link = "up"
    /\ loop[r] = NoLoop
    /\ loop' = [loop EXCEPT ![r] = [NoLoop EXCEPT !.pc = "begin",
                                        !.client = c, !.cid = peer[c].id,
                                        !.want = want, !.zmq = need[1], !.srt = need[2]]]
    /\ UNCHANGED <<zstate, zalloc, sstate, salloc, peer, clients, servers, fe,
                   answer, told, running>>

PairCtxDone(r) ==
    /\ loop[r].pc = "begin" /\ ~running
    /\ loop' = Goto(r, "failed")
    /\ UNCHANGED <<zstate, zalloc, sstate, salloc, peer, clients, servers, fe,
                   answer, told, running>>

\* The servers to choose from, as registered at this instant.
PairSnapshot(r) ==
    LET online == {id \in Ids : servers[id] # NoPeer /\ loop[r].want \in {None, id}}
        cands == {[id |-> id, rem |-> peer[servers[id]].max] : id \in online}
    IN  /\ loop[r].pc = "begin" /\ running
        /\ loop' = IF cands = {} THEN Backoff(r)
                   ELSE [loop EXCEPT ![r].pc = "countZ", ![r].cands = cands]
        /\ UNCHANGED <<zstate, zalloc, sstate, salloc, peer, clients, servers, fe,
                       answer, told, running>>

\* poolOccupiedPorts: the Occupied ports of a pool allocated to a server.
OccupiedPorts(st, al, id) ==
    {p \in DOMAIN st : st[p] = "Occupied" /\ al[p].server = id}

\* The remaining capacity of the candidates, less what one pool shows.
Charge(cands, st, al) ==
    {[c EXCEPT !.rem = c.rem - Cardinality(OccupiedPorts(st, al, c.id))] : c \in cands}

PairCountZ(r) ==
    /\ loop[r].pc = "countZ"
    /\ loop' = [loop EXCEPT ![r].pc = "countS",
                            ![r].cands = Charge(loop[r].cands, zstate, zalloc)]
    /\ UNCHANGED <<zstate, zalloc, sstate, salloc, peer, clients, servers, fe,
                   answer, told, running>>

\* sort.Slice: most remaining capacity first, then the smaller id.
Best(cands) ==
    CHOOSE c \in cands : \A d \in cands : c.rem > d.rem \/ (c.rem = d.rem /\ c.id <= d.id)

FirstStep(r) ==
    IF loop[r].zmq THEN "zmq" ELSE IF loop[r].srt THEN "srt" ELSE "bad"

\* The second pool is counted and the server chosen.
PairChoose(r) ==
    LET able == {c \in Charge(loop[r].cands, sstate, salloc) : c.rem > 0}
    IN  /\ loop[r].pc = "countS"
        /\ loop' = IF able = {} THEN Backoff(r)
                   ELSE [loop EXCEPT ![r].pc = FirstStep(r), ![r].cands = {},
                                     ![r].server = Best(able).id]
        /\ UNCHANGED <<zstate, zalloc, sstate, salloc, peer, clients, servers, fe,
                       answer, told, running>>

PairReserveZ(r) ==
    /\ loop[r].pc = "zmq"
    /\ \/ \E p \in Z!Ports :
              /\ Z!ReserveAt(p, Sid(r), loop[r].server, loop[r].cid)
              /\ loop' = [loop EXCEPT ![r].pc = IF loop[r].srt THEN "srt" ELSE "grant",
                                      ![r].zport = p]
       \/ /\ Z!NoIdlePort
          /\ loop' = Backoff(r)
          /\ UNCHANGED <<zstate, zalloc>>
    /\ UNCHANGED <<sstate, salloc, peer, clients, servers, fe, answer, told, running>>

\* Faulty variant: a failed SRT reservation is reported, the ZMQ one kept.
AfterSrtFailureNoRollback(r) == Backoff(r)

AfterSrtFailure(r) == IF loop[r].zport # 0 THEN Goto(r, "rollback") ELSE Backoff(r)

PairReserveS(r) ==
    /\ loop[r].pc = "srt"
    /\ \/ \E p \in S!Ports :
              /\ S!ReserveAt(p, Sid(r), loop[r].server, loop[r].cid)
              /\ loop' = [loop EXCEPT ![r].pc = "grant", ![r].sport = p]
       \/ /\ S!NoIdlePort
          /\ loop' = AfterSrtFailure(r)
          /\ UNCHANGED <<sstate, salloc>>
    /\ UNCHANGED <<zstate, zalloc, peer, clients, servers, fe, answer, told, running>>

PairRollback(r) ==
    /\ loop[r].pc = "rollback"
    /\ Z!Release(loop[r].zport, Sid(r))
    /\ loop' = Backoff(r)
    /\ UNCHANGED <<sstate, salloc, peer, clients, servers, fe, answer, told, running>>

Reaches(c) == peer[c].link = "up"

\* Send comes back: at once from a connection that is closed, and not at all
\* while the peer stalls.
Returns(c) == peer[c].link # "stalled"

\* The grant goes to the client, whether or not it is still there ...
PairGrantClient(r) ==
    /\ loop[r].pc = "grant" /\ Returns(loop[r].client)
    /\ answer' = [answer EXCEPT ![r] = IF Reaches(loop[r].client) THEN "grant" ELSE @]
    /\ loop' = Goto(r, "tell")
    /\ UNCHANGED <<zstate, zalloc, sstate, salloc, peer, clients, servers, fe, told, running>>

\* ... and to whoever is registered by now under the chosen server's id: the
\* look-up under h.mu, and the Send without it.
PairLookup(r) ==
    LET srv == servers[loop[r].server]
    IN  /\ loop[r].pc = "tell"
        /\ loop' = IF srv = NoPeer THEN Goto(r, "granted")
                   ELSE [loop EXCEPT ![r].pc = "send", ![r].srv = srv]
        /\ UNCHANGED <<zstate, zalloc, sstate, salloc, peer, clients, servers, fe,
                       answer, told, running>>

PairGrantServer(r) ==
    /\ loop[r].pc = "send" /\ Returns(loop[r].srv)
    /\ told' = [told EXCEPT ![r] = IF Reaches(loop[r].srv) THEN loop[r].srv ELSE @]
    /\ loop' = [loop EXCEPT ![r].pc = "granted", ![r].srv = NoPeer]
    /\ UNCHANGED <<zstate, zalloc, sstate, salloc, peer, clients, servers, fe,
                   answer, running>>

\* pair_error: nothing was asked for, or MaxAttempts tries found no port.
PairError(r) ==
    /\ loop[r].pc \in {"bad", "giveup"} /\ Returns(loop[r].client)
    /\ answer' = [answer EXCEPT ![r] = IF Reaches(loop[r].client) THEN "error" ELSE @]
    /\ loop' = Goto(r, "failed")
    /\ UNCHANGED <<zstate, zalloc, sstate, salloc, peer, clients, servers, fe, told, running>>

-----------------------------------------------------------------------------
(* The data plane, as the hub sees it: when both peers have the grant they   *)
(* connect and the port becomes Occupied; sessions end; checkHeartbeats      *)
(* expires the reservations of both pools; time passes.                     *)
Granted(sid) ==
    /\ sid[2] = loop[sid[1]].i
    /\ answer[sid[1]] = "grant" /\ told[sid[1]] # NoPeer

DataOccupies ==
    /\ \/ \E p \in Z!Ports : /\ zstate[p] = "Reserved" /\ Granted(zalloc[p].sid)
                             /\ Z!MarkOccupied(p, zalloc[p].sid)
                             /\ UNCHANGED <<sstate, salloc>>
       \/ \E p \in S!Ports : /\ sstate[p] = "Reserved" /\ Granted(salloc[p].sid)
                             /\ S!MarkOccupied(p, salloc[p].sid)
                             /\ UNCHANGED <<zstate, zalloc>>
    /\ UNCHANGED <<peer, clients, servers, fe, loop, answer, told, running>>

DataReleases ==
    /\ \/ \E p \in Z!Ports : /\ zstate[p] = "Occupied" /\ Z!Release(p, zalloc[p].sid)
                             /\ UNCHANGED <<sstate, salloc>>
       \/ \E p \in S!Ports : /\ sstate[p] = "Occupied" /\ S!Release(p, salloc[p].sid)
                             /\ UNCHANGED <<zstate, zalloc>>
    /\ UNCHANGED <<peer, clients, servers, fe, loop, answer, told, running>>

DataExpires ==
    /\ Z!ReleaseExpiredReservations /\ S!ReleaseExpiredReservations
    /\ UNCHANGED <<peer, clients, servers, fe, loop, answer, told, running>>

Clock ==
    /\ Z!Tick /\ S!Tick
    /\ UNCHANGED <<peer, clients, servers, fe, loop, answer, told, running>>

\* The signal handler cancels ctx.
Shutdown ==
    /\ running /\ running' = FALSE
    /\ UNCHANGED <<zstate, zalloc, sstate, salloc, peer, clients, servers, fe,
                   loop, answer, told>>

-----------------------------------------------------------------------------
PairStep(r) ==
    \/ PairCtxDone(r) \/ PairSnapshot(r) \/ PairCountZ(r) \/ PairChoose(r)
    \/ PairReserveZ(r) \/ PairReserveS(r) \/ PairRollback(r)
    \/ PairGrantClient(r) \/ PairLookup(r) \/ PairGrantServer(r) \/ PairError(r)

Next ==
    \/ \E c \in Peers, id \in Ids, max \in Capacities : RegisterServer(c, id, max)
    \/ \E c \in Peers, id \in Ids : RegisterClient(c, id)
    \/ \E c \in Peers : \/ LinkStalls(c) \/ LinkLost(c) \/ PeerClosed(c)
                      \/ BroadcastCloses(c) \/ Unregister(c)
    \/ \E c \in Peers, r \in Requests, want \in Wants, need \in Needs :
           PairRequest(c, r, want, need)
    \/ \E r \in Requests : PairStep(r)
    \/ DataOccupies \/ DataReleases \/ DataExpires \/ Clock \/ Shutdown

Spec == Init /\ [][Next]_hubVars

\* pairLoop goroutines keep running (5 s sleeps included) unless a Send blocks
\* them, handleConn returns once its Decode fails, and the broadcast loops tick
\* while ctx runs.  Nothing makes a stalled peer read again.
FairSpec ==
    /\ Spec
    /\ \A r \in Requests : WF_hubVars(PairStep(r))
    /\ \A c \in Peers : /\ WF_hubVars(running /\ BroadcastCloses(c))
                        /\ WF_hubVars(Unregister(c))

-----------------------------------------------------------------------------
PeerState == [role : {"server", "client"}, id : Ids, max : Nat \ {0},
              link : {"up", "stalled", "lost", "closed"}]
LoopState == [pc : {"begin", "countZ", "countS", "zmq", "srt", "rollback", "grant",
                    "tell", "send", "granted", "bad", "giveup", "failed"},
              client : Peers, cid : Ids, want : Ids \cup {None},
              zmq : BOOLEAN, srt : BOOLEAN, i : 1 .. MaxAttempts,
              cands : SUBSET [id : Ids, rem : Int], server : Ids \cup {None},
              zport : Z!Ports \cup {0}, sport : S!Ports \cup {0},
              srv : Peers \cup {NoPeer}]

\* Type invariant of the hub and its two pools.
TypeOK ==
    /\ Z!PoolTypeOK /\ S!PoolTypeOK
    /\ peer \in [Peers -> PeerState \cup {NoClient}]
    /\ clients \subseteq Peers
    /\ servers \in [Ids -> Peers \cup {NoPeer}] /\ fe \in [Ids -> Peers \cup {NoPeer}]
    /\ \A r \in Requests : loop[r] = NoLoop \/ loop[r] \in LoopState
    /\ answer \in [Requests -> {"none", "grant", "error"}]
    /\ told \in [Requests -> Peers \cup {NoPeer}]
    /\ running \in BOOLEAN

\* The three maps of the hub agree: a connection is in h.clients exactly while
\* its own role's map holds it under its id, so no id stays taken by a
\* connection that is gone and no live connection is unreachable by its id
\* (validateAndRegister and unregister); and gateway.max_connections holds over
\* registrations and departures.
RegistryConsistent ==
    /\ TypeOK /\ Cardinality(clients) <= MaxConnections
    /\ \A c \in Peers : c \in clients <=> peer[c] # NoClient
    /\ \A c \in clients :
           IF peer[c].role = "server" THEN servers[peer[c].id] = c ELSE fe[peer[c].id] = c
    /\ \A id \in Ids : /\ servers[id] # NoPeer => peer[servers[id]].role = "server"
                       /\ fe[id] # NoPeer => peer[fe[id]].role = "client"

\* A failed attempt leaves nothing behind: a port of either pool is allocated
\* only to the attempt a pairLoop is working on or has granted, so tryPairOnce
\* rolls the ZMQ reservation back before the next attempt or the pair_error.
FailedAttemptHoldsNothing ==
    \A sid \in    {zalloc[p].sid : p \in Z!Ports} \cup {salloc[p].sid : p \in S!Ports} :
        sid # None =>
            /\ sid[2] = loop[sid[1]].i
            /\ loop[sid[1]].pc \in {"srt", "rollback", "grant", "tell", "send", "granted"}

\* Every pair_request of a client that stays connected is answered with
\* pair_grant or pair_error, unless the gateway shuts down (pairLoop).
RequestsAnswered ==
    \A r \in Requests, c \in Peers :
        (loop[r].pc = "begin" /\ loop[r].client = c)
            ~> (answer[r] # "none" \/ ~Reaches(c) \/ ~running)

\* A peer that vanished silently loses its id and its place: Broadcast notices
\* it and handleConn unregisters it, unless another peer that does not read
\* holds Broadcast up.
LostPeersLeave ==
    \A c \in Peers :
        peer[c].link = "lost" ~> (peer[c] = NoClient \/ ~running \/ ~NobodyStalls)
=============================================================================
