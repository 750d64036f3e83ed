----------------------------- MODULE Hub_proofs -----------------------------
(***************************************************************************)
(* Proofs about the control plane of the V4 gateway, for any number of     *)
(* peers, requests and attempts and for any two port ranges.  HubInv has a *)
(* part for the registry, one for the pairLoop goroutines, and one that    *)
(* ties the ports of the two pools to the goroutines they are held for.    *)
(***************************************************************************)
EXTENDS Hub, FiniteSetTheorems, TLAPS

\* The maps of the hub, with what RegistryConsistent leaves out: h.clients is
\* finite, and a server is found under the id it registered with.
RegInv ==
    /\ peer \in [Peers -> PeerState \cup {NoClient}]
    /\ clients \subseteq Peers /\ IsFiniteSet(clients) /\ Cardinality(clients) <= MaxConnections
    /\ servers \in [Ids -> Peers \cup {NoPeer}] /\ fe \in [Ids -> Peers \cup {NoPeer}]
    /\ \A c \in Peers : c \in clients <=> peer[c] # NoClient
    /\ \A c \in clients :
           IF peer[c].role = "server" THEN servers[peer[c].id] = c ELSE fe[peer[c].id] = c
    /\ \A id \in Ids : /\ servers[id] # NoPeer => peer[servers[id]].role = "server"
                                                  /\ peer[servers[id]].id = id
                       /\ fe[id] # NoPeer => peer[fe[id]].role = "client"

\* The phases of a pairLoop that has chosen a server.
Chosen == {"zmq", "srt", "rollback", "grant", "tell", "send", "granted"}

LoopPhases == {"begin", "countZ", "countS", "zmq", "srt", "rollback", "grant",
               "tell", "send", "granted", "bad", "giveup", "failed"}

\* A goroutine that runs: its candidates are finitely many, so that the sort has
\* a first, the server it has chosen is an id, and what it rolls back is a port.
GoodLoop(x) ==
    /\ x \in LoopState /\ IsFiniteSet(x.cands)
    /\ x.pc \in Chosen => x.server \in Ids
    /\ x.pc = "rollback" => x.zport \in Z!Ports

LoopInv ==
    /\ loop \in [Requests -> LoopState \cup {NoLoop}]
    /\ \A r \in Requests : loop[r] # NoLoop => GoodLoop(loop[r])

\* Where in pairLoop a request may hold a port of the ZMQ and of the SRT pool.
ZPhases == {"srt", "rollback", "grant", "tell", "send", "granted"}
SPhases == {"grant", "tell", "send", "granted"}

\* A port is held for the running attempt of a request, which knows that port.
HoldInv ==
    /\ \A p \in Z!Ports, r \in Requests, i \in 1 .. MaxAttempts :
           zalloc[p].sid = <<r, i>> =>
               i = loop[r].i /\ loop[r].pc \in ZPhases /\ p = loop[r].zport
    /\ \A p \in S!Ports, r \in Requests, i \in 1 .. MaxAttempts :
           salloc[p].sid = <<r, i>> =>
               i = loop[r].i /\ loop[r].pc \in SPhases /\ p = loop[r].sport

ZInv == Z!PoolTypeOK /\ Z!AllocIffHeld
SInv == S!PoolTypeOK /\ S!AllocIffHeld

AnswersInv ==
    /\ answer \in [Requests -> {"none", "grant", "error"}]
    /\ told \in [Requests -> Peers \cup {NoPeer}]
    /\ running \in BOOLEAN

HubInv == RegInv /\ LoopInv /\ HoldInv /\ ZInv /\ SInv /\ AnswersInv

-----------------------------------------------------------------------------
(* The registry.                                                            *)

LEMMA NoClientFacts ==
    /\ NoClient.role = "none" /\ NoClient \notin PeerState
    /\ \A x \in PeerState : x.role \in {"server", "client"} /\ x.id \in Ids /\ x.max \in Nat
  BY DEF NoClient, PeerState

\* The links of a connection change nothing in the registry.
LEMMA LinkKeeps ==
    ASSUME RegInv, NEW c \in Peers, NEW l \in {"up", "stalled", "lost", "closed"},
           peer[c] # NoClient, peer' = [peer EXCEPT ![c].link = l],
           UNCHANGED <<clients, servers, fe>>
    PROVE  RegInv'
<1>1. PICK x : x = [peer[c] EXCEPT !.link = l]
  OBVIOUS
<1>2. peer[c] \in PeerState
  BY DEF RegInv
<1>3. x \in PeerState /\ x.role = peer[c].role /\ x.id = peer[c].id /\ x # NoClient
  BY <1>1, <1>2, NoClientFacts DEF PeerState
<1>4. peer' = [peer EXCEPT ![c] = x]
  BY <1>1
<1>5. peer' \in [Peers -> PeerState \cup {NoClient}]
  BY <1>3, <1>4 DEF RegInv
<1>6. \A d \in Peers : /\ peer'[d].role = peer[d].role /\ peer'[d].id = peer[d].id
                       /\ peer'[d] = NoClient <=> peer[d] = NoClient
  BY <1>3, <1>4 DEF RegInv
<1> QED
  BY <1>5, <1>6, HubAssumption DEF RegInv

LEMMA LinkActionKeeps ==
    ASSUME RegInv, NEW c \in Peers,
           LinkStalls(c) \/ LinkLost(c) \/ PeerClosed(c) \/ BroadcastCloses(c)
    PROVE  RegInv'
<1>1. peer[c].link \in {"up", "stalled", "lost"} \/ c \in clients
  BY DEF LinkStalls, LinkLost, PeerClosed, BroadcastCloses
<1>2. peer[c] # NoClient
  BY <1>1 DEF RegInv, NoClient
<1>3. \E l \in {"up", "stalled", "lost", "closed"} : peer' = [peer EXCEPT ![c].link = l]
  BY DEF LinkStalls, LinkLost, PeerClosed, BroadcastCloses
<1>4. UNCHANGED <<clients, servers, fe>>
  BY DEF LinkStalls, LinkLost, PeerClosed, BroadcastCloses
<1> QED
  BY <1>2, <1>3, <1>4, LinkKeeps

\* What a registration adds: a Client, and its place in h.clients.
LEMMA AddClient ==
    ASSUME RegInv, NEW c \in Peers, NEW x \in PeerState, SlotFree(c), RoomLeft,
           peer' = [peer EXCEPT ![c] = x], clients' = clients \cup {c}
    PROVE  /\ c \notin clients /\ clients' \subseteq Peers /\ IsFiniteSet(clients')
           /\ Cardinality(clients') <= MaxConnections
           /\ peer' \in [Peers -> PeerState \cup {NoClient}]
           /\ \A d \in Peers : d \in clients' <=> peer'[d] # NoClient
           /\ \A d \in Peers : d # c => peer'[d] = peer[d]
           /\ peer'[c] = x
           /\ \A id \in Ids : servers[id] # c /\ fe[id] # c
<1>1. peer[c] = NoClient /\ c \notin clients
  BY DEF SlotFree, RegInv
<1>2. IsFiniteSet(clients \cup {c}) /\ Cardinality(clients \cup {c}) = Cardinality(clients) + 1
  BY <1>1, FS_AddElement DEF RegInv
<1>3. Cardinality(clients) \in Nat
  BY FS_CardinalityType DEF RegInv
<1>4. Cardinality(clients') <= MaxConnections
  BY <1>2, <1>3, HubAssumption DEF RoomLeft
<1>5. \A id \in Ids : servers[id] # c /\ fe[id] # c
  BY <1>1, NoClientFacts, HubAssumption DEF RegInv
<1>6. /\ peer' \in [Peers -> PeerState \cup {NoClient}] /\ peer'[c] = x
      /\ \A d \in Peers : d # c => peer'[d] = peer[d]
  BY DEF RegInv
<1> QED
  BY <1>1, <1>2, <1>4, <1>5, <1>6, NoClientFacts DEF RegInv

LEMMA RegisterServerKeeps ==
    ASSUME RegInv, NEW c \in Peers, NEW id \in Ids, NEW max \in Capacities, RegisterServer(c, id, max)
    PROVE  RegInv'
<1>1. PICK x : x = [role |-> "server", id |-> id, max |-> Effective(max), link |-> "up"]
  OBVIOUS
<1>2. Effective(max) \in Nat \ {0}
  BY HubAssumption DEF Effective
<1>3. x \in PeerState /\ x.role = "server" /\ x.id = id
  BY <1>1, <1>2 DEF PeerState
<1>4. /\ SlotFree(c) /\ RoomLeft /\ servers[id] = NoPeer
      /\ peer' = [peer EXCEPT ![c] = x] /\ clients' = clients \cup {c}
      /\ servers' = [servers EXCEPT ![id] = c] /\ fe' = fe
  BY <1>1 DEF RegisterServer, IdFree
<1>5. /\ c \notin clients /\ clients' \subseteq Peers /\ IsFiniteSet(clients')
      /\ Cardinality(clients') <= MaxConnections
      /\ peer' \in [Peers -> PeerState \cup {NoClient}]
      /\ \A d \in Peers : d \in clients' <=> peer'[d] # NoClient
      /\ \A d \in Peers : d # c => peer'[d] = peer[d]
      /\ peer'[c] = x
      /\ \A j \in Ids : servers[j] # c /\ fe[j] # c
  BY <1>3, <1>4, AddClient
<1>6. /\ servers' \in [Ids -> Peers \cup {NoPeer}] /\ servers'[id] = c
      /\ \A j \in Ids : j # id => servers'[j] = servers[j]
  BY <1>4 DEF RegInv
<1>7. ASSUME NEW d \in clients'
      PROVE  IF peer'[d].role = "server" THEN servers'[peer'[d].id] = d ELSE fe'[peer'[d].id] = d
  <2>1. CASE d = c
    BY <1>3, <1>5, <1>6, <2>1
  <2>2. CASE d # c
    <3>1. d \in clients /\ d \in Peers /\ peer'[d] = peer[d] /\ peer[d] \in PeerState
      BY <1>4, <1>5, <2>2 DEF RegInv
    <3>2. peer[d].role = "server" => servers[peer[d].id] = d /\ peer[d].id # id
      BY <1>4, <3>1, HubAssumption DEF RegInv
    <3>3. peer[d].role # "server" => fe[peer[d].id] = d
      BY <3>1 DEF RegInv
    <3> QED
      BY <1>4, <1>6, <3>1, <3>2, <3>3, NoClientFacts
  <2> QED
    BY <2>1, <2>2
<1>8. ASSUME NEW j \in Ids
      PROVE  /\ servers'[j] # NoPeer => peer'[servers'[j]].role = "server" /\ peer'[servers'[j]].id = j
             /\ fe'[j] # NoPeer => peer'[fe'[j]].role = "client"
  <2>1. fe'[j] # NoPeer => peer'[fe'[j]].role = "client"
    BY <1>4, <1>5 DEF RegInv
  <2>2. CASE j = id
    BY <1>3, <1>5, <1>6, <2>1, <2>2
  <2>3. CASE j # id
    BY <1>5, <1>6, <2>1, <2>3 DEF RegInv
  <2> QED
    BY <2>2, <2>3
<1> QED
  BY <1>4, <1>5, <1>6, <1>7, <1>8 DEF RegInv

LEMMA RegisterClientKeeps ==
    ASSUME RegInv, NEW c \in Peers, NEW id \in Ids, RegisterClient(c, id)
    PROVE  RegInv'
<1>1. PICK x : x = [role |-> "client", id |-> id, max |-> 1, link |-> "up"]
  OBVIOUS
<1>3. x \in PeerState /\ x.role = "client" /\ x.id = id
  BY <1>1 DEF PeerState
<1>4. /\ SlotFree(c) /\ RoomLeft /\ fe[id] = NoPeer
      /\ peer' = [peer EXCEPT ![c] = x] /\ clients' = clients \cup {c}
      /\ fe' = [fe EXCEPT ![id] = c] /\ servers' = servers
  BY <1>1 DEF RegisterClient, IdFree
<1>5. /\ c \notin clients /\ clients' \subseteq Peers /\ IsFiniteSet(clients')
      /\ Cardinality(clients') <= MaxConnections
      /\ peer' \in [Peers -> PeerState \cup {NoClient}]
      /\ \A d \in Peers : d \in clients' <=> peer'[d] # NoClient
      /\ \A d \in Peers : d # c => peer'[d] = peer[d]
      /\ peer'[c] = x
      /\ \A j \in Ids : servers[j] # c /\ fe[j] # c
  BY <1>3, <1>4, AddClient
<1>6. /\ fe' \in [Ids -> Peers \cup {NoPeer}] /\ fe'[id] = c
      /\ \A j \in Ids : j # id => fe'[j] = fe[j]
  BY <1>4 DEF RegInv
<1>7. ASSUME NEW d \in clients'
      PROVE  IF peer'[d].role = "server" THEN servers'[peer'[d].id] = d ELSE fe'[peer'[d].id] = d
  <2>1. CASE d = c
    BY <1>3, <1>5, <1>6, <2>1
  <2>2. CASE d # c
    <3>1. d \in clients /\ d \in Peers /\ peer'[d] = peer[d] /\ peer[d] \in PeerState
      BY <1>4, <1>5, <2>2 DEF RegInv
    <3>2. peer[d].role = "server" => servers[peer[d].id] = d
      BY <3>1 DEF RegInv
    <3>3. peer[d].role # "server" => fe[peer[d].id] = d /\ peer[d].id # id
      BY <1>4, <3>1, HubAssumption DEF RegInv
    <3> QED
      BY <1>4, <1>6, <3>1, <3>2, <3>3, NoClientFacts
  <2> QED
    BY <2>1, <2>2
<1>8. ASSUME NEW j \in Ids
      PROVE  /\ servers'[j] # NoPeer => peer'[servers'[j]].role = "server" /\ peer'[servers'[j]].id = j
             /\ fe'[j] # NoPeer => peer'[fe'[j]].role = "client"
  <2>1. servers'[j] # NoPeer => peer'[servers'[j]].role = "server" /\ peer'[servers'[j]].id = j
    BY <1>4, <1>5 DEF RegInv
  <2>2. CASE j = id
    BY <1>3, <1>5, <1>6, <2>1, <2>2
  <2>3. CASE j # id
    BY <1>5, <1>6, <2>1, <2>3 DEF RegInv
  <2> QED
    BY <2>2, <2>3
<1> QED
  BY <1>4, <1>5, <1>6, <1>7, <1>8 DEF RegInv

LEMMA UnregisterKeeps ==
    ASSUME RegInv, NEW c \in Peers, Unregister(c)
    PROVE  RegInv'
<1>1. /\ peer[c].role # "none" /\ clients' = clients \ {c} /\ peer' = [peer EXCEPT ![c] = NoClient]
      /\ servers' = IF peer[c].role = "server" THEN Without(servers, c) ELSE servers
      /\ fe' = IF peer[c].role = "client" THEN Without(fe, c) ELSE fe
  BY DEF Unregister
<1>2. c \in clients /\ peer[c] \in PeerState /\ peer[c].role \in {"server", "client"}
  BY <1>1, NoClientFacts DEF RegInv
<1>3. IsFiniteSet(clients') /\ Cardinality(clients') <= MaxConnections /\ clients' \subseteq Peers
  <2>1. IsFiniteSet(clients \ {c}) /\ Cardinality(clients \ {c}) = Cardinality(clients) - 1
    BY <1>2, FS_RemoveElement DEF RegInv
  <2>2. Cardinality(clients) \in Nat
    BY FS_CardinalityType DEF RegInv
  <2> QED
    BY <1>1, <2>1, <2>2, HubAssumption DEF RegInv
<1>4. /\ peer' \in [Peers -> PeerState \cup {NoClient}] /\ peer'[c] = NoClient
      /\ \A d \in Peers : d # c => peer'[d] = peer[d]
  BY <1>1 DEF RegInv
<1>5. /\ servers' \in [Ids -> Peers \cup {NoPeer}] /\ fe' \in [Ids -> Peers \cup {NoPeer}]
      /\ \A j \in Ids : servers'[j] = IF servers[j] = c THEN NoPeer ELSE servers[j]
      /\ \A j \in Ids : fe'[j] = IF fe[j] = c THEN NoPeer ELSE fe[j]
  BY <1>1, <1>2, HubAssumption DEF RegInv, Without
<1>6. \A d \in clients' :
          IF peer'[d].role = "server" THEN servers'[peer'[d].id] = d ELSE fe'[peer'[d].id] = d
  <2> TAKE d \in clients'
  <2>1. d \in clients /\ d # c /\ d \in Peers /\ peer'[d] = peer[d] /\ peer[d] \in PeerState
    BY <1>1, <1>3, <1>4 DEF RegInv
  <2> QED
    BY <1>5, <2>1, NoClientFacts DEF RegInv
<1>7. \A j \in Ids : /\ servers'[j] # NoPeer => peer'[servers'[j]].role = "server"
                                                 /\ peer'[servers'[j]].id = j
                     /\ fe'[j] # NoPeer => peer'[fe'[j]].role = "client"
  BY <1>4, <1>5 DEF RegInv
<1> QED
  BY <1>1, <1>3, <1>4, <1>5, <1>6, <1>7 DEF RegInv

-----------------------------------------------------------------------------
(* The first of the sorted candidates.                                      *)

\* sort.Slice puts c before d.
Before(c, d) == c.rem > d.rem \/ (c.rem = d.rem /\ c.id <= d.id)

Candidate == [id : Ids, rem : Int]

\* A finite set of candidates has a first, so the chosen server is one of them.
LEMMA BestIsCandidate ==
    ASSUME NEW T, T \subseteq Candidate, IsFiniteSet(T), T # {}
    PROVE  Best(T) \in T
<1> DEFINE Above(c) == {d \in T : ~Before(c, d)}
<1> DEFINE F == {Above(c) : c \in T}
<1>1. F \subseteq FiniteSubsetsOf(T) /\ F # {}
  <2>1. FiniteSubsetsOf(T) = SUBSET T
    BY FS_FiniteSubsetsOfFinite
  <2>2. \A c \in T : Above(c) \in SUBSET T
    OBVIOUS
  <2> HIDE DEF Above
  <2> QED
    BY <2>1, <2>2
<1>2. PICK A \in F : \A B \in F : ~(<<B, A>> \in StrictSubsetOrdering(T))
  <2>1. IsWellFoundedOn(StrictSubsetOrdering(T), FiniteSubsetsOf(T))
    BY FS_StrictSubsetOrderingWellFounded
  <2> HIDE DEF F
  <2> QED
    BY <1>1, <2>1, WFMin
<1>3. PICK c \in T : A = Above(c)
  OBVIOUS
<1>4. \A d \in T : d.id \in Nat /\ d.rem \in Int
  BY HubAssumption DEF Candidate
<1>5. A = {}
  <2> SUFFICES ASSUME NEW d \in A
               PROVE  FALSE
    OBVIOUS
  <2>1. d \in T /\ ~Before(c, d)
    BY <1>3
  <2>2. Above(d) \in F
    BY <2>1
  <2>3. Above(d) \subseteq A
    <3> SUFFICES ASSUME NEW e \in T, ~Before(d, e)
                 PROVE  ~Before(c, e)
      BY <1>3
    <3> QED
      BY <1>4, <2>1 DEF Before
  <2>4. d \notin Above(d)
    BY <1>4, <2>1 DEF Before
  <2>5. <<Above(d), A>> \in StrictSubsetOrdering(T)
    <3>1. Above(d) \in SUBSET T /\ A \in SUBSET T /\ Above(d) # A
      BY <1>3, <2>4
    <3> HIDE DEF Above
    <3> QED
      BY <2>3, <3>1 DEF StrictSubsetOrdering
  <2> QED
    BY <1>2, <2>2, <2>5
<1>6. \E x \in T : \A d \in T : x.rem > d.rem \/ (x.rem = d.rem /\ x.id <= d.id)
  BY <1>3, <1>5 DEF Before
<1> QED
  BY <1>6 DEF Best

-----------------------------------------------------------------------------
(* The goroutines of pairLoop.                                              *)

LEMMA LoopFacts ==
    ASSUME LoopInv, NEW r \in Requests, loop[r].pc # "unused"
    PROVE  GoodLoop(loop[r]) /\ loop[r] \in LoopState /\ loop[r] # NoLoop
  BY DEF LoopInv, NoLoop, GoodLoop

\* A step of one goroutine.
LEMMA LoopUpdate ==
    ASSUME LoopInv, NEW r \in Requests, NEW x, GoodLoop(x), loop' = [loop EXCEPT ![r] = x]
    PROVE  /\ LoopInv' /\ loop'[r] = x
           /\ \A q \in Requests : q # r => loop'[q] = loop[q]
<1>1. x \in LoopState
  BY DEF GoodLoop
<1>2. loop' \in [Requests -> LoopState \cup {NoLoop}] /\ loop'[r] = x
  BY <1>1 DEF LoopInv
<1>3. \A q \in Requests : q # r => loop'[q] = loop[q]
  BY DEF LoopInv
<1>4. \A q \in Requests : loop'[q] # NoLoop => GoodLoop(loop'[q])
  BY <1>2, <1>3 DEF LoopInv
<1> QED
  BY <1>2, <1>3, <1>4 DEF LoopInv, GoodLoop

\* A step that only moves on.
LEMMA Moves ==
    ASSUME NEW x, GoodLoop(x), NEW pc \in LoopPhases, pc \in Chosen => x.server \in Ids,
           pc = "rollback" => x.zport \in Z!Ports, NEW y, y = [x EXCEPT !.pc = pc]
    PROVE  /\ GoodLoop(y) /\ y.pc = pc /\ y.i = x.i /\ y.zport = x.zport /\ y.sport = x.sport
  BY DEF GoodLoop, LoopState, LoopPhases

\* The end of an attempt.
LEMMA BackoffFacts ==
    ASSUME LoopInv, NEW r \in Requests, loop[r].pc # "unused"
    PROVE  \E x : GoodLoop(x) /\ x.pc \in {"begin", "giveup"} /\ Backoff(r) = [loop EXCEPT ![r] = x]
<1>1. GoodLoop(loop[r]) /\ loop[r] \in LoopState
  BY LoopFacts
<1>2. PICK pc, i : /\ pc = (IF loop[r].i < MaxAttempts THEN "begin" ELSE "giveup")
                   /\ i = (IF loop[r].i < MaxAttempts THEN loop[r].i + 1 ELSE loop[r].i)
  OBVIOUS
<1>3. pc \in {"begin", "giveup"} /\ i \in 1 .. MaxAttempts
  BY <1>1, <1>2, HubAssumption DEF LoopState
<1>4. PICK x : x = [loop[r] EXCEPT !.pc = IF loop[r].i < MaxAttempts THEN "begin" ELSE "giveup",
                                   !.i = IF loop[r].i < MaxAttempts THEN loop[r].i + 1 ELSE loop[r].i,
                                   !.cands = {}, !.server = None, !.zport = 0, !.sport = 0]
  OBVIOUS
<1>5. x \in LoopState /\ x.pc = pc /\ x.cands = {}
  BY <1>1, <1>2, <1>3, <1>4, ZenonT(60) DEF LoopState
<1>6. GoodLoop(x)
  BY <1>3, <1>5, FS_EmptySet DEF GoodLoop, Chosen
<1>7. Backoff(r) = [loop EXCEPT ![r] = x]
  BY <1>4 DEF Backoff
<1> QED
  BY <1>3, <1>5, <1>6, <1>7

-----------------------------------------------------------------------------
(* The two pools, by what is proved about one.                              *)

ZP == INSTANCE PortPool_proofs WITH PortStart <- ZStart, PortEnd <- ZEnd, Servers <- Ids,
                                    Clients <- Ids, state <- zstate, alloc <- zalloc
SP == INSTANCE PortPool_proofs WITH PortStart <- SStart, PortEnd <- SEnd, Servers <- Ids,
                                    Clients <- Ids, state <- sstate, alloc <- salloc

LEMMA ZInvIs == ZInv <=> ZP!PoolInv
  BY DEF ZInv, ZP!PoolInv,
         Z!Ports, ZP!Ports, Z!PortStatus, ZP!PortStatus, Z!Ages, ZP!Ages, Z!NoAlloc,
         ZP!NoAlloc, Z!Allocation, ZP!Allocation, Z!PoolTypeOK, ZP!PoolTypeOK,
         Z!AllocIffHeld, ZP!AllocIffHeld

\* Every call of the ZMQ pool keeps its invariant, and none but Reserve makes an
\* allocation.
LEMMA ZCalls ==
    ASSUME ZInv, NEW p \in Z!Ports
    PROVE  /\ \A s \in SessionIds, srv \in Ids, cli \in Ids :
                  Z!ReserveAt(p, s, srv, cli) =>
                      /\ ZInv' /\ zalloc'[p].sid = s
                      /\ \A q \in Z!Ports : q # p => zalloc'[q] = zalloc[q]
           /\ \A s \in SessionIds : Z!MarkOccupied(p, s) =>
                  ZInv' /\ \A q \in Z!Ports : zalloc'[q].sid = zalloc[q].sid
           /\ \A s : Z!Release(p, s) =>
                  /\ ZInv' /\ \A q \in Z!Ports : zalloc'[q].sid \in {None, zalloc[q].sid}
                  /\ s # None => zalloc'[p].sid # s
<1>1. ASSUME NEW s \in SessionIds, NEW srv \in Ids, NEW cli \in Ids, Z!ReserveAt(p, s, srv, cli)
      PROVE  /\ ZInv' /\ zalloc'[p].sid = s
             /\ \A q \in Z!Ports : q # p => zalloc'[q] = zalloc[q]
  <2>0. ZP!ReserveAt(p, s, srv, cli) /\ p \in ZP!Ports
    BY <1>1 DEF Z!ReserveAt, ZP!ReserveAt, Z!FirstIdle, ZP!FirstIdle, Z!Ports, ZP!Ports
  <2>1. ZP!PoolInv'
    BY <2>0, ZInvIs, ZP!ReservePreserves, PoolsAssumption, HubAssumption
  <2>2. ZInv'
    BY <2>1, ZInvIs, PTL
  <2> QED
    BY <1>1, <2>2 DEF Z!ReserveAt, ZInv, Z!PoolTypeOK
<1>2. ASSUME NEW s \in SessionIds, Z!MarkOccupied(p, s)
      PROVE  ZInv' /\ \A q \in Z!Ports : zalloc'[q].sid = zalloc[q].sid
  <2>0. ZP!MarkOccupied(p, s) /\ p \in ZP!Ports
    BY <1>2 DEF Z!MarkOccupied, ZP!MarkOccupied, Z!ReservedFor, ZP!ReservedFor, Z!Ports,
         ZP!Ports, Z!poolVars, ZP!poolVars
  <2>1. ZP!PoolInv'
    BY <2>0, ZInvIs, ZP!MarkOccupiedPreserves, PoolsAssumption, HubAssumption
  <2>2. ZInv'
    BY <2>1, ZInvIs, PTL
  <2> QED
    BY <1>2, <2>2 DEF Z!MarkOccupied, Z!poolVars
<1>3. ASSUME NEW s, Z!Release(p, s)
      PROVE  /\ ZInv' /\ \A q \in Z!Ports : zalloc'[q].sid \in {None, zalloc[q].sid}
             /\ s # None => zalloc'[p].sid # s
  <2>0. ZP!Release(p, s) /\ p \in ZP!Ports
    BY <1>3 DEF Z!Release, ZP!Release, Z!MayRelease, ZP!MayRelease, Z!Ports, ZP!Ports,
         Z!poolVars, ZP!poolVars, Z!NoAlloc, ZP!NoAlloc
  <2>1. ZP!PoolInv'
    BY <2>0, ZInvIs, ZP!ReleasePreserves, PoolsAssumption, HubAssumption
  <2>2. ZInv'
    BY <2>1, ZInvIs, PTL
  <2>3. \A q \in Z!Ports : zalloc'[q].sid \in {None, zalloc[q].sid}
    BY <1>3 DEF Z!Release, Z!poolVars, Z!NoAlloc, ZInv, Z!PoolTypeOK
  <2>4. s # None => zalloc'[p].sid # s
    BY <1>3 DEF Z!Release, Z!MayRelease, Z!poolVars, Z!NoAlloc, ZInv, Z!PoolTypeOK, Z!AllocIffHeld
  <2> QED
    BY <2>2, <2>3, <2>4
<1> QED
  BY <1>1, <1>2, <1>3

\* Nor does the expiry of its reservations or the passing of time.
LEMMA ZTime ==
    ASSUME ZInv, Z!ReleaseExpiredReservations \/ Z!Tick
    PROVE  ZInv' /\ \A q \in Z!Ports : zalloc'[q].sid \in {None, zalloc[q].sid}
<1>1. ZP!PoolInv
  BY ZInvIs
<1>2. CASE Z!ReleaseExpiredReservations
  <2>0. ZP!ReleaseExpiredReservations
    BY <1>2 DEF Z!ReleaseExpiredReservations, ZP!ReleaseExpiredReservations, Z!Expired,
         ZP!Expired, Z!Ports, ZP!Ports, Z!NoAlloc, ZP!NoAlloc
  <2>1. ZP!PoolInv'
    BY <1>1, <2>0, ZP!ExpirePreserves, PoolsAssumption, HubAssumption
  <2>2. ZInv'
    BY <2>1, ZInvIs, PTL
  <2> QED
    BY <1>2, <2>2 DEF Z!ReleaseExpiredReservations, Z!NoAlloc
<1>3. CASE Z!Tick
  <2>1. ZP!Tick
    BY <1>3 DEF Z!Tick, ZP!Tick, Z!Older, ZP!Older, Z!Ports, ZP!Ports
  <2>2. ZP!PoolInv' /\ \A q \in ZP!Ports : zalloc'[q].sid = zalloc[q].sid
    BY <1>1, <2>1, ZP!TickPreserves, ZP!TickKeepsSid, PoolsAssumption, HubAssumption
  <2>3. ZInv'
    BY <2>2, ZInvIs, PTL
  <2> QED
    BY <2>2, <2>3 DEF Z!Ports, ZP!Ports
<1> QED
  BY <1>2, <1>3

LEMMA SInvIs == SInv <=> SP!PoolInv
  BY DEF SInv, SP!PoolInv,
         S!Ports, SP!Ports, S!PortStatus, SP!PortStatus, S!Ages, SP!Ages, S!NoAlloc,
         SP!NoAlloc, S!Allocation, SP!Allocation, S!PoolTypeOK, SP!PoolTypeOK,
         S!AllocIffHeld, SP!AllocIffHeld

\* Every call of the SRT pool keeps its invariant, and none but Reserve makes an
\* allocation.
LEMMA SCalls ==
    ASSUME SInv, NEW p \in S!Ports
    PROVE  /\ \A s \in SessionIds, srv \in Ids, cli \in Ids :
                  S!ReserveAt(p, s, srv, cli) =>
                      /\ SInv' /\ salloc'[p].sid = s
                      /\ \A q \in S!Ports : q # p => salloc'[q] = salloc[q]
           /\ \A s \in SessionIds : S!MarkOccupied(p, s) =>
                  SInv' /\ \A q \in S!Ports : salloc'[q].sid = salloc[q].sid
           /\ \A s : S!Release(p, s) =>
                  /\ SInv' /\ \A q \in S!Ports : salloc'[q].sid \in {None, salloc[q].sid}
                  /\ s # None => salloc'[p].sid # s
<1>1. ASSUME NEW s \in SessionIds, NEW srv \in Ids, NEW cli \in Ids, S!ReserveAt(p, s, srv, cli)
      PROVE  /\ SInv' /\ salloc'[p].sid = s
             /\ \A q \in S!Ports : q # p => salloc'[q] = salloc[q]
  <2>0. SP!ReserveAt(p, s, srv, cli) /\ p \in SP!Ports
    BY <1>1 DEF S!ReserveAt, SP!ReserveAt, S!FirstIdle, SP!FirstIdle, S!Ports, SP!Ports
  <2>1. SP!PoolInv'
    BY <2>0, SInvIs, SP!ReservePreserves, PoolsAssumption, HubAssumption
  <2>2. SInv'
    BY <2>1, SInvIs, PTL
  <2> QED
    BY <1>1, <2>2 DEF S!ReserveAt, SInv, S!PoolTypeOK
<1>2. ASSUME NEW s \in SessionIds, S!MarkOccupied(p, s)
      PROVE  SInv' /\ \A q \in S!Ports : salloc'[q].sid = salloc[q].sid
  <2>0. SP!MarkOccupied(p, s) /\ p \in SP!Ports
    BY <1>2 DEF S!MarkOccupied, SP!MarkOccupied, S!ReservedFor, SP!ReservedFor, S!Ports,
         SP!Ports, S!poolVars, SP!poolVars
  <2>1. SP!PoolInv'
    BY <2>0, SInvIs, SP!MarkOccupiedPreserves, PoolsAssumption, HubAssumption
  <2>2. SInv'
    BY <2>1, SInvIs, PTL
  <2> QED
    BY <1>2, <2>2 DEF S!MarkOccupied, S!poolVars
<1>3. ASSUME NEW s, S!Release(p, s)
      PROVE  /\ SInv' /\ \A q \in S!Ports : salloc'[q].sid \in {None, salloc[q].sid}
             /\ s # None => salloc'[p].sid # s
  <2>0. SP!Release(p, s) /\ p \in SP!Ports
    BY <1>3 DEF S!Release, SP!Release, S!MayRelease, SP!MayRelease, S!Ports, SP!Ports,
         S!poolVars, SP!poolVars, S!NoAlloc, SP!NoAlloc
  <2>1. SP!PoolInv'
    BY <2>0, SInvIs, SP!ReleasePreserves, PoolsAssumption, HubAssumption
  <2>2. SInv'
    BY <2>1, SInvIs, PTL
  <2>3. \A q \in S!Ports : salloc'[q].sid \in {None, salloc[q].sid}
    BY <1>3 DEF S!Release, S!poolVars, S!NoAlloc, SInv, S!PoolTypeOK
  <2>4. s # None => salloc'[p].sid # s
    BY <1>3 DEF S!Release, S!MayRelease, S!poolVars, S!NoAlloc, SInv, S!PoolTypeOK, S!AllocIffHeld
  <2> QED
    BY <2>2, <2>3, <2>4
<1> QED
  BY <1>1, <1>2, <1>3

\* Nor does the expiry of its reservations or the passing of time.
LEMMA STime ==
    ASSUME SInv, S!ReleaseExpiredReservations \/ S!Tick
    PROVE  SInv' /\ \A q \in S!Ports : salloc'[q].sid \in {None, salloc[q].sid}
<1>1. SP!PoolInv
  BY SInvIs
<1>2. CASE S!ReleaseExpiredReservations
  <2>0. SP!ReleaseExpiredReservations
    BY <1>2 DEF S!ReleaseExpiredReservations, SP!ReleaseExpiredReservations, S!Expired,
         SP!Expired, S!Ports, SP!Ports, S!NoAlloc, SP!NoAlloc
  <2>1. SP!PoolInv'
    BY <1>1, <2>0, SP!ExpirePreserves, PoolsAssumption, HubAssumption
  <2>2. SInv'
    BY <2>1, SInvIs, PTL
  <2> QED
    BY <1>2, <2>2 DEF S!ReleaseExpiredReservations, S!NoAlloc
<1>3. CASE S!Tick
  <2>1. SP!Tick
    BY <1>3 DEF S!Tick, SP!Tick, S!Older, SP!Older, S!Ports, SP!Ports
  <2>2. SP!PoolInv' /\ \A q \in SP!Ports : salloc'[q].sid = salloc[q].sid
    BY <1>1, <2>1, SP!TickPreserves, SP!TickKeepsSid, PoolsAssumption, HubAssumption
  <2>3. SInv'
    BY <2>2, SInvIs, PTL
  <2> QED
    BY <2>2, <2>3 DEF S!Ports, SP!Ports
<1> QED
  BY <1>2, <1>3

-----------------------------------------------------------------------------
(* Who holds which port.                                                    *)

\* Sessions give ports back, and the goroutines stay where they are.
LEMMA HoldFewer ==
    ASSUME HoldInv, loop' = loop,
           \A p \in Z!Ports : zalloc'[p].sid \in {None, zalloc[p].sid},
           \A p \in S!Ports : salloc'[p].sid \in {None, salloc[p].sid}
    PROVE  HoldInv'
<1>1. \A r \in Requests, i \in 1 .. MaxAttempts : None # <<r, i>>
  BY PoolsAssumption DEF SessionIds
<1>2. /\ \A p \in Z!Ports, r \in Requests, i \in 1 .. MaxAttempts :
             zalloc'[p].sid = <<r, i>> => zalloc[p].sid = <<r, i>>
      /\ \A p \in S!Ports, r \in Requests, i \in 1 .. MaxAttempts :
             salloc'[p].sid = <<r, i>> => salloc[p].sid = <<r, i>>
  BY <1>1, Zenon
<1> QED
  BY <1>2 DEF HoldInv, Z!Ports, S!Ports

\* A goroutine moves on and keeps what it holds.
LEMMA HoldMoves ==
    ASSUME LoopInv, HoldInv, NEW r \in Requests, NEW x, GoodLoop(x),
           loop' = [loop EXCEPT ![r] = x], UNCHANGED <<zalloc, salloc>>,
           x.i = loop[r].i, x.zport = loop[r].zport, x.sport = loop[r].sport,
           loop[r].pc \in ZPhases => x.pc \in ZPhases,
           loop[r].pc \in SPhases => x.pc \in SPhases
    PROVE  LoopInv' /\ HoldInv'
<1>1. LoopInv' /\ loop'[r] = x /\ \A q \in Requests : q # r => loop'[q] = loop[q]
  BY LoopUpdate
<1> QED
  BY <1>1 DEF HoldInv, Z!Ports, S!Ports

\* A goroutine that holds nothing may do anything.
HoldsNothing(r) ==
    \A i \in 1 .. MaxAttempts : /\ \A p \in Z!Ports : zalloc[p].sid # <<r, i>>
                                /\ \A p \in S!Ports : salloc[p].sid # <<r, i>>

LEMMA HoldNothing ==
    ASSUME LoopInv, HoldInv, NEW r \in Requests, NEW x, GoodLoop(x),
           loop' = [loop EXCEPT ![r] = x], HoldsNothing(r)',
           \A p \in Z!Ports : zalloc'[p].sid \in {None, zalloc[p].sid},
           \A p \in S!Ports : salloc'[p].sid \in {None, salloc[p].sid}
    PROVE  LoopInv' /\ HoldInv'
<1>1. LoopInv' /\ loop'[r] = x /\ \A q \in Requests : q # r => loop'[q] = loop[q]
  BY LoopUpdate
<1>2. \A q \in Requests, i \in 1 .. MaxAttempts : None # <<q, i>>
  BY PoolsAssumption DEF SessionIds
<1>3. /\ \A p \in Z!Ports, q \in Requests, i \in 1 .. MaxAttempts :
             zalloc'[p].sid = <<q, i>> => zalloc[p].sid = <<q, i>>
      /\ \A p \in S!Ports, q \in Requests, i \in 1 .. MaxAttempts :
             salloc'[p].sid = <<q, i>> => salloc[p].sid = <<q, i>>
  BY <1>2, Zenon
<1>4. /\ \A p \in Z!Ports, q \in Requests, i \in 1 .. MaxAttempts : zalloc'[p].sid = <<q, i>> => q # r
      /\ \A p \in S!Ports, q \in Requests, i \in 1 .. MaxAttempts : salloc'[p].sid = <<q, i>> => q # r
  BY DEF HoldsNothing, Z!Ports, S!Ports
<1> QED
  BY <1>1, <1>3, <1>4 DEF HoldInv, Z!Ports, S!Ports

\* Before its first reservation, and after its last, a goroutine holds nothing.
LEMMA OutsideHoldsNothing ==
    ASSUME HoldInv, NEW r \in Requests, loop[r].pc \notin ZPhases
    PROVE  HoldsNothing(r)
  BY DEF HoldInv, HoldsNothing, ZPhases, SPhases

LEMMA StillHoldsNothing ==
    ASSUME NEW r, HoldsNothing(r), UNCHANGED <<zalloc, salloc>>
    PROVE  HoldsNothing(r)'
  BY DEF HoldsNothing, Z!Ports, S!Ports

-----------------------------------------------------------------------------
(* The steps of pairLoop.                                                   *)

\* What a step of pairLoop leaves alone.
LEMMA Elsewhere ==
    ASSUME HubInv, UNCHANGED <<peer, clients, servers, fe>>
    PROVE  RegInv'
  BY DEF HubInv, RegInv

LEMMA PoolsAlone ==
    ASSUME HubInv, UNCHANGED <<zstate, zalloc, sstate, salloc>>
    PROVE  ZInv' /\ SInv'
  BY DEF HubInv, ZInv, SInv, Z!PoolTypeOK, S!PoolTypeOK, Z!AllocIffHeld, S!AllocIffHeld, Z!Ports, S!Ports

LEMMA AnswersAlone ==
    ASSUME HubInv, UNCHANGED <<answer, told, running>>
    PROVE  AnswersInv'
  BY DEF HubInv, AnswersInv

\* A goroutine that holds nothing moves on.
LEMMA FreeStep ==
    ASSUME HubInv, NEW r \in Requests, loop[r].pc \notin ZPhases, NEW x, GoodLoop(x),
           loop' = [loop EXCEPT ![r] = x],
           UNCHANGED <<zstate, zalloc, sstate, salloc, peer, clients, servers, fe, answer, told, running>>
    PROVE  HubInv'
<1>1. HoldsNothing(r)'
  BY OutsideHoldsNothing, StillHoldsNothing DEF HubInv
<1>2. LoopInv' /\ HoldInv'
  BY <1>1, HoldNothing DEF HubInv
<1> QED
  BY <1>2, Elsewhere, PoolsAlone, AnswersAlone DEF HubInv

LEMMA FreeBackoff ==
    ASSUME HubInv, NEW r \in Requests, loop[r].pc \notin ZPhases \cup {"unused"}, loop' = Backoff(r),
           UNCHANGED <<zstate, zalloc, sstate, salloc, peer, clients, servers, fe, answer, told, running>>
    PROVE  HubInv'
  BY BackoffFacts, FreeStep DEF HubInv

LEMMA PairRequestKeeps ==
    ASSUME HubInv, NEW c \in Peers, NEW r \in Requests, NEW want \in Wants, NEW need \in Needs,
           PairRequest(c, r, want, need)
    PROVE  HubInv'
<1>1. PICK x : x = [NoLoop EXCEPT !.pc = "begin", !.client = c, !.cid = peer[c].id,
                                  !.want = want, !.zmq = need[1], !.srt = need[2]]
  OBVIOUS
<1>2. loop[r] = NoLoop /\ loop' = [loop EXCEPT ![r] = x] /\ peer[c].role = "client"
  BY <1>1 DEF PairRequest
<1>3. peer[c].id \in Ids
  BY <1>2, NoClientFacts DEF HubInv, RegInv
<1>4. need[1] \in BOOLEAN /\ need[2] \in BOOLEAN /\ want \in Ids \cup {None} /\ 1 \in 1 .. MaxAttempts
  BY HubAssumption
<1>5. x = [pc |-> "begin", client |-> c, cid |-> peer[c].id, want |-> want,
           zmq |-> need[1], srt |-> need[2], i |-> 1, cands |-> {}, server |-> None,
           zport |-> 0, sport |-> 0, srv |-> NoPeer]
  BY <1>1 DEF NoLoop
<1>6. x \in LoopState /\ x.cands = {} /\ x.pc = "begin"
  BY <1>3, <1>4, <1>5 DEF LoopState
<1>7. GoodLoop(x)
  BY <1>6, FS_EmptySet DEF GoodLoop, Chosen
<1>8. loop[r].pc \notin ZPhases
  BY <1>2 DEF NoLoop, ZPhases
<1> QED
  BY <1>2, <1>7, <1>8, FreeStep DEF PairRequest

LEMMA PairCtxDoneKeeps ==
    ASSUME HubInv, NEW r \in Requests, PairCtxDone(r)
    PROVE  HubInv'
<1>1. loop[r].pc = "begin" /\ loop' = [loop EXCEPT ![r] = [loop[r] EXCEPT !.pc = "failed"]]
  BY DEF PairCtxDone, Goto
<1>2. GoodLoop([loop[r] EXCEPT !.pc = "failed"])
  BY <1>1, LoopFacts, Moves DEF HubInv, LoopPhases, Chosen
<1> QED
  BY <1>1, <1>2, FreeStep DEF PairCtxDone, ZPhases

\* What a function yields over a finite set is finite.
LEMMA ImageFinite ==
    ASSUME NEW D, IsFiniteSet(D), NEW f, NEW T, \A t \in T : \E d \in D : t = f[d]
    PROVE  IsFiniteSet(T)
<1> DEFINE F == {f[d] : d \in D}
<1> DEFINE g == [d \in D |-> f[d]]
<1>1. g \in Surjection(D, F)
  BY DEF Surjection
<1>2. IsFiniteSet(F)
  BY <1>1, FS_Surjection
<1>3. T \in SUBSET F
  OBVIOUS
<1> QED
  BY <1>2, <1>3, FS_Subset

\* The registered servers are finitely many.
LEMMA OnlineFinite == RegInv => IsFiniteSet({id \in Ids : servers[id] # NoPeer})
<1> SUFFICES ASSUME RegInv
             PROVE  IsFiniteSet({id \in Ids : servers[id] # NoPeer})
  OBVIOUS
<1>1. PICK f : f = [c \in clients |-> peer[c].id]
  OBVIOUS
<1>2. ASSUME NEW id \in Ids, servers[id] # NoPeer
      PROVE  \E c \in clients : id = f[c]
  <2>1. servers[id] \in Peers /\ peer[servers[id]].role = "server" /\ peer[servers[id]].id = id
    BY <1>2 DEF RegInv
  <2>2. servers[id] \in clients
    BY <2>1, NoClientFacts DEF RegInv
  <2> QED
    BY <1>1, <2>1, <2>2
<1>3. PICK T : T = {id \in Ids : servers[id] # NoPeer}
  OBVIOUS
<1>4. \A id \in T : \E c \in clients : id = f[c]
  BY <1>2, <1>3
<1>5. IsFiniteSet(clients)
  BY DEF RegInv
<1> QED
  BY <1>3, <1>4, <1>5, ImageFinite

LEMMA PairSnapshotKeeps ==
    ASSUME HubInv, NEW r \in Requests, PairSnapshot(r)
    PROVE  HubInv'
<1> DEFINE online == {id \in Ids : servers[id] # NoPeer /\ loop[r].want \in {None, id}}
<1> DEFINE g == [id \in online |-> [id |-> id, rem |-> peer[servers[id]].max]]
<1> DEFINE cands == {[id |-> id, rem |-> peer[servers[id]].max] : id \in online}
<1>1. loop[r].pc = "begin"
  BY DEF PairSnapshot
<1>2. GoodLoop(loop[r]) /\ loop[r] \in LoopState /\ loop \in [Requests -> LoopState \cup {NoLoop}]
  BY <1>1, LoopFacts DEF HubInv, LoopInv
<1>3. IsFiniteSet(cands)
  <2>1. IsFiniteSet(online)
    <3>1. online \in SUBSET {id \in Ids : servers[id] # NoPeer}
      OBVIOUS
    <3> QED
      BY <3>1, OnlineFinite, FS_Subset DEF HubInv
  <2>2. \A c \in cands : \E id \in online : c = g[id]
    OBVIOUS
  <2> HIDE DEF cands, online, g
  <2> QED
    BY <2>1, <2>2, ImageFinite
<1>4. cands \in SUBSET Candidate
  <2> SUFFICES ASSUME NEW id \in online
               PROVE  [id |-> id, rem |-> peer[servers[id]].max] \in Candidate
    OBVIOUS
  <2>1. servers[id] \in Peers /\ peer[servers[id]].role = "server"
    BY DEF HubInv, RegInv
  <2>2. peer[servers[id]].max \in Int
    BY <2>1, NoClientFacts DEF HubInv, RegInv
  <2> QED
    BY <2>2 DEF Candidate
<1>5. PICK new : new = cands
  OBVIOUS
<1>6. loop' = IF new = {} THEN Backoff(r) ELSE [loop EXCEPT ![r].pc = "countZ", ![r].cands = new]
  BY <1>5 DEF PairSnapshot
<1>7. CASE new = {}
  BY <1>1, <1>6, <1>7, FreeBackoff DEF PairSnapshot, ZPhases
<1>8. CASE new # {}
  <2>1. PICK x : x = [loop[r] EXCEPT !.pc = "countZ", !.cands = new]
    OBVIOUS
  <2>2. x \in LoopState /\ x.pc = "countZ" /\ x.cands = new
    BY <1>2, <1>4, <1>5, <2>1 DEF LoopState, Candidate
  <2>3. GoodLoop(x)
    BY <1>3, <1>5, <2>2 DEF GoodLoop, Chosen
  <2>4. loop' = [loop EXCEPT ![r] = x]
    BY <1>2, <1>6, <1>8, <2>1
  <2> QED
    BY <1>1, <2>3, <2>4, FreeStep DEF PairSnapshot, ZPhases
<1> QED
  BY <1>7, <1>8

\* Counting a pool keeps the candidates finite and typed.
LEMMA ChargeFacts ==
    ASSUME NEW cands, cands \in SUBSET Candidate, IsFiniteSet(cands), NEW st, IsFiniteSet(DOMAIN st), NEW al
    PROVE  Charge(cands, st, al) \in SUBSET Candidate /\ IsFiniteSet(Charge(cands, st, al))
<1> DEFINE g == [c \in cands |-> [c EXCEPT !.rem = c.rem - Cardinality(OccupiedPorts(st, al, c.id))]]
<1>1. ASSUME NEW c \in cands
      PROVE  g[c] \in Candidate
  <2>1. OccupiedPorts(st, al, c.id) \in SUBSET DOMAIN st
    BY DEF OccupiedPorts
  <2>2. IsFiniteSet(OccupiedPorts(st, al, c.id))
    BY <2>1, FS_Subset
  <2>3. PICK n \in Nat : n = Cardinality(OccupiedPorts(st, al, c.id))
    BY <2>2, FS_CardinalityType
  <2>4. c \in Candidate /\ g[c] = [c EXCEPT !.rem = c.rem - n]
    BY <2>3
  <2> QED
    BY <2>4 DEF Candidate
<1>2. \A d \in Charge(cands, st, al) : \E c \in cands : d = g[c]
  BY DEF Charge
<1> HIDE DEF g
<1>3. IsFiniteSet(Charge(cands, st, al))
  BY <1>2, ImageFinite
<1> QED
  BY <1>1, <1>2, <1>3

LEMMA PortsFinite ==
    ASSUME HubInv
    PROVE  IsFiniteSet(DOMAIN zstate) /\ IsFiniteSet(DOMAIN sstate)
<1>1. DOMAIN zstate = ZStart .. ZEnd /\ DOMAIN sstate = SStart .. SEnd
  BY DEF HubInv, ZInv, SInv, Z!PoolTypeOK, S!PoolTypeOK, Z!Ports, S!Ports
<1> QED
  BY <1>1, FS_Interval, PoolsAssumption

LEMMA PairCountZKeeps ==
    ASSUME HubInv, NEW r \in Requests, PairCountZ(r)
    PROVE  HubInv'
<1>1. PICK new : new = Charge(loop[r].cands, zstate, zalloc)
  OBVIOUS
<1>2. loop[r].pc = "countZ" /\ loop' = [loop EXCEPT ![r].pc = "countS", ![r].cands = new]
  BY <1>1 DEF PairCountZ
<1>3. GoodLoop(loop[r]) /\ loop[r] \in LoopState /\ loop \in [Requests -> LoopState \cup {NoLoop}]
  BY <1>2, LoopFacts DEF HubInv, LoopInv
<1>4. new \in SUBSET Candidate /\ IsFiniteSet(new)
  <2>1. loop[r].cands \in SUBSET Candidate /\ IsFiniteSet(loop[r].cands)
    BY <1>3 DEF GoodLoop, LoopState, Candidate
  <2> QED
    BY <1>1, <2>1, ChargeFacts, PortsFinite
<1>5. PICK x : x = [loop[r] EXCEPT !.pc = "countS", !.cands = new]
  OBVIOUS
<1>6. x \in LoopState /\ x.pc = "countS" /\ x.cands = new
  BY <1>3, <1>4, <1>5 DEF LoopState, Candidate
<1>7. GoodLoop(x)
  BY <1>4, <1>6 DEF GoodLoop, Chosen
<1>8. loop' = [loop EXCEPT ![r] = x]
  BY <1>2, <1>3, <1>5
<1> QED
  BY <1>2, <1>7, <1>8, FreeStep DEF PairCountZ, ZPhases

LEMMA PairChooseKeeps ==
    ASSUME HubInv, NEW r \in Requests, PairChoose(r)
    PROVE  HubInv'
<1>1. PICK able : able = {c \in Charge(loop[r].cands, sstate, salloc) : c.rem > 0}
  OBVIOUS
<1>2. /\ loop[r].pc = "countS"
      /\ loop' = IF able = {} THEN Backoff(r)
                 ELSE [loop EXCEPT ![r].pc = FirstStep(r), ![r].cands = {}, ![r].server = Best(able).id]
  BY <1>1 DEF PairChoose
<1>3. GoodLoop(loop[r]) /\ loop[r] \in LoopState /\ loop \in [Requests -> LoopState \cup {NoLoop}]
  BY <1>2, LoopFacts DEF HubInv, LoopInv
<1>4. able \in SUBSET Candidate /\ IsFiniteSet(able)
  <2>1. loop[r].cands \in SUBSET Candidate /\ IsFiniteSet(loop[r].cands)
    BY <1>3 DEF GoodLoop, LoopState, Candidate
  <2>2. PICK all : all = Charge(loop[r].cands, sstate, salloc)
    OBVIOUS
  <2>3. all \in SUBSET Candidate /\ IsFiniteSet(all)
    BY <2>1, <2>2, ChargeFacts, PortsFinite
  <2>4. able \in SUBSET all
    BY <1>1, <2>2
  <2> QED
    BY <2>3, <2>4, FS_Subset
<1>5. CASE able = {}
  BY <1>2, <1>5, FreeBackoff DEF PairChoose, ZPhases
<1>6. CASE able # {}
  <2>1. PICK id \in Ids : id = Best(able).id
    <3>1. Best(able) \in Candidate
      BY <1>4, <1>6, BestIsCandidate
    <3> QED
      BY <3>1 DEF Candidate
  <2>2. PICK pc \in {"zmq", "srt", "bad"} : pc = FirstStep(r)
    BY DEF FirstStep
  <2>3. PICK x : x = [loop[r] EXCEPT !.pc = pc, !.cands = {}, !.server = id]
    OBVIOUS
  <2>4. x \in LoopState /\ x.pc = pc /\ x.cands = {} /\ x.server = id
    BY <1>3, <2>3 DEF LoopState
  <2>5. GoodLoop(x)
    BY <2>4, FS_EmptySet DEF GoodLoop
  <2>6. loop' = [loop EXCEPT ![r] = x]
    BY <1>2, <1>3, <1>6, <2>1, <2>2, <2>3
  <2> QED
    BY <1>2, <2>5, <2>6, FreeStep DEF PairChoose, ZPhases
<1> QED
  BY <1>5, <1>6

\* What a goroutine that reserves passes to the pool.
LEMMA SidFacts ==
    ASSUME LoopInv, NEW r \in Requests, loop[r].pc \in Chosen
    PROVE  /\ Sid(r) = <<r, loop[r].i>> /\ Sid(r) \in SessionIds /\ loop[r].i \in 1 .. MaxAttempts
           /\ loop[r].server \in Ids /\ loop[r].cid \in Ids
           /\ GoodLoop(loop[r]) /\ loop[r] \in LoopState /\ loop \in [Requests -> LoopState \cup {NoLoop}]
<1>1. GoodLoop(loop[r]) /\ loop[r] \in LoopState
  BY LoopFacts DEF Chosen
<1>2. loop[r].i \in 1 .. MaxAttempts /\ loop[r].cid \in Ids
  BY <1>1 DEF LoopState
<1> QED
  BY <1>1, <1>2 DEF Sid, SessionIds, GoodLoop, LoopInv

LEMMA PairReserveZKeeps ==
    ASSUME HubInv, NEW r \in Requests, PairReserveZ(r)
    PROVE  HubInv'
<1>1. /\ loop[r].pc = "zmq"
      /\ UNCHANGED <<sstate, salloc, peer, clients, servers, fe, answer, told, running>>
  BY DEF PairReserveZ
<1>2. /\ Sid(r) = <<r, loop[r].i>> /\ Sid(r) \in SessionIds
      /\ loop[r].server \in Ids /\ loop[r].cid \in Ids
      /\ GoodLoop(loop[r]) /\ loop[r] \in LoopState /\ loop \in [Requests -> LoopState \cup {NoLoop}]
  BY <1>1, SidFacts DEF Chosen, HubInv
<1>3. HoldsNothing(r)
  BY <1>1, OutsideHoldsNothing DEF HubInv, ZPhases
<1>4. RegInv' /\ AnswersInv' /\ SInv'
  BY <1>1, Elsewhere, AnswersAlone DEF HubInv, SInv, S!PoolTypeOK, S!AllocIffHeld, S!Ports
<1>5. ASSUME NEW p \in Z!Ports, Z!ReserveAt(p, Sid(r), loop[r].server, loop[r].cid),
             loop' = [loop EXCEPT ![r].pc = IF loop[r].srt THEN "srt" ELSE "grant", ![r].zport = p]
      PROVE  HubInv'
  <2>1. PICK x : x = [loop[r] EXCEPT !.pc = IF loop[r].srt THEN "srt" ELSE "grant", !.zport = p]
    OBVIOUS
  <2>2. x \in LoopState /\ x.pc \in {"srt", "grant"} /\ x.zport = p /\ x.i = loop[r].i
        /\ x.cands = loop[r].cands /\ x.server = loop[r].server
    BY <1>2, <2>1 DEF LoopState
  <2>3. GoodLoop(x)
    BY <1>2, <2>2 DEF GoodLoop, Chosen
  <2>4. loop' = [loop EXCEPT ![r] = x]
    BY <1>2, <1>5, <2>1
  <2>5. LoopInv' /\ loop'[r] = x /\ \A q \in Requests : q # r => loop'[q] = loop[q]
    BY <2>3, <2>4, LoopUpdate DEF HubInv
  <2>6. /\ ZInv' /\ zalloc'[p].sid = <<r, loop[r].i>>
        /\ \A q \in Z!Ports : q # p => zalloc'[q] = zalloc[q]
    BY <1>2, <1>5, ZCalls DEF HubInv
  <2>7. ASSUME NEW q \in Z!Ports, NEW y \in Requests, NEW i \in 1 .. MaxAttempts,
               zalloc'[q].sid = <<y, i>>
        PROVE  i = loop'[y].i /\ loop'[y].pc \in ZPhases /\ q = loop'[y].zport
    <3>1. CASE q = p
      <4>1. <<r, loop[r].i>> = <<y, i>>
        BY <2>6, <2>7, <3>1
      <4>2. y = r /\ i = loop[r].i
        BY <4>1
      <4> QED
        BY <2>2, <2>5, <3>1, <4>2 DEF ZPhases
    <3>2. CASE q # p
      <4>1. zalloc[q].sid = <<y, i>>
        BY <2>6, <2>7, <3>2
      <4>2. y # r
        BY <1>3, <4>1 DEF HoldsNothing
      <4> QED
        BY <2>5, <4>1, <4>2 DEF HubInv, HoldInv
    <3> QED
      BY <3>1, <3>2
  <2>8. ASSUME NEW q \in S!Ports, NEW y \in Requests, NEW i \in 1 .. MaxAttempts,
               salloc'[q].sid = <<y, i>>
        PROVE  i = loop'[y].i /\ loop'[y].pc \in SPhases /\ q = loop'[y].sport
    <3>1. salloc[q].sid = <<y, i>>
      BY <1>1, <2>8
    <3>2. y # r
      BY <1>3, <3>1 DEF HoldsNothing
    <3> QED
      BY <2>5, <3>1, <3>2 DEF HubInv, HoldInv
  <2>9. HoldInv'
    BY <2>7, <2>8 DEF HoldInv, Z!Ports, S!Ports
  <2> QED
    BY <1>4, <2>5, <2>6, <2>9 DEF HubInv
<1>6. CASE loop' = Backoff(r) /\ UNCHANGED <<zstate, zalloc>>
  BY <1>1, <1>6, FreeBackoff DEF ZPhases
<1> QED
  BY <1>5, <1>6 DEF PairReserveZ

LEMMA PairReserveSKeeps ==
    ASSUME HubInv, NEW r \in Requests, PairReserveS(r)
    PROVE  HubInv'
<1>1. /\ loop[r].pc = "srt"
      /\ UNCHANGED <<zstate, zalloc, peer, clients, servers, fe, answer, told, running>>
  BY DEF PairReserveS
<1>2. /\ Sid(r) = <<r, loop[r].i>> /\ Sid(r) \in SessionIds
      /\ loop[r].server \in Ids /\ loop[r].cid \in Ids
      /\ GoodLoop(loop[r]) /\ loop[r] \in LoopState /\ loop \in [Requests -> LoopState \cup {NoLoop}]
  BY <1>1, SidFacts DEF Chosen, HubInv
<1>3. \A p \in S!Ports, i \in 1 .. MaxAttempts : salloc[p].sid # <<r, i>>
  BY <1>1 DEF HubInv, HoldInv, SPhases
<1>4. RegInv' /\ AnswersInv' /\ ZInv'
  BY <1>1, Elsewhere, AnswersAlone DEF HubInv, ZInv, Z!PoolTypeOK, Z!AllocIffHeld, Z!Ports
<1>5. ASSUME NEW p \in S!Ports, S!ReserveAt(p, Sid(r), loop[r].server, loop[r].cid),
             loop' = [loop EXCEPT ![r].pc = "grant", ![r].sport = p]
      PROVE  HubInv'
  <2>1. PICK x : x = [loop[r] EXCEPT !.pc = "grant", !.sport = p]
    OBVIOUS
  <2>2. x \in LoopState /\ x.pc = "grant" /\ x.zport = loop[r].zport /\ x.sport = p /\ x.i = loop[r].i
        /\ x.cands = loop[r].cands /\ x.server = loop[r].server
    BY <1>2, <2>1 DEF LoopState
  <2>3. GoodLoop(x)
    BY <1>2, <2>2 DEF GoodLoop, Chosen
  <2>4. loop' = [loop EXCEPT ![r] = x]
    BY <1>2, <1>5, <2>1
  <2>5. LoopInv' /\ loop'[r] = x /\ \A q \in Requests : q # r => loop'[q] = loop[q]
    BY <2>3, <2>4, LoopUpdate DEF HubInv
  <2>6. /\ SInv' /\ salloc'[p].sid = <<r, loop[r].i>>
        /\ \A q \in S!Ports : q # p => salloc'[q] = salloc[q]
    BY <1>2, <1>5, SCalls DEF HubInv
  <2>7. ASSUME NEW q \in S!Ports, NEW y \in Requests, NEW i \in 1 .. MaxAttempts,
               salloc'[q].sid = <<y, i>>
        PROVE  i = loop'[y].i /\ loop'[y].pc \in SPhases /\ q = loop'[y].sport
    <3>1. CASE q = p
      <4>1. <<r, loop[r].i>> = <<y, i>>
        BY <2>6, <2>7, <3>1
      <4>2. y = r /\ i = loop[r].i
        BY <4>1
      <4> QED
        BY <2>2, <2>5, <3>1, <4>2 DEF SPhases
    <3>2. CASE q # p
      <4>1. salloc[q].sid = <<y, i>>
        BY <2>6, <2>7, <3>2
      <4>2. y # r
        BY <1>3, <4>1
      <4> QED
        BY <2>5, <4>1, <4>2 DEF HubInv, HoldInv
    <3> QED
      BY <3>1, <3>2
  <2>8. ASSUME NEW q \in Z!Ports, NEW y \in Requests, NEW i \in 1 .. MaxAttempts,
               zalloc'[q].sid = <<y, i>>
        PROVE  i = loop'[y].i /\ loop'[y].pc \in ZPhases /\ q = loop'[y].zport
    <3>1. zalloc[q].sid = <<y, i>>
      BY <1>1, <2>8
    <3>2. i = loop[y].i /\ loop[y].pc \in ZPhases /\ q = loop[y].zport
      BY <3>1 DEF HubInv, HoldInv
    <3> QED
      BY <2>2, <2>5, <3>2 DEF ZPhases
  <2>9. HoldInv'
    BY <2>7, <2>8 DEF HoldInv, Z!Ports, S!Ports
  <2> QED
    BY <1>4, <2>5, <2>6, <2>9 DEF HubInv
<1>6. CASE loop' = AfterSrtFailure(r) /\ UNCHANGED <<sstate, salloc>>
  <2>1. ZInv' /\ SInv'
    BY <1>1, <1>6, PoolsAlone
  <2>2. CASE loop[r].zport # 0
    <3>1. PICK x : x = [loop[r] EXCEPT !.pc = "rollback"]
      OBVIOUS
    <3>2. loop[r].zport \in Z!Ports
      BY <1>2, <2>2 DEF LoopState
    <3>3. /\ GoodLoop(x) /\ x.pc = "rollback" /\ x.i = loop[r].i
          /\ x.zport = loop[r].zport /\ x.sport = loop[r].sport
      BY <1>2, <3>1, <3>2, Moves DEF LoopPhases
    <3>4. loop' = [loop EXCEPT ![r] = x]
      BY <1>6, <2>2, <3>1 DEF AfterSrtFailure, Goto
    <3>5. LoopInv' /\ HoldInv'
      BY <1>1, <1>6, <3>3, <3>4, HoldMoves DEF HubInv, ZPhases, SPhases
    <3> QED
      BY <1>4, <2>1, <3>5 DEF HubInv
  <2>3. CASE loop[r].zport = 0
    <3>1. 0 \notin Z!Ports
      BY PoolsAssumption DEF Z!Ports
    <3>2. HoldsNothing(r)
      BY <1>3, <2>3, <3>1 DEF HubInv, HoldInv, HoldsNothing
    <3>3. PICK x : GoodLoop(x) /\ loop' = [loop EXCEPT ![r] = x]
      BY <1>1, <1>6, <2>3, BackoffFacts DEF HubInv, AfterSrtFailure
    <3>4. LoopInv' /\ HoldInv'
      BY <1>1, <1>6, <3>2, <3>3, HoldNothing, StillHoldsNothing DEF HubInv
    <3> QED
      BY <1>4, <2>1, <3>4 DEF HubInv
  <2> QED
    BY <2>2, <2>3
<1> QED
  BY <1>5, <1>6 DEF PairReserveS

LEMMA PairRollbackKeeps ==
    ASSUME HubInv, NEW r \in Requests, PairRollback(r)
    PROVE  HubInv'
<1>1. /\ loop[r].pc = "rollback" /\ Z!Release(loop[r].zport, Sid(r)) /\ loop' = Backoff(r)
      /\ UNCHANGED <<sstate, salloc, peer, clients, servers, fe, answer, told, running>>
  BY DEF PairRollback
<1>2. Sid(r) = <<r, loop[r].i>> /\ Sid(r) \in SessionIds /\ GoodLoop(loop[r])
  BY <1>1, SidFacts DEF Chosen, HubInv
<1>3. PICK p \in Z!Ports : p = loop[r].zport
  BY <1>1, <1>2 DEF GoodLoop
<1>4. Sid(r) # None
  BY <1>2, PoolsAssumption
<1>5. /\ ZInv' /\ \A q \in Z!Ports : zalloc'[q].sid \in {None, zalloc[q].sid}
      /\ zalloc'[p].sid # <<r, loop[r].i>>
  BY <1>1, <1>2, <1>3, <1>4, ZCalls DEF HubInv
<1>6. HoldsNothing(r)'
  <2>1. \A i \in 1 .. MaxAttempts : None # <<r, i>>
    BY PoolsAssumption DEF SessionIds
  <2>2. \A q \in Z!Ports, i \in 1 .. MaxAttempts : zalloc'[q].sid # <<r, i>>
    <3> SUFFICES ASSUME NEW q \in Z!Ports, NEW i \in 1 .. MaxAttempts, zalloc'[q].sid = <<r, i>>
                 PROVE  FALSE
      BY Zenon
    <3>1. zalloc[q].sid = <<r, i>>
      BY <1>5, <2>1, Zenon
    <3>2. q = p /\ i = loop[r].i
      BY <1>3, <3>1 DEF HubInv, HoldInv
    <3> QED
      BY <1>5, <3>2
  <2>3. \A q \in S!Ports, i \in 1 .. MaxAttempts : salloc'[q].sid # <<r, i>>
    BY <1>1 DEF HubInv, HoldInv, SPhases
  <2> QED
    BY <2>2, <2>3 DEF HoldsNothing, Z!Ports, S!Ports
<1>7. PICK x : GoodLoop(x) /\ loop' = [loop EXCEPT ![r] = x]
  BY <1>1, BackoffFacts DEF HubInv
<1>8. LoopInv' /\ HoldInv'
  BY <1>1, <1>5, <1>6, <1>7, HoldNothing DEF HubInv
<1>9. RegInv' /\ AnswersInv' /\ SInv'
  BY <1>1, Elsewhere, AnswersAlone DEF HubInv, SInv, S!PoolTypeOK, S!AllocIffHeld, S!Ports
<1> QED
  BY <1>5, <1>8, <1>9 DEF HubInv

LEMMA PairGrantClientKeeps ==
    ASSUME HubInv, NEW r \in Requests, PairGrantClient(r)
    PROVE  HubInv'
<1>1. PICK x : x = [loop[r] EXCEPT !.pc = "tell"]
  OBVIOUS
<1>2. /\ loop[r].pc = "grant" /\ loop' = [loop EXCEPT ![r] = x]
      /\ answer' = [answer EXCEPT ![r] = IF Reaches(loop[r].client) THEN "grant" ELSE @]
      /\ UNCHANGED <<zstate, zalloc, sstate, salloc, peer, clients, servers, fe, told, running>>
  BY <1>1 DEF PairGrantClient, Goto
<1>3. GoodLoop(loop[r]) /\ loop[r].server \in Ids
  BY <1>2, SidFacts DEF HubInv, Chosen
<1>4. /\ GoodLoop(x) /\ x.pc = "tell" /\ x.i = loop[r].i
      /\ x.zport = loop[r].zport /\ x.sport = loop[r].sport
  BY <1>1, <1>3, Moves DEF LoopPhases
<1>5. LoopInv' /\ HoldInv'
  BY <1>2, <1>4, HoldMoves DEF HubInv, ZPhases, SPhases
<1>6. AnswersInv'
  BY <1>2 DEF HubInv, AnswersInv
<1> QED
  BY <1>2, <1>5, <1>6, Elsewhere, PoolsAlone DEF HubInv

LEMMA PairLookupKeeps ==
    ASSUME HubInv, NEW r \in Requests, PairLookup(r)
    PROVE  HubInv'
<1>1. /\ loop[r].pc = "tell"
      /\ loop' = IF servers[loop[r].server] = NoPeer THEN Goto(r, "granted")
                 ELSE [loop EXCEPT ![r].pc = "send", ![r].srv = servers[loop[r].server]]
      /\ UNCHANGED <<zstate, zalloc, sstate, salloc, peer, clients, servers, fe, answer, told, running>>
  BY DEF PairLookup
<1>2. /\ GoodLoop(loop[r]) /\ loop[r] \in LoopState /\ loop[r].server \in Ids
      /\ loop \in [Requests -> LoopState \cup {NoLoop}]
  BY <1>1, SidFacts DEF HubInv, Chosen
<1>3. PICK srv \in Peers \cup {NoPeer} : srv = servers[loop[r].server]
  BY <1>2 DEF HubInv, RegInv
<1>4. PICK x : x = IF srv = NoPeer THEN [loop[r] EXCEPT !.pc = "granted"]
                   ELSE [loop[r] EXCEPT !.pc = "send", !.srv = srv]
  OBVIOUS
<1>5. loop' = [loop EXCEPT ![r] = x]
  BY <1>1, <1>2, <1>3, <1>4 DEF Goto
<1>6. /\ x \in LoopState /\ x.pc \in {"granted", "send"} /\ x.i = loop[r].i /\ x.zport = loop[r].zport
      /\ x.sport = loop[r].sport /\ x.server = loop[r].server /\ x.cands = loop[r].cands
  BY <1>2, <1>4, ZenonT(60) DEF LoopState
<1>7. GoodLoop(x)
  BY <1>2, <1>6 DEF GoodLoop
<1>8. LoopInv' /\ HoldInv'
  BY <1>1, <1>5, <1>6, <1>7, HoldMoves DEF HubInv, ZPhases, SPhases
<1> QED
  BY <1>1, <1>8, Elsewhere, PoolsAlone, AnswersAlone DEF HubInv

LEMMA PairGrantServerKeeps ==
    ASSUME HubInv, NEW r \in Requests, PairGrantServer(r)
    PROVE  HubInv'
<1>1. PICK x : x = [loop[r] EXCEPT !.pc = "granted", !.srv = NoPeer]
  OBVIOUS
<1>2. /\ loop[r].pc = "send" /\ loop' = [loop EXCEPT ![r].pc = "granted", ![r].srv = NoPeer]
      /\ told' = [told EXCEPT ![r] = IF Reaches(loop[r].srv) THEN loop[r].srv ELSE @]
      /\ UNCHANGED <<zstate, zalloc, sstate, salloc, peer, clients, servers, fe, answer, running>>
  BY DEF PairGrantServer
<1>3. /\ GoodLoop(loop[r]) /\ loop[r] \in LoopState /\ loop[r].server \in Ids
      /\ loop \in [Requests -> LoopState \cup {NoLoop}]
  BY <1>2, SidFacts DEF HubInv, Chosen
<1>4. loop' = [loop EXCEPT ![r] = x]
  BY <1>1, <1>2, <1>3
<1>5. /\ x \in LoopState /\ x.pc = "granted" /\ x.i = loop[r].i /\ x.zport = loop[r].zport
      /\ x.sport = loop[r].sport /\ x.server = loop[r].server /\ x.cands = loop[r].cands
  BY <1>1, <1>3 DEF LoopState
<1>6. GoodLoop(x)
  BY <1>3, <1>5 DEF GoodLoop
<1>7. LoopInv' /\ HoldInv'
  BY <1>2, <1>4, <1>5, <1>6, HoldMoves DEF HubInv, ZPhases, SPhases
<1>8. AnswersInv'
  <2>1. loop[r].srv \in Peers \cup {NoPeer}
    BY <1>3 DEF LoopState
  <2> QED
    BY <1>2, <2>1 DEF HubInv, AnswersInv
<1> QED
  BY <1>2, <1>7, <1>8, Elsewhere, PoolsAlone DEF HubInv

LEMMA PairErrorKeeps ==
    ASSUME HubInv, NEW r \in Requests, PairError(r)
    PROVE  HubInv'
<1>1. PICK x : x = [loop[r] EXCEPT !.pc = "failed"]
  OBVIOUS
<1>2. /\ loop[r].pc \in {"bad", "giveup"} /\ loop' = [loop EXCEPT ![r] = x]
      /\ answer' = [answer EXCEPT ![r] = IF Reaches(loop[r].client) THEN "error" ELSE @]
      /\ UNCHANGED <<zstate, zalloc, sstate, salloc, peer, clients, servers, fe, told, running>>
  BY <1>1 DEF PairError, Goto
<1>3. GoodLoop(x)
  BY <1>1, <1>2, LoopFacts, Moves DEF HubInv, LoopPhases, Chosen
<1>4. HoldsNothing(r)'
  BY <1>2, OutsideHoldsNothing, StillHoldsNothing DEF HubInv, ZPhases
<1>5. LoopInv' /\ HoldInv'
  BY <1>2, <1>3, <1>4, HoldNothing DEF HubInv
<1>6. AnswersInv'
  BY <1>2 DEF HubInv, AnswersInv
<1> QED
  BY <1>2, <1>5, <1>6, Elsewhere, PoolsAlone DEF HubInv

-----------------------------------------------------------------------------
(* The data plane and the clock.                                            *)

LEMMA HeldSid ==
    ASSUME HubInv
    PROVE  /\ \A p \in Z!Ports : zstate[p] = "Reserved" => zalloc[p].sid \in SessionIds
           /\ \A p \in S!Ports : sstate[p] = "Reserved" => salloc[p].sid \in SessionIds
<1>1. \A p \in Z!Ports : zstate[p] = "Reserved" => zalloc[p] \in Z!Allocation
  BY DEF HubInv, ZInv, Z!PoolTypeOK, Z!AllocIffHeld
<1>2. \A p \in S!Ports : sstate[p] = "Reserved" => salloc[p] \in S!Allocation
  BY DEF HubInv, SInv, S!PoolTypeOK, S!AllocIffHeld
<1> QED
  BY <1>1, <1>2 DEF Z!Allocation, S!Allocation

LEMMA DataKeeps ==
    ASSUME HubInv, DataOccupies \/ DataReleases \/ DataExpires \/ Clock
    PROVE  HubInv'
<1>1. UNCHANGED <<peer, clients, servers, fe, loop, answer, told, running>>
  BY DEF DataOccupies, DataReleases, DataExpires, Clock
<1>2. ASSUME UNCHANGED <<zstate, zalloc>>
      PROVE  ZInv' /\ \A q \in Z!Ports : zalloc'[q].sid \in {None, zalloc[q].sid}
  BY <1>2 DEF HubInv, ZInv, Z!PoolTypeOK, Z!AllocIffHeld, Z!Ports
<1>3. ASSUME UNCHANGED <<sstate, salloc>>
      PROVE  SInv' /\ \A q \in S!Ports : salloc'[q].sid \in {None, salloc[q].sid}
  BY <1>3 DEF HubInv, SInv, S!PoolTypeOK, S!AllocIffHeld, S!Ports
<1>4. ASSUME NEW p \in Z!Ports, zstate[p] = "Reserved", Z!MarkOccupied(p, zalloc[p].sid)
      PROVE  ZInv' /\ \A q \in Z!Ports : zalloc'[q].sid \in {None, zalloc[q].sid}
  <2>1. PICK s \in SessionIds : s = zalloc[p].sid
    BY <1>4, HeldSid
  <2>2. ZInv' /\ \A q \in Z!Ports : zalloc'[q].sid = zalloc[q].sid
    BY <1>4, <2>1, ZCalls DEF HubInv
  <2> QED
    BY <2>2
<1>5. ASSUME NEW p \in S!Ports, sstate[p] = "Reserved", S!MarkOccupied(p, salloc[p].sid)
      PROVE  SInv' /\ \A q \in S!Ports : salloc'[q].sid \in {None, salloc[q].sid}
  <2>1. PICK s \in SessionIds : s = salloc[p].sid
    BY <1>5, HeldSid
  <2>2. SInv' /\ \A q \in S!Ports : salloc'[q].sid = salloc[q].sid
    BY <1>5, <2>1, SCalls DEF HubInv
  <2> QED
    BY <2>2
<1>6. ASSUME NEW p \in Z!Ports, Z!Release(p, zalloc[p].sid)
      PROVE  ZInv' /\ \A q \in Z!Ports : zalloc'[q].sid \in {None, zalloc[q].sid}
  BY <1>6, ZCalls DEF HubInv
<1>7. ASSUME NEW p \in S!Ports, S!Release(p, salloc[p].sid)
      PROVE  SInv' /\ \A q \in S!Ports : salloc'[q].sid \in {None, salloc[q].sid}
  BY <1>7, SCalls DEF HubInv
<1>8. ASSUME DataExpires \/ Clock
      PROVE  /\ ZInv' /\ \A q \in Z!Ports : zalloc'[q].sid \in {None, zalloc[q].sid}
             /\ SInv' /\ \A q \in S!Ports : salloc'[q].sid \in {None, salloc[q].sid}
  BY <1>8, ZTime, STime DEF HubInv, DataExpires, Clock
<1>9. /\ ZInv' /\ \A q \in Z!Ports : zalloc'[q].sid \in {None, zalloc[q].sid}
      /\ SInv' /\ \A q \in S!Ports : salloc'[q].sid \in {None, salloc[q].sid}
  <2>1. CASE DataOccupies
    BY <1>2, <1>3, <1>4, <1>5, <2>1 DEF DataOccupies
  <2>2. CASE DataReleases
    BY <1>2, <1>3, <1>6, <1>7, <2>2 DEF DataReleases
  <2> QED
    BY <1>8, <2>1, <2>2
<1>10. HoldInv' /\ LoopInv'
  BY <1>1, <1>9, HoldFewer DEF HubInv, LoopInv
<1> QED
  BY <1>1, <1>9, <1>10, Elsewhere, AnswersAlone DEF HubInv

\* The registry and the connections change, and nothing else.
LEMMA RegistryStep ==
    ASSUME HubInv, RegInv', UNCHANGED <<zstate, zalloc, sstate, salloc, loop, answer, told, running>>
    PROVE  HubInv'
<1>1. LoopInv' /\ HoldInv'
  BY DEF HubInv, LoopInv, HoldInv, Z!Ports, S!Ports
<1> QED
  BY <1>1, PoolsAlone, AnswersAlone DEF HubInv

LEMMA HubStep ==
    ASSUME HubInv, [Next]_hubVars
    PROVE  HubInv'
<1>0. RegInv
  BY DEF HubInv
<1>1. ASSUME NEW c \in Peers, NEW id \in Ids, NEW max \in Capacities, RegisterServer(c, id, max)
      PROVE  HubInv'
  BY <1>0, <1>1, RegisterServerKeeps, RegistryStep DEF RegisterServer
<1>2. ASSUME NEW c \in Peers, NEW id \in Ids, RegisterClient(c, id)
      PROVE  HubInv'
  BY <1>0, <1>2, RegisterClientKeeps, RegistryStep DEF RegisterClient
<1>3. ASSUME NEW c \in Peers, LinkStalls(c) \/ LinkLost(c) \/ PeerClosed(c) \/ BroadcastCloses(c)
      PROVE  HubInv'
  <2>1. RegInv'
    BY <1>0, <1>3, LinkActionKeeps
  <2> QED
    BY <1>3, <2>1, RegistryStep DEF LinkStalls, LinkLost, PeerClosed, BroadcastCloses
<1>4. ASSUME NEW c \in Peers, Unregister(c)
      PROVE  HubInv'
  BY <1>0, <1>4, UnregisterKeeps, RegistryStep DEF Unregister
<1>5. ASSUME NEW c \in Peers, NEW r \in Requests, NEW want \in Wants, NEW need \in Needs,
             PairRequest(c, r, want, need)
      PROVE  HubInv'
  BY <1>5, PairRequestKeeps
<1>6. ASSUME NEW r \in Requests, PairStep(r)
      PROVE  HubInv'
  BY <1>6, PairCtxDoneKeeps, PairSnapshotKeeps, PairCountZKeeps, PairChooseKeeps, PairReserveZKeeps,
     PairReserveSKeeps, PairRollbackKeeps, PairGrantClientKeeps, PairLookupKeeps, PairGrantServerKeeps,
     PairErrorKeeps DEF PairStep
<1>7. CASE DataOccupies \/ DataReleases \/ DataExpires \/ Clock
  BY <1>7, DataKeeps
<1>8. CASE Shutdown
  <2>1. RegInv' /\ LoopInv' /\ HoldInv' /\ ZInv' /\ SInv'
    BY <1>8, Elsewhere, PoolsAlone DEF Shutdown, HubInv, LoopInv, HoldInv, Z!Ports, S!Ports
  <2> QED
    BY <1>8, <2>1 DEF Shutdown, HubInv, AnswersInv
<1>9. CASE UNCHANGED hubVars
  BY <1>9, Elsewhere, RegistryStep DEF hubVars
<1> QED
  BY <1>1, <1>2, <1>3, <1>4, <1>5, <1>6, <1>7, <1>8, <1>9 DEF Next

LEMMA InitHub == Init => HubInv
<1> SUFFICES ASSUME Init
             PROVE  HubInv
  OBVIOUS
<1>1. RegInv
  <2>1. clients = {} /\ IsFiniteSet(clients) /\ Cardinality(clients) <= MaxConnections
    BY FS_EmptySet, HubAssumption DEF Init
  <2>2. servers \in [Ids -> Peers \cup {NoPeer}] /\ fe \in [Ids -> Peers \cup {NoPeer}]
        /\ peer \in [Peers -> PeerState \cup {NoClient}]
    BY DEF Init
  <2> QED
    BY <2>1, <2>2 DEF Init, RegInv
<1>2. LoopInv
  BY DEF Init, LoopInv
<1>3. ZInv /\ SInv
  BY DEF Init, ZInv, SInv, Z!InitPool, S!InitPool, Z!PoolTypeOK, S!PoolTypeOK, Z!AllocIffHeld,
         S!AllocIffHeld, Z!PortStatus, S!PortStatus
<1>4. HoldInv
  <2>1. \A r \in Requests, i \in 1 .. MaxAttempts : None # <<r, i>>
    BY PoolsAssumption DEF SessionIds
  <2>2. \A p \in Z!Ports : zalloc[p].sid = None
    BY DEF Init, Z!InitPool, Z!NoAlloc
  <2>3. \A p \in S!Ports : salloc[p].sid = None
    BY DEF Init, S!InitPool, S!NoAlloc
  <2> QED
    BY <2>1, <2>2, <2>3, Zenon DEF HoldInv
<1>5. AnswersInv
  BY DEF Init, AnswersInv
<1> QED
  BY <1>1, <1>2, <1>3, <1>4, <1>5 DEF HubInv

LEMMA HubInvariant == Spec => []HubInv
<1>1. HubInv /\ [Next]_hubVars => HubInv'
  BY HubStep
<1> QED
  BY <1>1, InitHub, PTL DEF Spec

\* The three maps of the hub agree, and gateway.max_connections holds, through
\* any interleaving of registrations, lost and closed connections, broadcasts
\* and pairLoop goroutines: validateAndRegister and unregister leave no id
\* taken by a connection that is gone, and none of the two maps behind.
THEOREM RegistryAlwaysConsistent == Spec => []RegistryConsistent
<1>1. HubInv => RegistryConsistent
  <2> SUFFICES ASSUME HubInv
               PROVE  RegistryConsistent
    OBVIOUS
  <2>1. TypeOK
    BY DEF HubInv, RegInv, LoopInv, ZInv, SInv, AnswersInv, TypeOK
  <2> QED
    BY <2>1 DEF HubInv, RegInv, RegistryConsistent
<1> QED
  BY <1>1, HubInvariant, PTL

\* A port of either pool is held for the attempt that a pairLoop is working on
\* or has granted, and for no other: tryPairOnce rolls the ZMQ reservation back
\* when the SRT pool is exhausted, whatever the data plane, the expiry of
\* reservations and the other requests do in between.
THEOREM RollbackComplete == Spec => []FailedAttemptHoldsNothing
<1>1. HubInv => FailedAttemptHoldsNothing
  <2> SUFFICES ASSUME HubInv, NEW sid, sid # None,
                      \/ \E p \in Z!Ports : sid = zalloc[p].sid
                      \/ \E p \in S!Ports : sid = salloc[p].sid
               PROVE  /\ sid[2] = loop[sid[1]].i
                      /\ loop[sid[1]].pc \in {"srt", "rollback", "grant", "tell", "send", "granted"}
    BY DEF FailedAttemptHoldsNothing
  <2>1. sid \in SessionIds
    <3>1. \A p \in Z!Ports : zalloc[p].sid \in SessionIds \cup {None}
      BY DEF HubInv, ZInv, Z!PoolTypeOK, Z!Allocation, Z!NoAlloc
    <3>2. \A p \in S!Ports : salloc[p].sid \in SessionIds \cup {None}
      BY DEF HubInv, SInv, S!PoolTypeOK, S!Allocation, S!NoAlloc
    <3> QED
      BY <3>1, <3>2
  <2>2. PICK r \in Requests, i \in 1 .. MaxAttempts : sid = <<r, i>>
    BY <2>1 DEF SessionIds
  <2>3. i = loop[r].i /\ loop[r].pc \in ZPhases
    BY <2>2 DEF HubInv, HoldInv, ZPhases, SPhases
  <2>4. sid[1] = r /\ sid[2] = i
    BY <2>2
  <2> QED
    BY <2>3, <2>4 DEF ZPhases
<1> QED
  BY <1>1, HubInvariant, PTL
=============================================================================
