-------------------------- MODULE RelayServer_proofs --------------------------
(* Proofs about the relay servers of V1, with its reaper, and of V2, for any    *)
(* number of ports, connections, accept loops and backends.                     *)
EXTENDS Reaper, TLAPS

LoopRec == [port : Ports \cup {NoPort}, st : {"free", "accept", "check", "hello", "role", "report"},
            conn : Conns \cup {NoConn}, role : HelloRoles]
SessRec == [port : Ports, be : Conns, st : {"run", "stop", "hook"}, keep : BOOLEAN]

\* A loop holds a connection exactly while it reads the hello or places the
\* connection, no two loops hold the same, and no session is named by it.
LoopInv ==
    /\ \A l \in Loops : /\ loop[l].st # "free" => loop[l].port \in Ports
                        /\ loop[l].st \in {"check", "hello", "role"} <=> loop[l].conn # NoConn
                        /\ loop[l].conn # NoConn => sess[loop[l].conn].st = "none"
    /\ \A l, m \in Loops : loop[l].conn = loop[m].conn /\ loop[l].conn # NoConn => l = m

BackendInv == \A f \in Conns : sess[f].st # "none" => sess[f].be # f

\* A port that was never stopped has one loop, so that nobody makes it busy
\* between the two sections of V2's accept loop.
OneLoopInv ==
    \A l \in Loops :
        loop[l].port \in Ports \ stopped =>
            /\ listener[loop[l].port] = l
            /\ loop[l].st = "role" => ~busy[loop[l].port]

RelayInv ==
    /\ RelayTypeOK
    /\ LoopInv /\ BackendInv /\ OneLoopInv
    /\ ConnectionExclusive /\ OrderlyUntilStopped

LEMMA SessTyped ==
    ASSUME RelayTypeOK, NEW f \in Conns
    PROVE  /\ sess[f].st # "none" => sess[f] \in SessRec
           /\ sess[f].st = "none" => sess[f] = NoSession
           /\ NoSession.st = "none" /\ NoSession.port \notin Ports
           /\ sess[f].st \in {"none", "run", "stop", "hook"}
  BY SlotAssumption DEF RelayTypeOK, SessRec, NoSession

LEMMA LoopTyped ==
    ASSUME RelayTypeOK, NEW l \in Loops
    PROVE  /\ loop[l] \in LoopRec
           /\ Free \in LoopRec /\ Free.st = "free" /\ Free.port = NoPort /\ Free.conn = NoConn
           /\ \A p \in Ports : /\ Accepting(p) \in LoopRec /\ Reporting(p) \in LoopRec
                               /\ Accepting(p).port = p /\ Accepting(p).conn = NoConn /\ Accepting(p).st = "accept"
                               /\ Reporting(p).port = p /\ Reporting(p).conn = NoConn /\ Reporting(p).st = "report"
  BY DEF RelayTypeOK, LoopRec, Free, Accepting, Reporting, HelloRoles

LEMMA InitRelayInv == InitRelay => RelayInv
<1> SUFFICES ASSUME InitRelay
             PROVE  RelayInv
  OBVIOUS
<1>1. \/ listener = [p \in Ports |-> NoLoop] /\ loop = [l \in Loops |-> Free]
      \/ \E at \in [Ports -> Loops] :
              /\ \A p, q \in Ports : at[p] = at[q] => p = q
              /\ listener = at
              /\ loop = [l \in Loops |-> IF \E p \in Ports : at[p] = l
                                        THEN Accepting(CHOOSE p \in Ports : at[p] = l) ELSE Free]
  BY DEF InitRelay
<1>2. /\ listener \in [Ports -> Loops \cup {NoLoop}]
      /\ loop = [l \in Loops |-> loop[l]]
      /\ \A l \in Loops : \/ loop[l] = Free
                          \/ \E p \in Ports : loop[l] = Accepting(p) /\ listener[p] = l
  <2>1. CASE listener = [p \in Ports |-> NoLoop] /\ loop = [l \in Loops |-> Free]
    BY <2>1
  <2>2. ASSUME NEW at \in [Ports -> Loops], listener = at,
               loop = [l \in Loops |-> IF \E p \in Ports : at[p] = l
                                      THEN Accepting(CHOOSE p \in Ports : at[p] = l) ELSE Free]
        PROVE  /\ listener \in [Ports -> Loops \cup {NoLoop}]
               /\ loop = [l \in Loops |-> loop[l]]
               /\ \A l \in Loops : \/ loop[l] = Free
                                   \/ \E p \in Ports : loop[l] = Accepting(p) /\ listener[p] = l
    <3>1. ASSUME NEW l \in Loops, NEW q \in Ports, at[q] = l
          PROVE  \E p \in Ports : loop[l] = Accepting(p) /\ at[p] = l
      <4> DEFINE p == CHOOSE p \in Ports : at[p] = l
      <4>1. p \in Ports /\ at[p] = l
        BY <3>1
      <4> QED
        BY <2>2, <3>1, <4>1
    <3> QED
      BY <2>2, <3>1
  <2> QED
    BY <1>1, <2>1, <2>2
<1>3. loop \in [Loops -> LoopRec]
  <2>1. \A l \in Loops : loop[l] \in LoopRec
    <3>1. Free \in LoopRec /\ \A p \in Ports : Accepting(p) \in LoopRec
      BY DEF LoopRec, Free, Accepting, HelloRoles
    <3> QED
      BY <1>2, <3>1
  <2> QED
    BY <1>2, <2>1
<1>4. RelayTypeOK
  <2>1. sess \in [Conns -> SessRec \cup {NoSession}]
    BY DEF InitRelay
  <2> QED
    BY <1>2, <1>3, <2>1 DEF InitRelay, RelayTypeOK, LoopRec, SessRec
<1>5. \A l \in Loops : loop[l].conn = NoConn /\ loop[l].st \in {"free", "accept"}
                      /\ (loop[l].st # "free" => loop[l].port \in Ports)
                      /\ (loop[l].port \in Ports => listener[loop[l].port] = l)
  <2> TAKE l \in Loops
  <2>1. CASE loop[l] = Free
    BY <1>4, <2>1, LoopTyped, SlotAssumption
  <2>2. ASSUME NEW p \in Ports, loop[l] = Accepting(p), listener[p] = l
        PROVE  /\ loop[l].conn = NoConn /\ loop[l].st = "accept"
               /\ loop[l].port = p
    BY <1>4, <2>2, LoopTyped
  <2> QED
    BY <1>2, <2>1, <2>2
<1>6. LoopInv /\ OneLoopInv
  BY <1>5 DEF LoopInv, OneLoopInv
<1>7. \A f \in Conns : sess[f].st = "none" /\ conn[f] = "free"
  BY DEF InitRelay, NoSession
<1>8. BackendInv
  BY <1>7 DEF BackendInv
<1>9. ConnectionExclusive
  BY <1>5, <1>7, SlotAssumption DEF ConnectionExclusive, Uses, InitRelay
<1>10. OrderlyUntilStopped
  BY <1>7 DEF OrderlyUntilStopped, Unfinished, InitRelay
<1> QED
  BY <1>4, <1>6, <1>8, <1>9, <1>10 DEF RelayInv

-----------------------------------------------------------------------------
(* Steps of the accept loops.                                               *)

\* A step that changes only what the loops do, and no connection they hold.
LEMMA LoopOnlyStep ==
    ASSUME RelayInv,
           loop' \in [Loops -> LoopRec],
           listener' \in [Ports -> Loops \cup {NoLoop}],
           \A l \in Loops : /\ loop'[l].conn = loop[l].conn
                            /\ loop'[l].st # "free" => loop'[l].port \in Ports
                            /\ loop'[l].st \in {"check", "hello", "role"} <=> loop[l].st \in {"check", "hello", "role"},
           OneLoopInv',
           UNCHANGED <<conn, pendingBE, busy, sessions, sess, stopped>>
    PROVE  RelayInv'
<1>1. RelayTypeOK'
  BY DEF RelayInv, RelayTypeOK, LoopRec
<1>2. LoopInv'
  BY DEF RelayInv, LoopInv
<1>3. BackendInv' /\ OrderlyUntilStopped'
  BY DEF RelayInv, BackendInv, OrderlyUntilStopped, Unfinished
<1>4. ConnectionExclusive'
  BY DEF RelayInv, ConnectionExclusive, Uses
<1> QED
  BY <1>1, <1>2, <1>3, <1>4 DEF RelayInv

LEMMA StartStep ==
    ASSUME RelayInv, NEW p \in Ports, StartRelayPort(p)
    PROVE  RelayInv'
<1>1. CASE UNCHANGED <<listener, loop>>
  BY <1>1, LoopOnlyStep DEF StartRelayPort, RelayInv, RelayTypeOK, LoopInv, OneLoopInv, LoopRec
<1>2. ASSUME NEW l \in Loops, listener[p] = NoLoop, Unused(l),
             listener' = [listener EXCEPT ![p] = l],
             loop' = [loop EXCEPT ![l] = Accepting(p)]
      PROVE  RelayInv'
  <2>0. loop[l] = Free
    BY <1>2 DEF Unused
  <2>1. loop' \in [Loops -> LoopRec] /\ listener' \in [Ports -> Loops \cup {NoLoop}]
    BY <1>2, LoopTyped DEF RelayInv, RelayTypeOK
  <2>2. \A m \in Loops : loop[m].port # p \/ p \in stopped
    BY <1>2, SlotAssumption DEF RelayInv, OneLoopInv
  <2>3. OneLoopInv'
    BY <1>2, <2>0, <2>2, LoopTyped, SlotAssumption DEF StartRelayPort, RelayInv, RelayTypeOK, OneLoopInv
  <2>4. \A m \in Loops : /\ loop'[m].conn = loop[m].conn
                         /\ loop'[m].st # "free" => loop'[m].port \in Ports
                         /\ loop'[m].st \in {"check", "hello", "role"} <=> loop[m].st \in {"check", "hello", "role"}
    BY <1>2, <2>0, LoopTyped DEF RelayInv, RelayTypeOK, LoopInv
  <2> QED
    BY <2>1, <2>3, <2>4, LoopOnlyStep DEF StartRelayPort
<1> QED
  BY <1>1, <1>2 DEF StartRelayPort

LEMMA AcceptFailsStep ==
    ASSUME RelayInv, NEW l \in Loops, AcceptFails(l) \/ Reported(l)
    PROVE  RelayInv'
<1>1. CASE AcceptFails(l)
  <2>1. loop' = [loop EXCEPT ![l] = Free] /\ loop[l].st = "accept" /\ UNCHANGED listener
    BY <1>1 DEF AcceptFails
  <2>2. loop' \in [Loops -> LoopRec] /\ loop[l].conn = NoConn
    BY <2>1, LoopTyped DEF RelayInv, RelayTypeOK, LoopInv
  <2>3. \A m \in Loops : /\ loop'[m].conn = loop[m].conn
                         /\ loop'[m].st # "free" => loop'[m].port \in Ports
                         /\ loop'[m].st \in {"check", "hello", "role"} <=> loop[m].st \in {"check", "hello", "role"}
    BY <2>1, <2>2, LoopTyped DEF RelayInv, RelayTypeOK, LoopInv
  <2>4. OneLoopInv'
    BY <1>1, <2>1, LoopTyped, SlotAssumption DEF AcceptFails, RelayInv, RelayTypeOK, OneLoopInv
  <2> QED
    BY <1>1, <2>2, <2>3, <2>4, LoopOnlyStep DEF AcceptFails, RelayInv, RelayTypeOK
<1>2. CASE Reported(l)
  <2>1. loop' = [loop EXCEPT ![l] = Accepting(loop[l].port)] /\ loop[l].st = "report" /\ UNCHANGED listener
    BY <1>2 DEF Reported
  <2>2. loop' \in [Loops -> LoopRec] /\ loop[l].conn = NoConn /\ loop[l].port \in Ports
    BY <2>1, LoopTyped DEF RelayInv, RelayTypeOK, LoopInv
  <2>3. \A m \in Loops : /\ loop'[m].conn = loop[m].conn
                         /\ loop'[m].st # "free" => loop'[m].port \in Ports
                         /\ loop'[m].st \in {"check", "hello", "role"} <=> loop[m].st \in {"check", "hello", "role"}
    BY <2>1, <2>2, LoopTyped DEF RelayInv, RelayTypeOK, LoopInv
  <2>4. OneLoopInv'
    BY <1>2, <2>1, <2>2, LoopTyped DEF Reported, RelayInv, RelayTypeOK, OneLoopInv
  <2> QED
    BY <1>2, <2>2, <2>3, <2>4, LoopOnlyStep DEF Reported, RelayInv, RelayTypeOK
<1> QED
  BY <1>1, <1>2

LEMMA MovedTyped ==
    ASSUME RelayTypeOK, NEW C, NEW where \in {"free", "hello", "pending", "gone", "session", "lost"},
           conn' = Moved(C, where)
    PROVE  /\ conn' \in [Conns -> {"free", "hello", "pending", "gone", "session", "lost"}]
           /\ \A c \in Conns : conn'[c] = IF c \in C THEN where ELSE conn[c]
  BY DEF RelayTypeOK, Moved

\* ConnectionExclusive for one connection, and a step that leaves it alone.
Exclusive(d) ==
    /\ conn[d] \in {"pending", "gone"} <=> \E p \in Ports : pendingBE[p] = d
    /\ conn[d] = "session" <=> \E f \in Conns : Uses(f, d)
    /\ conn[d] = "hello" <=> \E l \in Loops : loop[l].conn = d
    /\ \A p, q \in Ports : pendingBE[p] = d /\ pendingBE[q] = d => p = q
    /\ \A f, g \in Conns : Uses(f, d) /\ Uses(g, d) => f = g

LeftAlone(d) ==
    /\ conn'[d] = conn[d]
    /\ \A p \in Ports : pendingBE'[p] = d <=> pendingBE[p] = d
    /\ \A f \in Conns : Uses(f, d)' <=> Uses(f, d)
    /\ \A l \in Loops : loop'[l].conn = d <=> loop[l].conn = d

LEMMA ExclusiveKept ==
    ASSUME RelayInv, \A d \in Conns : LeftAlone(d) \/ Exclusive(d)'
    PROVE  ConnectionExclusive'
<1>1. ASSUME NEW d \in Conns, LeftAlone(d)
      PROVE  Exclusive(d)'
  <2>1. Exclusive(d)
    BY DEF RelayInv, ConnectionExclusive, Exclusive
  <2> QED
    BY <1>1, <2>1 DEF LeftAlone, Exclusive
<1>2. \A d \in Conns : Exclusive(d)'
  BY <1>1
<1> QED
  BY <1>2 DEF ConnectionExclusive, Exclusive

\* A step that begins and finishes no session and makes no port busy.
LEMMA OrderlyKept ==
    ASSUME RelayInv, stopped \subseteq stopped',
           \A f \in Conns : /\ Unfinished(f)' <=> Unfinished(f)
                            /\ Unfinished(f) => sess'[f].port = sess[f].port,
           \A p \in Ports \ stopped' : /\ busy'[p] = busy[p]
                                       /\ busy[p] => pendingBE'[p] = NoConn,
           \A c \in Conns : conn'[c] = "lost" => conn[c] = "lost"
    PROVE  OrderlyUntilStopped'
<1> SUFFICES ASSUME NEW p \in Ports \ stopped'
             PROVE  (/\ \A f, g \in Conns : /\ Unfinished(f) /\ Unfinished(g)
                                            /\ sess[f].port = p /\ sess[g].port = p
                                            => f = g
                     /\ busy[p] <=> \E f \in Conns : Unfinished(f) /\ sess[f].port = p
                     /\ busy[p] => pendingBE[p] = NoConn
                     /\ stopped = {} => \A c \in Conns : conn[c] # "lost")'
  BY DEF OrderlyUntilStopped
<1>1. /\ p \in Ports \ stopped
      /\ \A f, g \in Conns : /\ Unfinished(f) /\ Unfinished(g)
                             /\ sess[f].port = p /\ sess[g].port = p
                             => f = g
      /\ busy[p] <=> \E f \in Conns : Unfinished(f) /\ sess[f].port = p
      /\ stopped = {} => \A c \in Conns : conn[c] # "lost"
  BY DEF RelayInv, OrderlyUntilStopped
<1>2. \A f \in Conns : (Unfinished(f) /\ sess[f].port = p)' <=> Unfinished(f) /\ sess[f].port = p
  OBVIOUS
<1>3. (\A f, g \in Conns : /\ Unfinished(f) /\ Unfinished(g)
                           /\ sess[f].port = p /\ sess[g].port = p
                           => f = g)'
  BY <1>1, <1>2
<1>4. (busy[p] <=> \E f \in Conns : Unfinished(f) /\ sess[f].port = p)'
  BY <1>1, <1>2
<1>5. (stopped = {} => \A c \in Conns : conn[c] # "lost")'
  BY <1>1
<1> QED
  BY <1>3, <1>4, <1>5

LEMMA AcceptStep ==
    ASSUME RelayInv, NEW l \in Loops, NEW c \in Conns, Accept(l, c)
    PROVE  RelayInv'
<1> DEFINE new == [loop[l] EXCEPT !.st = "check", !.conn = c]
<1>1. /\ loop[l].st = "accept" /\ loop[l].conn = NoConn /\ loop[l].port \in Ports
      /\ conn[c] = "free" /\ c # NoConn /\ sess[c].st = "none"
      /\ UNCHANGED <<listener, pendingBE, busy, sessions, sess, stopped>>
  BY SlotAssumption DEF Accept, RelayInv, LoopInv, NoSession
<1>2. loop' = [loop EXCEPT ![l] = new] /\ conn' = Moved({c}, "hello")
  BY DEF Accept
<1>3. new \in LoopRec /\ new.st = "check" /\ new.conn = c /\ new.port = loop[l].port
  BY LoopTyped DEF RelayInv, LoopRec
<1>4. RelayTypeOK'
  BY <1>1, <1>2, <1>3, MovedTyped DEF RelayInv, RelayTypeOK, LoopRec
<1>5. /\ loop'[l] = new /\ \A m \in Loops : m # l => loop'[m] = loop[m]
      /\ conn'[c] = "hello" /\ \A d \in Conns : d # c => conn'[d] = conn[d]
  BY <1>2, <1>3 DEF RelayInv, RelayTypeOK, Moved
<1>6. /\ \A m \in Loops : loop[m].conn # c
      /\ \A p \in Ports : pendingBE[p] # c
      /\ \A f \in Conns : ~Uses(f, c)
  BY <1>1 DEF RelayInv, ConnectionExclusive
<1> HIDE DEF new
<1>7. LoopInv'
  BY <1>1, <1>3, <1>5, <1>6 DEF RelayInv, LoopInv
<1>8. BackendInv' /\ OneLoopInv'
  BY <1>1, <1>3, <1>5 DEF RelayInv, BackendInv, OneLoopInv
<1>9. ConnectionExclusive'
  <2>1. \A d \in Conns, f \in Conns : Uses(f, d)' <=> Uses(f, d)
    BY <1>1 DEF Uses
  <2>2. \A d \in Conns : d # c => LeftAlone(d)
    BY <1>1, <1>3, <1>5, <2>1, SlotAssumption DEF LeftAlone
  <2>3. Exclusive(c)'
    BY <1>1, <1>3, <1>5, <1>6, <2>1 DEF Exclusive
  <2> QED
    BY <2>2, <2>3, ExclusiveKept
<1>10. OrderlyUntilStopped'
  BY <1>1, <1>5 DEF RelayInv, OrderlyUntilStopped, Unfinished
<1> QED
  BY <1>4, <1>7, <1>8, <1>9, <1>10 DEF RelayInv

\* What holds of a connection that a loop has.
LEMMA LoopConn ==
    ASSUME RelayInv, NEW l \in Loops, loop[l].st \in {"check", "hello", "role"}
    PROVE  /\ loop[l].conn \in Conns /\ loop[l].port \in Ports
           /\ conn[loop[l].conn] = "hello"
           /\ \A m \in Loops : m # l => loop[m].conn # loop[l].conn
           /\ \A p \in Ports : pendingBE[p] # loop[l].conn
           /\ \A f \in Conns : ~Uses(f, loop[l].conn)
<1>1. loop[l].conn \in Conns /\ loop[l].port \in Ports
  BY LoopTyped DEF RelayInv, LoopInv, LoopRec
<1>2. conn[loop[l].conn] = "hello"
  BY <1>1 DEF RelayInv, ConnectionExclusive
<1> QED
  BY <1>1, <1>2, SlotAssumption DEF RelayInv, LoopInv, ConnectionExclusive

LEMMA TurnAwayStep ==
    ASSUME RelayInv, NEW l \in Loops, loop[l].st \in {"check", "hello", "role"}, TurnAway(l)
    PROVE  RelayInv'
<1>0. PICK c \in Conns, p \in Ports : c = loop[l].conn /\ p = loop[l].port
  BY LoopConn
<1>1. /\ loop' = [loop EXCEPT ![l] = Accepting(p)] /\ conn' = Moved({c}, "free")
      /\ UNCHANGED <<listener, pendingBE, busy, sessions, sess, stopped>>
  BY <1>0 DEF TurnAway, Closed
<1>2. /\ c \in Conns /\ p \in Ports
      /\ \A m \in Loops : m # l => loop[m].conn # c
      /\ \A q \in Ports : pendingBE[q] # c
      /\ \A f \in Conns : ~Uses(f, c)
  BY <1>0, LoopConn
<1>3. Accepting(p) \in LoopRec /\ Accepting(p).port = p /\ Accepting(p).conn = NoConn /\ Accepting(p).st = "accept"
  BY <1>2, LoopTyped DEF RelayInv
<1>4. RelayTypeOK'
  BY <1>1, <1>3, MovedTyped DEF RelayInv, RelayTypeOK, LoopRec
<1>5. /\ loop'[l] = Accepting(p) /\ \A m \in Loops : m # l => loop'[m] = loop[m]
      /\ conn'[c] = "free" /\ \A d \in Conns : d # c => conn'[d] = conn[d]
  BY <1>1, <1>2 DEF RelayInv, RelayTypeOK, Moved
<1>6. LoopInv'
  BY <1>1, <1>2, <1>3, <1>5, SlotAssumption DEF RelayInv, LoopInv
<1>7. BackendInv' /\ OneLoopInv'
  BY <1>0, <1>1, <1>3, <1>5 DEF RelayInv, BackendInv, OneLoopInv
<1>8. ConnectionExclusive'
  <2>1. \A d \in Conns, f \in Conns : Uses(f, d)' <=> Uses(f, d)
    BY <1>1 DEF Uses
  <2>2. ASSUME NEW d \in Conns, d # c
        PROVE  LeftAlone(d)
    <3>1. conn'[d] = conn[d] /\ \A q \in Ports : pendingBE'[q] = d <=> pendingBE[q] = d
      BY <1>1, <1>2, <1>5, <2>2, SlotAssumption
    <3>2. ASSUME NEW m \in Loops
          PROVE  loop'[m].conn = d <=> loop[m].conn = d
      <4>1. CASE m = l
        BY <1>0, <1>3, <1>5, <2>2, <4>1, SlotAssumption
      <4> QED
        BY <1>5, <4>1
    <3> QED
      BY <2>1, <3>1, <3>2 DEF LeftAlone
  <2>3. Exclusive(c)'
    BY <1>1, <1>2, <1>3, <1>5, SlotAssumption, <2>1 DEF Exclusive
  <2> QED
    BY <2>2, <2>3, ExclusiveKept
<1>9. OrderlyUntilStopped'
  <2>1. \A q \in Ports \ stopped : busy[q] => pendingBE[q] = NoConn
    BY DEF RelayInv, OrderlyUntilStopped
  <2>2. \A d \in Conns : conn'[d] = "lost" => conn[d] = "lost"
    BY <1>5
  <2> QED
    BY <1>1, <2>1, <2>2, OrderlyKept DEF Unfinished
<1> QED
  BY <1>4, <1>6, <1>7, <1>8, <1>9 DEF RelayInv

\* A loop that keeps its connection and goes on to read the hello.
LEMMA BusyCheckStep ==
    ASSUME RelayInv, NEW l \in Loops, BusyCheck(l)
    PROVE  RelayInv'
<1>1. loop[l].st = "check"
  BY DEF BusyCheck
<1>2. CASE TurnAway(l)
  BY <1>1, <1>2, TurnAwayStep
<1>3. ASSUME ~TurnAway(l)
      PROVE  RelayInv'
  <2>1. /\ loop' = [loop EXCEPT ![l].st = "hello"]
        /\ UNCHANGED <<listener, conn, pendingBE, busy, sessions, sess, stopped>>
    BY <1>3 DEF BusyCheck
  <2> DEFINE new == [loop[l] EXCEPT !.st = "hello"]
  <2>2. loop' = [loop EXCEPT ![l] = new]
    BY <2>1
  <2>3. new \in LoopRec /\ new.st = "hello" /\ new.conn = loop[l].conn /\ new.port = loop[l].port
    BY LoopTyped DEF RelayInv, LoopRec
  <2> HIDE DEF new
  <2>4. /\ loop' \in [Loops -> LoopRec]
        /\ loop'[l] = new /\ \A m \in Loops : m # l => loop'[m] = loop[m]
    BY <2>2, <2>3 DEF RelayInv, RelayTypeOK, LoopRec
  <2>5. OneLoopInv'
    BY <2>1, <2>3, <2>4 DEF RelayInv, OneLoopInv
  <2>6. ASSUME NEW m \in Loops
        PROVE  /\ loop'[m].conn = loop[m].conn
               /\ loop'[m].st # "free" => loop'[m].port \in Ports
               /\ loop'[m].st \in {"check", "hello", "role"} <=> loop[m].st \in {"check", "hello", "role"}
    <3>1. CASE m = l
      BY <1>1, <2>3, <2>4, <3>1, LoopConn
    <3>2. CASE m # l
      BY <2>4, <3>2 DEF RelayInv, LoopInv
    <3> QED
      BY <3>1, <3>2
  <2> QED
    BY <2>1, <2>4, <2>5, <2>6, LoopOnlyStep DEF RelayInv, RelayTypeOK
<1> QED
  BY <1>2, <1>3

LEMMA PendBEStep ==
    ASSUME RelayInv, NEW l \in Loops, loop[l].st \in {"check", "hello", "role"},
           pendingBE[loop[l].port] = NoConn,
           loop[l].port \notin stopped => ~busy[loop[l].port],
           PendBE(l)
    PROVE  RelayInv'
<1>0. PICK c \in Conns, p \in Ports : c = loop[l].conn /\ p = loop[l].port
  BY LoopConn
<1>1. /\ loop' = [loop EXCEPT ![l] = Reporting(p)] /\ conn' = Moved({c}, "pending")
      /\ pendingBE' = [pendingBE EXCEPT ![p] = c]
      /\ UNCHANGED <<listener, busy, sessions, sess, stopped>>
  BY <1>0 DEF PendBE
<1>2. /\ c \in Conns /\ p \in Ports
      /\ \A m \in Loops : m # l => loop[m].conn # c
      /\ \A q \in Ports : pendingBE[q] # c
      /\ \A f \in Conns : ~Uses(f, c)
      /\ pendingBE[p] = NoConn /\ (p \notin stopped => ~busy[p])
  BY <1>0, LoopConn
<1>3. Reporting(p) \in LoopRec /\ Reporting(p).port = p /\ Reporting(p).conn = NoConn /\ Reporting(p).st = "report"
  BY <1>2, LoopTyped DEF RelayInv
<1>4. RelayTypeOK'
  BY <1>1, <1>2, <1>3, MovedTyped DEF RelayInv, RelayTypeOK, LoopRec
<1>5. /\ loop'[l] = Reporting(p) /\ \A m \in Loops : m # l => loop'[m] = loop[m]
      /\ conn'[c] = "pending" /\ \A d \in Conns : d # c => conn'[d] = conn[d]
      /\ pendingBE'[p] = c /\ \A q \in Ports : q # p => pendingBE'[q] = pendingBE[q]
  BY <1>1, <1>2 DEF RelayInv, RelayTypeOK, Moved
<1>6. LoopInv'
  BY <1>1, <1>2, <1>3, <1>5, SlotAssumption DEF RelayInv, LoopInv
<1>7. BackendInv' /\ OneLoopInv'
  BY <1>0, <1>1, <1>3, <1>5 DEF RelayInv, BackendInv, OneLoopInv
<1>8. ConnectionExclusive'
  <2>1. \A d \in Conns, f \in Conns : Uses(f, d)' <=> Uses(f, d)
    BY <1>1 DEF Uses
  <2>2. ASSUME NEW d \in Conns, d # c
        PROVE  LeftAlone(d)
    <3>1. conn'[d] = conn[d] /\ \A q \in Ports : pendingBE'[q] = d <=> pendingBE[q] = d
      <4>1. pendingBE'[p] # d /\ pendingBE[p] # d
        BY <1>2, <1>5, <2>2, SlotAssumption
      <4> QED
        BY <1>5, <2>2, <4>1
    <3>2. ASSUME NEW m \in Loops
          PROVE  loop'[m].conn = d <=> loop[m].conn = d
      <4>1. CASE m = l
        BY <1>0, <1>3, <1>5, <2>2, <4>1, SlotAssumption
      <4> QED
        BY <1>5, <4>1
    <3> QED
      BY <2>1, <3>1, <3>2 DEF LeftAlone
  <2>3. Exclusive(c)'
    BY <1>1, <1>2, <1>3, <1>5, SlotAssumption, <2>1 DEF Exclusive
  <2> QED
    BY <2>2, <2>3, ExclusiveKept
<1>9. OrderlyUntilStopped'
  <2>1. \A q \in Ports \ stopped : busy[q] => pendingBE'[q] = NoConn
    BY <1>2, <1>5 DEF RelayInv, OrderlyUntilStopped
  <2>2. \A d \in Conns : conn'[d] = "lost" => conn[d] = "lost"
    BY <1>5
  <2> QED
    BY <1>1, <2>1, <2>2, OrderlyKept DEF Unfinished
<1> QED
  BY <1>4, <1>6, <1>7, <1>8, <1>9 DEF RelayInv

LEMMA PairStep ==
    ASSUME RelayInv, NEW l \in Loops, loop[l].st \in {"check", "hello", "role"},
           pendingBE[loop[l].port] # NoConn,
           loop[l].port \notin stopped => ~busy[loop[l].port],
           Pair(l)
    PROVE  RelayInv'
<1>0. PICK c \in Conns, p \in Ports : c = loop[l].conn /\ p = loop[l].port
  BY LoopConn
<1>1. PICK be \in Conns : be = pendingBE[p]
  BY <1>0 DEF RelayInv, RelayTypeOK
<1> DEFINE new == [port |-> p, be |-> be, st |-> "run", keep |-> FALSE]
<1>2. /\ loop' = [loop EXCEPT ![l] = Reporting(p)] /\ conn' = Moved({c, be}, "session")
      /\ pendingBE' = [pendingBE EXCEPT ![p] = NoConn]
      /\ sess' = [sess EXCEPT ![c] = new]
      /\ sessions' = [sessions EXCEPT ![p] = c]
      /\ busy' = [busy EXCEPT ![p] = TRUE]
      /\ UNCHANGED <<listener, stopped>>
  BY <1>0, <1>1 DEF Pair
<1>3. /\ \A m \in Loops : m # l => loop[m].conn # c
      /\ \A q \in Ports : pendingBE[q] # c
      /\ \A f \in Conns : ~Uses(f, c)
      /\ p \notin stopped => ~busy[p]
      /\ sess[c].st = "none" /\ c # be
  BY <1>0, <1>1, LoopConn, SlotAssumption DEF RelayInv, LoopInv
<1>4. /\ conn[be] \in {"pending", "gone"}
      /\ \A m \in Loops : loop[m].conn # be
      /\ \A q \in Ports : q # p => pendingBE[q] # be
      /\ \A f \in Conns : ~Uses(f, be)
  BY <1>1 DEF RelayInv, ConnectionExclusive
<1>5. Reporting(p) \in LoopRec /\ Reporting(p).port = p /\ Reporting(p).conn = NoConn /\ Reporting(p).st = "report"
  BY LoopTyped DEF RelayInv
<1>6. new \in SessRec /\ new.st = "run" /\ new.be = be /\ new.port = p
  BY DEF SessRec
<1> HIDE DEF new
<1>7. RelayTypeOK'
  BY <1>2, <1>5, <1>6, MovedTyped DEF RelayInv, RelayTypeOK, LoopRec, SessRec
<1>8. /\ loop'[l] = Reporting(p) /\ \A m \in Loops : m # l => loop'[m] = loop[m]
      /\ conn'[c] = "session" /\ conn'[be] = "session"
      /\ \A d \in Conns : d \notin {c, be} => conn'[d] = conn[d]
      /\ pendingBE'[p] = NoConn /\ \A q \in Ports : q # p => pendingBE'[q] = pendingBE[q]
      /\ sess'[c] = new /\ \A f \in Conns : f # c => sess'[f] = sess[f]
      /\ busy'[p] = TRUE /\ \A q \in Ports : q # p => busy'[q] = busy[q]
  BY <1>2 DEF RelayInv, RelayTypeOK, Moved
<1>9. LoopInv'
  <2>1. \A m \in Loops : loop[m].conn # NoConn => loop[m].conn \in Conns
    BY LoopTyped DEF RelayInv, LoopRec
  <2> QED
    BY <1>3, <1>5, <1>8, <2>1, SlotAssumption DEF RelayInv, LoopInv
<1>10. BackendInv'
  BY <1>3, <1>6, <1>8 DEF RelayInv, BackendInv
<1>11. OneLoopInv'
  <2>1. \A m \in Loops : m # l /\ loop[m].port = p => p \in stopped
    BY <1>0 DEF RelayInv, OneLoopInv
  <2> QED
    BY <1>0, <1>2, <1>5, <1>8, <2>1 DEF RelayInv, OneLoopInv
<1>12. ConnectionExclusive'
  <2>1. /\ \A d \in Conns : Uses(c, d)' <=> d \in {c, be}
        /\ \A d, f \in Conns : f # c => (Uses(f, d)' <=> Uses(f, d))
        /\ \A d \in Conns : ~Uses(c, d)
    BY <1>3, <1>6, <1>8 DEF Uses
  <2>2. ASSUME NEW d \in Conns, d \notin {c, be}
        PROVE  LeftAlone(d)
    <3>1. \A m \in Loops : loop'[m].conn = d <=> loop[m].conn = d
      BY <1>0, <1>5, <1>8, <2>2, SlotAssumption
    <3>2. \A q \in Ports : pendingBE'[q] = d <=> pendingBE[q] = d
      BY <1>1, <1>8, <2>2, SlotAssumption
    <3> QED
      BY <1>8, <2>1, <2>2, <3>1, <3>2 DEF LeftAlone
  <2>3. ASSUME NEW d \in {c, be}
        PROVE  Exclusive(d)'
    <3>1. /\ d \in Conns /\ conn'[d] = "session"
          /\ \A q \in Ports : pendingBE'[q] # d
          /\ \A m \in Loops : loop'[m].conn # d
      BY <1>3, <1>4, <1>5, <1>8, SlotAssumption
    <3>2. \A f \in Conns : Uses(f, d)' <=> f = c
      BY <1>3, <1>4, <2>1
    <3> QED
      BY <3>1, <3>2 DEF Exclusive
  <2> QED
    BY <2>2, <2>3, ExclusiveKept
<1>13. OrderlyUntilStopped'
  <2>1. /\ Unfinished(c)' /\ ~Unfinished(c) /\ sess'[c].port = p
        /\ \A f \in Conns : f # c => (Unfinished(f)' <=> Unfinished(f)) /\ sess'[f] = sess[f]
    BY <1>3, <1>6, <1>8 DEF Unfinished
  <2>2. p \notin stopped => \A f \in Conns : ~(Unfinished(f) /\ sess[f].port = p)
    BY <1>3 DEF RelayInv, OrderlyUntilStopped
  <2> SUFFICES ASSUME NEW q \in Ports \ stopped'
               PROVE  (/\ \A f, g \in Conns : /\ Unfinished(f) /\ Unfinished(g)
                                              /\ sess[f].port = q /\ sess[g].port = q
                                              => f = g
                       /\ busy[q] <=> \E f \in Conns : Unfinished(f) /\ sess[f].port = q
                       /\ busy[q] => pendingBE[q] = NoConn
                       /\ stopped = {} => \A d \in Conns : conn[d] # "lost")'
    BY DEF OrderlyUntilStopped
  <2>3. /\ q \in Ports \ stopped
        /\ \A f, g \in Conns : /\ Unfinished(f) /\ Unfinished(g)
                               /\ sess[f].port = q /\ sess[g].port = q
                               => f = g
        /\ busy[q] <=> \E f \in Conns : Unfinished(f) /\ sess[f].port = q
        /\ busy[q] => pendingBE[q] = NoConn
        /\ stopped = {} => \A d \in Conns : conn[d] # "lost"
    BY <1>2 DEF RelayInv, OrderlyUntilStopped
  <2>4. (\A f, g \in Conns : Unfinished(f) /\ Unfinished(g) /\ sess[f].port = q /\ sess[g].port = q => f = g)'
    BY <1>2, <2>1, <2>2, <2>3
  <2>5. (busy[q] <=> \E f \in Conns : Unfinished(f) /\ sess[f].port = q)'
    <3>1. CASE q = p
      BY <1>8, <2>1, <3>1
    <3>2. CASE q # p
      <4>1. \A f \in Conns : (Unfinished(f) /\ sess[f].port = q)' <=> Unfinished(f) /\ sess[f].port = q
        BY <2>1, <3>2
      <4> QED
        BY <1>8, <2>3, <3>2, <4>1
    <3> QED
      BY <3>1, <3>2
  <2>6. (busy[q] => pendingBE[q] = NoConn)'
    <3>1. CASE q = p
      BY <1>8, <3>1
    <3> QED
      BY <1>8, <2>3, <3>1
  <2>7. (stopped = {} => \A d \in Conns : conn[d] # "lost")'
    <3>1. \A d \in Conns : conn'[d] = "lost" => conn[d] = "lost"
      BY <1>8
    <3> QED
      BY <1>2, <2>3, <3>1
  <2> QED
    BY <2>4, <2>5, <2>6, <2>7
<1> QED
  BY <1>7, <1>9, <1>10, <1>11, <1>12, <1>13 DEF RelayInv

-----------------------------------------------------------------------------
(* Sessions.                                                                *)

\* The connections that are closed when the sessions of hit end, those of kept
\* with their backend kept, and the backends that wait on drop are dropped.
Released(hit, kept, drop, d) ==
    \/ d \in hit
    \/ \E f \in hit : f \notin kept /\ d = sess[f].be
    \/ \E p \in drop : d = pendingBE[p]

\* What Stop, StopPort, ScheduleKill and SnapshotPortState share.
Ends(hit, kept, drop) ==
    /\ \A f \in hit : sess[f].st = "run"
    /\ \A f \in Conns : f \notin hit => sess'[f] = sess[f]
    /\ \A f \in hit : /\ sess'[f].st = "stop" /\ (sess'[f].keep <=> f \in kept)
                      /\ sess'[f].be = sess[f].be /\ sess'[f].port = sess[f].port
    /\ \A d \in Conns : conn'[d] = IF Released(hit, kept, drop, d) THEN "free" ELSE conn[d]
    /\ \A q \in Ports : pendingBE'[q] = IF q \in drop THEN NoConn ELSE pendingBE[q]
    /\ loop' = loop

LEMMA EndedKeeps ==
    ASSUME RelayInv,
           NEW hit \in SUBSET Conns, NEW kept, NEW drop \in SUBSET Ports,
           Ends(hit, kept, drop)
    PROVE  /\ LoopInv' /\ BackendInv' /\ ConnectionExclusive'
           /\ \A f \in Conns : /\ Unfinished(f)' <=> Unfinished(f)
                               /\ sess'[f].port = sess[f].port
           /\ \A c \in Conns : conn'[c] = "lost" => conn[c] = "lost"
<1> USE DEF Ends
<1>1. \A c \in Conns : conn'[c] = "lost" => conn[c] = "lost"
  OBVIOUS
<1>2. LoopInv'
  <2>1. \A l \in Loops : loop[l].conn # NoConn => loop[l].conn \in Conns /\ sess[loop[l].conn].st = "none"
    BY LoopTyped DEF RelayInv, LoopInv, LoopRec
  <2>2. \A l \in Loops : loop[l].conn # NoConn => sess'[loop[l].conn].st = "none"
    <3> TAKE l \in Loops
    <3> HAVE loop[l].conn # NoConn
    <3>1. loop[l].conn \in Conns /\ loop[l].conn \notin hit
      BY <2>1
    <3> QED
      BY <2>1, <3>1
  <2> QED
    BY <2>2 DEF RelayInv, LoopInv
<1>3. BackendInv'
  <2>1. ASSUME NEW f \in Conns, sess'[f].st # "none"
        PROVE  sess'[f].be # f
    <3>1. CASE f \in hit
      BY <3>1 DEF RelayInv, BackendInv
    <3>2. CASE f \notin hit
      BY <2>1, <3>2 DEF RelayInv, BackendInv
    <3> QED
      BY <3>1, <3>2
  <2> QED
    BY <2>1 DEF BackendInv
<1>4. ASSUME NEW f \in Conns
      PROVE  /\ Unfinished(f)' <=> Unfinished(f)
             /\ sess'[f].port = sess[f].port
  <2>1. CASE f \in hit
    BY <2>1 DEF Unfinished
  <2>2. CASE f \notin hit
    BY <2>2 DEF Unfinished
  <2> QED
    BY <2>1, <2>2
<1>5. /\ \A f \in hit, d \in Conns : /\ Uses(f, d)' <=> f \in kept /\ d = sess[f].be
                                     /\ Uses(f, d) <=> d \in {f, sess[f].be}
                                     /\ sess[f].be # f
      /\ \A f \in Conns, d \in Conns : f \notin hit => (Uses(f, d)' <=> Uses(f, d))
  <2>1. ASSUME NEW f \in hit, NEW d \in Conns
        PROVE  /\ Uses(f, d)' <=> f \in kept /\ d = sess[f].be
               /\ Uses(f, d) <=> d \in {f, sess[f].be}
               /\ sess[f].be # f
    BY DEF RelayInv, BackendInv, Uses
  <2>2. ASSUME NEW f \in Conns, NEW d \in Conns, f \notin hit
        PROVE  Uses(f, d)' <=> Uses(f, d)
    <3>1. sess'[f] = sess[f]
      BY <2>2
    <3> QED
      BY <3>1 DEF Uses
  <2> QED
    BY <2>1, <2>2
<1>6. ConnectionExclusive'
  <2>1. ASSUME NEW d \in Conns, ~Released(hit, kept, drop, d)
        PROVE  LeftAlone(d)
    <3>1. ASSUME NEW q \in Ports
          PROVE  pendingBE'[q] = d <=> pendingBE[q] = d
      BY <2>1, SlotAssumption DEF Released
    <3>2. ASSUME NEW f \in Conns
          PROVE  Uses(f, d)' <=> Uses(f, d)
      <4>1. CASE f \in hit
        BY <1>5, <2>1, <4>1 DEF Released
      <4>2. CASE f \notin hit
        BY <1>5, <4>2
      <4> QED
        BY <4>1, <4>2
    <3>3. conn'[d] = conn[d]
      BY <2>1
    <3> QED
      BY <3>1, <3>2, <3>3 DEF LeftAlone
  <2>2. ASSUME NEW d \in Conns, Released(hit, kept, drop, d)
        PROVE  Exclusive(d)'
    <3>0. Exclusive(d)
      BY DEF RelayInv, ConnectionExclusive, Exclusive
    <3>1. conn'[d] = "free"
      BY <2>2
    <3>2. CASE \E f \in hit : d = f \/ (f \notin kept /\ d = sess[f].be)
      <4>1. PICK f \in hit : d = f \/ (f \notin kept /\ d = sess[f].be)
        BY <3>2
      <4>2. Uses(f, d) /\ ~Uses(f, d)'
        BY <1>5, <4>1
      <4>3. conn[d] = "session"
        BY <3>0, <4>2 DEF Exclusive
      <4>4. /\ \A g \in Conns : g # f => ~Uses(g, d)
            /\ \A q \in Ports : pendingBE[q] # d
            /\ \A l \in Loops : loop[l].conn # d
        BY <3>0, <4>2, <4>3 DEF Exclusive
      <4>5. \A q \in Ports : pendingBE'[q] # d
        BY <4>4, SlotAssumption
      <4>6. ASSUME NEW g \in Conns
            PROVE  ~Uses(g, d)'
        <5>1. CASE g = f
          BY <4>2, <5>1
        <5>2. CASE g # f /\ g \in hit
          BY <1>5, <4>4, <5>2
        <5>3. CASE g # f /\ g \notin hit
          BY <1>5, <4>4, <5>3
        <5> QED
          BY <5>1, <5>2, <5>3
      <4> QED
        BY <3>1, <4>4, <4>5, <4>6 DEF Exclusive
    <3>3. CASE \E q \in drop : d = pendingBE[q]
      <4>1. PICK q \in drop : d = pendingBE[q]
        BY <3>3
      <4>2. conn[d] \in {"pending", "gone"}
        BY <3>0, <4>1 DEF Exclusive
      <4>3. /\ \A g \in Conns : ~Uses(g, d)
            /\ \A r \in Ports : r # q => pendingBE[r] # d
            /\ \A l \in Loops : loop[l].conn # d
        BY <3>0, <4>1, <4>2 DEF Exclusive
      <4>4. ASSUME NEW g \in Conns
            PROVE  ~Uses(g, d)'
        <5>1. CASE g \in hit
          BY <1>5, <4>3, <5>1
        <5>2. CASE g \notin hit
          BY <1>5, <4>3, <5>2
        <5> QED
          BY <5>1, <5>2
      <4>5. \A r \in Ports : pendingBE'[r] # d
        BY <4>1, <4>3, SlotAssumption
      <4> QED
        BY <3>1, <4>3, <4>4, <4>5 DEF Exclusive
    <3> QED
      BY <2>2, <3>2, <3>3 DEF Released
  <2> QED
    BY <2>1, <2>2, ExclusiveKept
<1> QED
  BY <1>1, <1>2, <1>3, <1>4, <1>6

LEMMA EndStep ==
    ASSUME RelayInv,
           NEW hit \in SUBSET Conns, NEW kept, NEW drop \in SUBSET Ports,
           Ends(hit, kept, drop),
           RelayTypeOK', stopped \subseteq stopped',
           \A p \in Ports \ stopped' : busy'[p] = busy[p] /\ listener'[p] = listener[p]
    PROVE  RelayInv'
<1>1. /\ LoopInv' /\ BackendInv' /\ ConnectionExclusive'
      /\ \A f \in Conns : /\ Unfinished(f)' <=> Unfinished(f)
                          /\ sess'[f].port = sess[f].port
      /\ \A c \in Conns : conn'[c] = "lost" => conn[c] = "lost"
  BY EndedKeeps
<1>2. OneLoopInv'
  BY DEF RelayInv, OneLoopInv, Ends
<1>3. OrderlyUntilStopped'
  <2>1. \A p \in Ports \ stopped' : busy[p] => pendingBE'[p] = NoConn
    <3> TAKE p \in Ports \ stopped'
    <3>1. p \in Ports \ stopped
      OBVIOUS
    <3>2. busy[p] => pendingBE[p] = NoConn
      BY <3>1 DEF RelayInv, OrderlyUntilStopped
    <3> QED
      BY <3>1, <3>2 DEF Ends
  <2> QED
    BY <1>1, <2>1, OrderlyKept
<1> QED
  BY <1>1, <1>2, <1>3 DEF RelayInv

LEMMA StoppedRec ==
    ASSUME RelayTypeOK, NEW f \in Conns, sess[f].st = "run", NEW keep \in BOOLEAN
    PROVE  /\ [sess[f] EXCEPT !.st = "stop", !.keep = keep] \in SessRec
           /\ [sess[f] EXCEPT !.st = "stop", !.keep = keep].st = "stop"
           /\ [sess[f] EXCEPT !.st = "stop", !.keep = keep].keep = keep
           /\ [sess[f] EXCEPT !.st = "stop", !.keep = keep].be = sess[f].be
           /\ [sess[f] EXCEPT !.st = "stop", !.keep = keep].port = sess[f].port
<1>1. sess[f] \in SessRec
  BY SessTyped
<1> QED
  BY <1>1 DEF SessRec

\* One session ends.
LEMMA OneEnds ==
    ASSUME RelayTypeOK, NEW f \in Conns, sess[f].st = "run", NEW keep \in BOOLEAN,
           sess' = [sess EXCEPT ![f].st = "stop", ![f].keep = keep]
    PROVE  /\ sess' \in [Conns -> SessRec \cup {NoSession}]
           /\ \A g \in Conns : g \notin {f} => sess'[g] = sess[g]
           /\ sess'[f].st = "stop" /\ sess'[f].keep = keep
           /\ sess'[f].be = sess[f].be /\ sess'[f].port = sess[f].port
<1>1. PICK new \in SessRec : /\ sess' = [sess EXCEPT ![f] = new]
                             /\ new.st = "stop" /\ new.keep = keep
                             /\ new.be = sess[f].be /\ new.port = sess[f].port
  <2> DEFINE new == [sess[f] EXCEPT !.st = "stop", !.keep = keep]
  <2>1. sess' = [sess EXCEPT ![f] = new]
    OBVIOUS
  <2>2. new \in SessRec /\ new.st = "stop" /\ new.keep = keep /\ new.be = sess[f].be /\ new.port = sess[f].port
    BY StoppedRec
  <2> HIDE DEF new
  <2> QED
    BY <2>1, <2>2
<1>2. /\ sess \in [Conns -> SessRec \cup {NoSession}]
      /\ sess' = [sess EXCEPT ![f] = new]
  BY <1>1 DEF RelayTypeOK, SessRec
<1>3. sess'[f] = new /\ \A g \in Conns : g \notin {f} => sess'[g] = sess[g]
  BY <1>2, Zenon
<1>4. sess' \in [Conns -> SessRec \cup {NoSession}]
  BY <1>2, Zenon
<1> QED
  BY <1>1, <1>3, <1>4, Zenon

LEMMA SessionStopsStep ==
    ASSUME RelayInv, NEW f \in Conns, NEW keep \in BOOLEAN, SessionStops(f, keep)
    PROVE  RelayInv'
<1> DEFINE kept == IF keep THEN {f} ELSE {}
<1>0. PICK C : C = IF keep THEN {f} ELSE {f, sess[f].be}
  OBVIOUS
<1>1. /\ sess[f].st = "run" /\ sess' = [sess EXCEPT ![f].st = "stop", ![f].keep = keep]
      /\ conn' = Moved(C, "free")
      /\ UNCHANGED <<listener, loop, pendingBE, busy, sessions, stopped>>
  BY <1>0 DEF SessionStops, Ended, Closed
<1>2. /\ sess' \in [Conns -> SessRec \cup {NoSession}]
      /\ \A g \in Conns : g \notin {f} => sess'[g] = sess[g]
      /\ sess'[f].st = "stop" /\ sess'[f].keep = keep
      /\ sess'[f].be = sess[f].be /\ sess'[f].port = sess[f].port
  BY <1>1, OneEnds DEF RelayInv
<1>3. /\ conn' \in [Conns -> {"free", "hello", "pending", "gone", "session", "lost"}]
      /\ \A d \in Conns : conn'[d] = IF d \in C THEN "free" ELSE conn[d]
  BY <1>1, MovedTyped DEF RelayInv
<1>4. \A d \in Conns : d \in C <=> Released({f}, kept, {}, d)
  BY <1>0 DEF Released
<1>5. RelayTypeOK'
  BY <1>1, <1>2, <1>3 DEF RelayInv, RelayTypeOK, SessRec
<1>6. Ends({f}, kept, {})
  <2>1. \A g \in {f} : /\ sess[g].st = "run" /\ sess'[g].st = "stop" /\ (sess'[g].keep <=> g \in kept)
                       /\ sess'[g].be = sess[g].be /\ sess'[g].port = sess[g].port
    BY <1>1, <1>2
  <2>2. /\ \A d \in Conns : conn'[d] = IF Released({f}, kept, {}, d) THEN "free" ELSE conn[d]
        /\ \A q \in Ports : pendingBE'[q] = IF q \in {} THEN NoConn ELSE pendingBE[q]
    BY <1>1, <1>3, <1>4
  <2> QED
    BY <1>1, <1>2, <2>1, <2>2 DEF Ends
<1> HIDE DEF kept
<1> QED
  BY <1>1, <1>5, <1>6, EndStep

LEMMA OnStopHooksStep ==
    ASSUME RelayInv, NEW f \in Conns, OnStopHooks(f)
    PROVE  RelayInv'
<1>1. /\ sess[f].st = "hook" /\ sess' = [sess EXCEPT ![f] = NoSession]
      /\ UNCHANGED <<listener, loop, conn, pendingBE, busy, sessions, stopped>>
  BY DEF OnStopHooks
<1>2. sess'[f] = NoSession /\ NoSession.st = "none" /\ \A g \in Conns : g # f => sess'[g] = sess[g]
  BY <1>1, SessTyped DEF RelayInv, RelayTypeOK
<1>3. RelayTypeOK'
  BY <1>1 DEF RelayInv, RelayTypeOK
<1>4. LoopInv'
  <2>1. \A l \in Loops : loop[l].conn # NoConn => loop[l].conn \in Conns
    BY LoopTyped DEF RelayInv, LoopRec
  <2> QED
    BY <1>1, <1>2, <2>1 DEF RelayInv, LoopInv
<1>5. BackendInv' /\ OneLoopInv'
  BY <1>1, <1>2 DEF RelayInv, BackendInv, OneLoopInv
<1>6. ASSUME NEW g \in Conns
      PROVE  /\ \A d \in Conns : Uses(g, d)' <=> Uses(g, d)
             /\ Unfinished(g)' <=> Unfinished(g)
             /\ Unfinished(g) => sess'[g].port = sess[g].port
  <2>1. CASE g = f
    BY <1>1, <1>2, <2>1 DEF Uses, Unfinished
  <2>2. CASE g # f
    <3>1. sess'[g] = sess[g]
      BY <1>2, <2>2
    <3> QED
      BY <3>1 DEF Uses, Unfinished
  <2> QED
    BY <2>1, <2>2
<1>7. ConnectionExclusive'
  <2>1. \A d \in Conns : LeftAlone(d)
    BY <1>1, <1>6 DEF LeftAlone
  <2> QED
    BY <2>1, ExclusiveKept
<1>8. OrderlyUntilStopped'
  <2>1. \A p \in Ports \ stopped : busy[p] => pendingBE[p] = NoConn
    BY DEF RelayInv, OrderlyUntilStopped
  <2> QED
    BY <1>1, <1>6, <2>1, OrderlyKept
<1> QED
  BY <1>3, <1>4, <1>5, <1>7, <1>8 DEF RelayInv

LEMMA PeerLeavesStep ==
    ASSUME RelayInv, NEW c \in Conns, PeerLeaves(c)
    PROVE  RelayInv'
<1>1. /\ conn[c] = "pending" /\ conn' = Moved({c}, "gone")
      /\ UNCHANGED <<listener, loop, pendingBE, busy, sessions, sess, stopped>>
  BY DEF PeerLeaves
<1>2. /\ conn' \in [Conns -> {"free", "hello", "pending", "gone", "session", "lost"}]
      /\ conn'[c] = "gone" /\ \A d \in Conns : d # c => conn'[d] = conn[d]
  BY <1>1, MovedTyped DEF RelayInv
<1>3. RelayTypeOK'
  BY <1>1, <1>2 DEF RelayInv, RelayTypeOK
<1>4. LoopInv' /\ BackendInv' /\ OneLoopInv'
  BY <1>1 DEF RelayInv, LoopInv, BackendInv, OneLoopInv
<1>5. ConnectionExclusive'
  <2>1. \A d, f \in Conns : Uses(f, d)' <=> Uses(f, d)
    BY <1>1 DEF Uses
  <2>2. \A d \in Conns : d # c => LeftAlone(d)
    BY <1>1, <1>2, <2>1 DEF LeftAlone
  <2>3. Exclusive(c)
    BY DEF RelayInv, ConnectionExclusive, Exclusive
  <2>4. Exclusive(c)'
    BY <1>1, <1>2, <2>1, <2>3 DEF Exclusive
  <2> QED
    BY <2>2, <2>4, ExclusiveKept
<1>6. OrderlyUntilStopped'
  <2>1. \A p \in Ports \ stopped : busy[p] => pendingBE[p] = NoConn
    BY DEF RelayInv, OrderlyUntilStopped
  <2> QED
    BY <1>1, <1>2, <2>1, OrderlyKept DEF Unfinished
<1> QED
  BY <1>3, <1>4, <1>5, <1>6 DEF RelayInv

LEMMA DropPendingStep ==
    ASSUME RelayInv, NEW dead \in SUBSET Ports, DropPending(dead)
    PROVE  RelayInv'
<1>0. PICK C : C = {pendingBE[p] : p \in dead}
  OBVIOUS
<1>1. /\ pendingBE' = [p \in Ports |-> IF p \in dead THEN NoConn ELSE pendingBE[p]]
      /\ conn' = Moved(C, "free")
      /\ UNCHANGED <<listener, loop, busy, sessions, sess, stopped>>
  BY <1>0 DEF DropPending, Closed
<1>2. /\ conn' \in [Conns -> {"free", "hello", "pending", "gone", "session", "lost"}]
      /\ \A d \in Conns : conn'[d] = IF d \in C THEN "free" ELSE conn[d]
  BY <1>1, MovedTyped DEF RelayInv
<1>3. RelayTypeOK'
  BY <1>1, <1>2 DEF RelayInv, RelayTypeOK
<1>4. \A d \in Conns : d \in C <=> Released({}, {}, dead, d)
  BY <1>0 DEF Released
<1>5. Ends({}, {}, dead)
  BY <1>1, <1>2, <1>4 DEF Ends
<1> QED
  BY <1>1, <1>3, <1>5, EndStep

LEMMA StopPortStep ==
    ASSUME RelayInv, NEW p \in Ports, StopPort(p)
    PROVE  RelayInv'
<1> DEFINE live == sessions[p] # NoConn /\ sess[sessions[p]].st = "run"
<1>1. PICK keep \in BOOLEAN :
          /\ keep => live
          /\ sess' = IF live THEN [sess EXCEPT ![sessions[p]].st = "stop", ![sessions[p]].keep = keep] ELSE sess
          /\ conn' = Closed(  {pendingBE[p]} \cup (IF live THEN {sessions[p]} ELSE {})
                         \cup (IF live /\ ~keep THEN {sess[sessions[p]].be} ELSE {}))
  BY DEF StopPort
<1>2. /\ listener' = [listener EXCEPT ![p] = NoLoop] /\ busy' = [busy EXCEPT ![p] = FALSE]
      /\ sessions' = [sessions EXCEPT ![p] = NoConn]
      /\ pendingBE' = [pendingBE EXCEPT ![p] = NoConn]
      /\ stopped' = stopped \cup {p} /\ loop' = loop
  BY DEF StopPort, StopListening, StopBusy
<1>3. /\ \A q \in Ports : pendingBE'[q] = IF q \in {p} THEN NoConn ELSE pendingBE[q]
      /\ \A q \in Ports \ stopped' : busy'[q] = busy[q] /\ listener'[q] = listener[q]
  BY <1>2 DEF RelayInv, RelayTypeOK
<1>4. ASSUME conn' \in [Conns -> {"free", "hello", "pending", "gone", "session", "lost"}],
             sess' \in [Conns -> SessRec \cup {NoSession}]
      PROVE  RelayTypeOK'
  BY <1>2, <1>4 DEF RelayInv, RelayTypeOK, SessRec
<1>5. CASE live
  <2>0. PICK f \in Conns : f = sessions[p]
    BY <1>5 DEF RelayInv, RelayTypeOK
  <2>1. PICK C, kept : /\ C = {pendingBE[p], f} \cup (IF ~keep THEN {sess[f].be} ELSE {})
                       /\ kept = IF keep THEN {f} ELSE {}
    OBVIOUS
  <2>2. /\ sess[f].st = "run" /\ sess' = [sess EXCEPT ![f].st = "stop", ![f].keep = keep]
        /\ conn' = Moved(C, "free")
    BY <1>1, <1>5, <2>0, <2>1 DEF Closed, Moved
  <2>3. /\ sess' \in [Conns -> SessRec \cup {NoSession}]
        /\ \A g \in Conns : g \notin {f} => sess'[g] = sess[g]
        /\ sess'[f].st = "stop" /\ sess'[f].keep = keep
        /\ sess'[f].be = sess[f].be /\ sess'[f].port = sess[f].port
    BY <2>2, OneEnds DEF RelayInv
  <2>4. /\ conn' \in [Conns -> {"free", "hello", "pending", "gone", "session", "lost"}]
        /\ \A d \in Conns : conn'[d] = IF d \in C THEN "free" ELSE conn[d]
    BY <2>2, MovedTyped DEF RelayInv
  <2>5. \A d \in Conns : d \in C <=> Released({f}, kept, {p}, d)
    BY <2>1 DEF Released
  <2>6. \A g \in {f} : /\ sess[g].st = "run" /\ sess'[g].st = "stop" /\ (sess'[g].keep <=> g \in kept)
                       /\ sess'[g].be = sess[g].be /\ sess'[g].port = sess[g].port
    BY <2>1, <2>2, <2>3
  <2>7. \A d \in Conns : conn'[d] = IF Released({f}, kept, {p}, d) THEN "free" ELSE conn[d]
    BY <2>4, <2>5
  <2>8. Ends({f}, kept, {p})
    BY <1>2, <1>3, <2>3, <2>6, <2>7 DEF Ends
  <2> QED
    BY <1>2, <1>3, <1>4, <2>3, <2>4, <2>8, EndStep
<1>6. CASE ~live
  <2>1. PICK C : C = {pendingBE[p]}
    OBVIOUS
  <2>2. sess' = sess /\ conn' = Moved(C, "free")
    BY <1>1, <1>6, <2>1 DEF Closed, Moved
  <2>3. /\ conn' \in [Conns -> {"free", "hello", "pending", "gone", "session", "lost"}]
        /\ \A d \in Conns : conn'[d] = IF d \in C THEN "free" ELSE conn[d]
    BY <2>2, MovedTyped DEF RelayInv
  <2>4. \A d \in Conns : d \in C <=> Released({}, {}, {p}, d)
    BY <2>1 DEF Released
  <2>5. \A d \in Conns : conn'[d] = IF Released({}, {}, {p}, d) THEN "free" ELSE conn[d]
    BY <2>3, <2>4
  <2>6. Ends({}, {}, {p})
    BY <1>2, <1>3, <2>2, <2>5 DEF Ends
  <2>7. sess' \in [Conns -> SessRec \cup {NoSession}]
    BY <2>2 DEF RelayInv, RelayTypeOK, SessRec
  <2> QED
    BY <1>2, <1>3, <1>4, <2>3, <2>6, <2>7, EndStep
<1> QED
  BY <1>5, <1>6

LEMMA HelloStep ==
    ASSUME RelayInv, NEW l \in Loops, NEW role \in HelloRoles, Hello(l, role)
    PROVE  RelayInv'
<1>1. loop[l].st = "hello"
  BY DEF Hello
<1>2. CASE ~busy[loop[l].port] /\ Fits(loop[l].port, role) /\ Place(l, role)
  BY <1>1, <1>2, PendBEStep, PairStep DEF Fits, Place
<1>3. CASE TurnAway(l)
  BY <1>1, <1>3, TurnAwayStep
<1> QED
  BY <1>2, <1>3 DEF Hello

\* onStop takes the session off its port and lets a kept backend wait again.
LEMMA OnStopStep ==
    ASSUME RelayInv, NEW f \in Conns, OnStop(f)
    PROVE  RelayInv'
<1>0. sess[f].st = "stop" /\ sess[f] \in SessRec
  BY SessTyped DEF OnStop, RelayInv
<1>1. PICK p \in Ports, be \in Conns, keep \in BOOLEAN :
          p = sess[f].port /\ be = sess[f].be /\ keep = sess[f].keep
  BY <1>0 DEF SessRec
<1>2. PICK rep \in BOOLEAN : rep <=> keep /\ pendingBE[p] = NoConn
  OBVIOUS
<1> DEFINE new == [sess[f] EXCEPT !.st = "hook"]
<1>3. /\ sessions' = [sessions EXCEPT ![p] = IF @ = f THEN NoConn ELSE @]
      /\ busy' = [busy EXCEPT ![p] = FALSE]
      /\ pendingBE' = [pendingBE EXCEPT ![p] = IF rep THEN be ELSE @]
      /\ conn' = IF rep THEN Moved({be}, "pending") ELSE IF keep THEN Moved({be}, "lost") ELSE conn
      /\ sess' = [sess EXCEPT ![f] = new]
      /\ UNCHANGED <<listener, loop, stopped>>
  BY <1>1, <1>2 DEF OnStop, FreePort, Repend
<1>4. new \in SessRec /\ new.st = "hook" /\ new.be = be /\ new.port = p
  BY <1>0, <1>1 DEF SessRec
<1> HIDE DEF new
<1>5. /\ sess' \in [Conns -> SessRec \cup {NoSession}]
      /\ sess'[f] = new /\ \A g \in Conns : g # f => sess'[g] = sess[g]
  BY <1>3, <1>4 DEF RelayInv, RelayTypeOK, SessRec
<1>6. /\ pendingBE' \in [Ports -> Conns \cup {NoConn}]
      /\ pendingBE'[p] = IF rep THEN be ELSE pendingBE[p]
      /\ \A q \in Ports : q # p => pendingBE'[q] = pendingBE[q]
      /\ busy' \in [Ports -> BOOLEAN]
      /\ busy'[p] = FALSE /\ \A q \in Ports : q # p => busy'[q] = busy[q]
      /\ sessions' \in [Ports -> Conns \cup {NoConn}]
  BY <1>3 DEF RelayInv, RelayTypeOK
<1>7. /\ conn' \in [Conns -> {"free", "hello", "pending", "gone", "session", "lost"}]
      /\ conn'[be] = IF rep THEN "pending" ELSE IF keep THEN "lost" ELSE conn[be]
      /\ \A d \in Conns : d # be => conn'[d] = conn[d]
  BY <1>3 DEF RelayInv, RelayTypeOK, Moved
<1>8. RelayTypeOK'
  BY <1>3, <1>5, <1>6, <1>7 DEF RelayInv, RelayTypeOK, SessRec
<1>9. LoopInv'
  <2>1. \A l \in Loops : loop[l].conn # NoConn => loop[l].conn \in Conns /\ loop[l].conn # f
    BY <1>0, LoopTyped DEF RelayInv, LoopInv, LoopRec
  <2> QED
    BY <1>3, <1>5, <2>1 DEF RelayInv, LoopInv
<1>10. BackendInv'
  BY <1>0, <1>1, <1>4, <1>5 DEF RelayInv, BackendInv
<1>11. OneLoopInv'
  BY <1>3, <1>6 DEF RelayInv, OneLoopInv
<1>12. /\ \A d \in Conns : ~Uses(f, d)' /\ (Uses(f, d) <=> keep /\ d = be)
       /\ \A g, d \in Conns : g # f => (Uses(g, d)' <=> Uses(g, d))
  <2>1. \A d \in Conns : ~Uses(f, d)' /\ (Uses(f, d) <=> keep /\ d = be)
    BY <1>0, <1>1, <1>4, <1>5 DEF Uses
  <2>2. ASSUME NEW g \in Conns, NEW d \in Conns, g # f
        PROVE  Uses(g, d)' <=> Uses(g, d)
    <3>1. sess'[g] = sess[g]
      BY <1>5, <2>2
    <3> QED
      BY <3>1 DEF Uses
  <2> QED
    BY <2>1, <2>2
<1>13. ConnectionExclusive'
  <2>1. ASSUME NEW d \in Conns, d # be \/ ~keep
        PROVE  LeftAlone(d)
    <3>1. \A g \in Conns : Uses(g, d)' <=> Uses(g, d)
      BY <1>12, <2>1
    <3>2. \A q \in Ports : pendingBE'[q] = d <=> pendingBE[q] = d
      BY <1>2, <1>6, <2>1, SlotAssumption
    <3>3. conn'[d] = conn[d]
      BY <1>2, <1>7, <2>1
    <3> QED
      BY <1>3, <3>1, <3>2, <3>3 DEF LeftAlone
  <2>2. ASSUME keep
        PROVE  Exclusive(be)'
    <3>1. Exclusive(be)
      BY DEF RelayInv, ConnectionExclusive, Exclusive
    <3>2. Uses(f, be) /\ conn[be] = "session"
      BY <1>12, <2>2, <3>1 DEF Exclusive
    <3>3. /\ \A g \in Conns : g # f => ~Uses(g, be)
          /\ \A q \in Ports : pendingBE[q] # be
          /\ \A l \in Loops : loop[l].conn # be
      BY <3>1, <3>2 DEF Exclusive
    <3>4. \A g \in Conns : ~Uses(g, be)'
      BY <1>12, <3>3
    <3>5. \A q \in Ports : pendingBE'[q] = be <=> rep /\ q = p
      BY <1>6, <3>3
    <3>6. conn'[be] = IF rep THEN "pending" ELSE "lost"
      BY <1>7, <2>2
    <3> QED
      BY <1>3, <3>3, <3>4, <3>5, <3>6 DEF Exclusive
  <2> QED
    BY <2>1, <2>2, ExclusiveKept
<1>14. OrderlyUntilStopped'
  <2>1. /\ ~Unfinished(f)' /\ Unfinished(f) /\ sess[f].port = p
        /\ \A g \in Conns : g # f => (Unfinished(g)' <=> Unfinished(g)) /\ sess'[g] = sess[g]
    BY <1>0, <1>1, <1>4, <1>5 DEF Unfinished
  <2>2. p \notin stopped => /\ \A g \in Conns : Unfinished(g) /\ sess[g].port = p => g = f
                            /\ busy[p] /\ pendingBE[p] = NoConn
    <3> HAVE p \notin stopped
    <3>1. /\ \A g, h \in Conns : /\ Unfinished(g) /\ Unfinished(h)
                                 /\ sess[g].port = p /\ sess[h].port = p
                                 => g = h
          /\ busy[p] <=> \E g \in Conns : Unfinished(g) /\ sess[g].port = p
          /\ busy[p] => pendingBE[p] = NoConn
      BY DEF RelayInv, OrderlyUntilStopped
    <3> QED
      BY <2>1, <3>1
  <2> SUFFICES ASSUME NEW q \in Ports \ stopped'
               PROVE  (/\ \A g, h \in Conns : /\ Unfinished(g) /\ Unfinished(h)
                                              /\ sess[g].port = q /\ sess[h].port = q
                                              => g = h
                       /\ busy[q] <=> \E g \in Conns : Unfinished(g) /\ sess[g].port = q
                       /\ busy[q] => pendingBE[q] = NoConn
                       /\ stopped = {} => \A d \in Conns : conn[d] # "lost")'
    BY DEF OrderlyUntilStopped
  <2>3. /\ q \in Ports \ stopped
        /\ \A g, h \in Conns : /\ Unfinished(g) /\ Unfinished(h)
                               /\ sess[g].port = q /\ sess[h].port = q
                               => g = h
        /\ busy[q] <=> \E g \in Conns : Unfinished(g) /\ sess[g].port = q
        /\ busy[q] => pendingBE[q] = NoConn
        /\ stopped = {} => \A d \in Conns : conn[d] # "lost"
    BY <1>3 DEF RelayInv, OrderlyUntilStopped
  <2>4. (\A g, h \in Conns : Unfinished(g) /\ Unfinished(h) /\ sess[g].port = q /\ sess[h].port = q => g = h)'
    BY <2>1, <2>3
  <2>5. (busy[q] <=> \E g \in Conns : Unfinished(g) /\ sess[g].port = q)'
    <3>1. CASE q = p
      BY <1>6, <2>1, <2>2, <2>3, <3>1
    <3>2. CASE q # p
      <4>1. \A g \in Conns : (Unfinished(g) /\ sess[g].port = q)' <=> Unfinished(g) /\ sess[g].port = q
        BY <2>1, <3>2
      <4> QED
        BY <1>6, <2>3, <3>2, <4>1
    <3> QED
      BY <3>1, <3>2
  <2>6. (busy[q] => pendingBE[q] = NoConn)'
    <3>1. CASE q = p
      BY <1>6, <3>1
    <3>2. CASE q # p
      BY <1>6, <2>3, <3>2
    <3> QED
      BY <3>1, <3>2
  <2>7. (stopped = {} => \A d \in Conns : conn[d] # "lost")'
    <3> SUFFICES ASSUME stopped' = {}
                 PROVE  \A d \in Conns : conn'[d] # "lost"
      OBVIOUS
    <3>1. p \notin stopped /\ \A d \in Conns : conn[d] # "lost"
      BY <1>3, <2>3
    <3>2. keep => rep
      BY <1>2, <2>2, <3>1
    <3> QED
      BY <1>7, <3>1, <3>2
  <2> QED
    BY <2>4, <2>5, <2>6, <2>7
<1> QED
  BY <1>8, <1>9, <1>10, <1>11, <1>13, <1>14 DEF RelayInv

LEMMA RelayStepKeeps ==
    ASSUME RelayInv, RelayStep
    PROVE  RelayInv'
<1>1. ASSUME NEW l \in Loops, NEW c \in Conns, Accept(l, c)
      PROVE  RelayInv'
  BY <1>1, AcceptStep
<1>2. ASSUME NEW l \in Loops, AcceptFails(l) \/ BusyCheck(l) \/ Reported(l)
      PROVE  RelayInv'
  BY <1>2, AcceptFailsStep, BusyCheckStep
<1>3. ASSUME NEW l \in Loops, NEW role \in HelloRoles, Hello(l, role)
      PROVE  RelayInv'
  BY <1>3, HelloStep
<1>4. ASSUME NEW f \in Conns, SessionStep(f)
      PROVE  RelayInv'
  BY <1>4, SessionStopsStep, OnStopStep, OnStopHooksStep DEF SessionStep
<1>5. ASSUME NEW f \in Conns, PeerLeaves(f)
      PROVE  RelayInv'
  BY <1>5, PeerLeavesStep
<1>6. ASSUME SnapshotPortState
      PROVE  RelayInv'
  BY <1>6, DropPendingStep DEF SnapshotPortState
<1> QED
  BY <1>1, <1>2, <1>3, <1>4, <1>5, <1>6 DEF RelayStep

-----------------------------------------------------------------------------
(* The reaper.                                                              *)

LEMMA ScheduleKillStep ==
    ASSUME RelayInv, ScheduleKill
    PROVE  RelayInv'
<1>1. PICK hit : hit = {f \in Conns : \E p \in Ports : /\ entry[p] = "none" /\ sessions[p] = f
                                                       /\ sess[f].st = "run"}
  OBVIOUS
<1>2. PICK kept \in SUBSET hit :
          /\ sess' = [f \in Conns |-> IF f \in hit THEN [sess[f] EXCEPT !.st = "stop", !.keep = f \in kept]
                                      ELSE sess[f]]
          /\ conn' = Closed(hit \cup {sess[f].be : f \in hit \ kept})
  BY <1>1 DEF ScheduleKill
<1>3. UNCHANGED <<listener, loop, pendingBE, busy, sessions, stopped>>
  BY DEF ScheduleKill
<1>4. hit \in SUBSET Conns /\ \A f \in hit : sess[f].st = "run"
  BY <1>1
<1>5. PICK C : C = hit \cup {sess[f].be : f \in hit \ kept}
  OBVIOUS
<1>6. /\ conn' \in [Conns -> {"free", "hello", "pending", "gone", "session", "lost"}]
      /\ \A d \in Conns : conn'[d] = IF d \in C THEN "free" ELSE conn[d]
  <2>1. conn' = Moved(C, "free")
    BY <1>2, <1>5, Zenon DEF Closed
  <2> QED
    BY <2>1, MovedTyped DEF RelayInv
<1>7. \A d \in Conns : d \in C <=> Released(hit, kept, {}, d)
  BY <1>5 DEF Released
<1>8. \A f \in Conns : f \notin hit => sess'[f] = sess[f]
  BY <1>2, Zenon
<1>9. ASSUME NEW f \in hit
      PROVE  /\ sess'[f] \in SessRec
             /\ sess'[f].st = "stop" /\ (sess'[f].keep <=> f \in kept)
             /\ sess'[f].be = sess[f].be /\ sess'[f].port = sess[f].port
  <2>1. f \in Conns /\ sess[f].st = "run" /\ (f \in kept) \in BOOLEAN
    BY <1>4
  <2>2. sess'[f] = [sess[f] EXCEPT !.st = "stop", !.keep = f \in kept]
    BY <1>2, <2>1, Zenon
  <2>3. PICK k \in BOOLEAN : k = (f \in kept)
    BY <2>1
  <2>4. sess'[f] = [sess[f] EXCEPT !.st = "stop", !.keep = k]
    BY <2>2, <2>3
  <2>5. RelayTypeOK
    BY DEF RelayInv
  <2>6. /\ sess'[f] \in SessRec /\ sess'[f].st = "stop" /\ sess'[f].keep = k
        /\ sess'[f].be = sess[f].be /\ sess'[f].port = sess[f].port
    <3>1. PICK new : new = [sess[f] EXCEPT !.st = "stop", !.keep = k]
      OBVIOUS
    <3>2. /\ new \in SessRec /\ new.st = "stop" /\ new.keep = k
          /\ new.be = sess[f].be /\ new.port = sess[f].port
      BY <2>1, <2>5, <3>1, StoppedRec
    <3> QED
      BY <2>4, <3>1, <3>2
  <2> QED
    BY <2>3, <2>6, Zenon
<1>10. RelayTypeOK'
  <2>1. \A f \in Conns : sess'[f] \in SessRec \cup {NoSession}
    <3> TAKE f \in Conns
    <3>1. sess[f] \in SessRec \cup {NoSession}
      BY DEF RelayInv, RelayTypeOK, SessRec
    <3>2. f \notin hit => sess'[f] = sess[f]
      BY <1>8
    <3> QED
      BY <1>9, <3>1, <3>2, Zenon
  <2>2. sess' = [f \in Conns |-> sess'[f]]
    BY <1>2, Zenon
  <2>3. sess' \in [Conns -> SessRec \cup {NoSession}]
    BY <2>1, <2>2, Zenon
  <2> QED
    BY <1>3, <1>6, <2>3 DEF RelayInv, RelayTypeOK, SessRec
<1>11. Ends(hit, kept, {})
  <2>1. \A d \in Conns : conn'[d] = IF Released(hit, kept, {}, d) THEN "free" ELSE conn[d]
    BY <1>6, <1>7
  <2>2. \A q \in Ports : pendingBE'[q] = IF q \in {} THEN NoConn ELSE pendingBE[q]
    BY <1>3
  <2> QED
    BY <1>3, <1>4, <1>8, <1>9, <2>1, <2>2 DEF Ends
<1> QED
  BY <1>3, <1>4, <1>10, <1>11, EndStep

CtlRec == [reg : BOOLEAN, alloc : BOOLEAN, todo : SUBSET Ports, st : {"idle", "start", "cancel"}]

\* No more kills are under way than timers were armed within the bound: a timer
\* becomes a goroutine, and a goroutine a call of StopPort.
KillInv ==
    /\ ctl \in [Backends -> CtlRec]
    /\ entry \in [Ports -> {"none", "armed", "fired"}]
    /\ stray \in [Ports -> Nat] /\ exec \in [Ports -> Nat] /\ kill \in [Ports -> Nat]
    /\ \A p \in Ports : stray[p] + exec[p] + kill[p] + (IF entry[p] = "armed" THEN 1 ELSE 0) =< KillBound

ReaperInv == RelayInv /\ KillInv

LEMMA InitReaperInv == Init => ReaperInv
<1> SUFFICES ASSUME Init
             PROVE  ReaperInv
  OBVIOUS
<1>1. RelayInv
  BY InitRelayInv DEF Init
<1>2. Offline \in CtlRec
  BY DEF Offline, CtlRec
<1>3. KillInv
  BY <1>2, KillAssumption DEF Init, KillInv
<1> QED
  BY <1>1, <1>3 DEF ReaperInv

LEMMA RelayInvUnchanged ==
    ASSUME RelayInv, UNCHANGED relayVars
    PROVE  RelayInv'
  BY DEF relayVars, RelayInv, RelayTypeOK, LoopInv, BackendInv, OneLoopInv,
         ConnectionExclusive, Uses, OrderlyUntilStopped, Unfinished

LEMMA KillInvUnchanged ==
    ASSUME KillInv, ctl' \in [Backends -> CtlRec], UNCHANGED <<entry, stray, exec, kill>>
    PROVE  KillInv'
  BY DEF KillInv

LEMMA TimerFiresStep ==
    ASSUME KillInv, NEW p \in Ports, TimerFires(p)
    PROVE  KillInv'
<1>1. CASE entry[p] = "armed" /\ entry' = [entry EXCEPT ![p] = "fired"] /\ UNCHANGED stray
  BY <1>1 DEF KillInv, TimerFires
<1>2. CASE stray[p] > 0 /\ stray' = [stray EXCEPT ![p] = @ - 1] /\ UNCHANGED entry
  BY <1>2 DEF KillInv, TimerFires
<1> QED
  BY <1>1, <1>2 DEF TimerFires

LEMMA ExecuteKillStep ==
    ASSUME KillInv, NEW p \in Ports, ExecuteKill(p)
    PROVE  KillInv'
  BY DEF KillInv, ExecuteKill

LEMMA ExecuteStopStep ==
    ASSUME KillInv, NEW p \in Ports, ExecuteStop(p)
    PROVE  KillInv'
<1>1. kill[p] > 0 /\ kill' = [kill EXCEPT ![p] = @ - 1] /\ UNCHANGED <<ctl, entry, stray, exec>>
  BY DEF ExecuteStop
<1>2. kill' \in [Ports -> Nat] /\ \A q \in Ports : kill'[q] =< kill[q]
  BY <1>1 DEF KillInv
<1>3. ASSUME NEW q \in Ports
      PROVE  (stray[q] + exec[q] + kill[q] + (IF entry[q] = "armed" THEN 1 ELSE 0) =< KillBound)'
  BY <1>1, <1>2, KillAssumption DEF KillInv
<1> QED
  BY <1>1, <1>2, <1>3 DEF KillInv

LEMMA CtlStep ==
    ASSUME KillInv, NEW b \in Backends,
           Register(b) \/ PortAlloc(b) \/ PortAllocSet(b) \/ PortAllocCancel(b) \/ Unregister(b)
             \/ \E p \in Ports : PortAllocStart(b, p)
    PROVE  KillInv'
<1>0. Offline \in CtlRec /\ ctl[b] \in CtlRec
  BY DEF Offline, CtlRec, KillInv
<1>1. CASE Register(b)
  <2>1. ctl' \in [Backends -> CtlRec]
    BY <1>1 DEF Register, KillInv, CtlRec
  <2> QED
    BY <1>1, <2>1, KillInvUnchanged DEF Register
<1>2. CASE PortAlloc(b)
  <2>1. ctl' \in [Backends -> CtlRec]
    BY <1>2, ZenonT(60) DEF PortAlloc, KillInv, CtlRec
  <2> QED
    BY <1>2, <2>1, KillInvUnchanged DEF PortAlloc
<1>3. ASSUME NEW p \in Ports, PortAllocStart(b, p)
      PROVE  KillInv'
  <2>1. ctl' \in [Backends -> CtlRec]
    BY <1>3 DEF PortAllocStart, KillInv, CtlRec
  <2> QED
    BY <1>3, <2>1, KillInvUnchanged DEF PortAllocStart
<1>4. CASE PortAllocCancel(b)
  <2>1. ctl' \in [Backends -> CtlRec]
    BY <1>0, <1>4 DEF PortAllocCancel, KillInv, CtlRec
  <2>2. \A p \in Ports : stray[p] + exec[p] + kill[p] =< KillBound
    BY KillAssumption DEF KillInv
  <2> QED
    BY <1>4, <2>1, <2>2 DEF PortAllocCancel, CancelKill, KillInv
<1>5. CASE Unregister(b)
  <2>1. ctl' \in [Backends -> CtlRec]
    BY <1>0, <1>5 DEF Unregister, KillInv, CtlRec
  <2>2. CASE ~ctl[b].alloc
    BY <1>5, <2>1, <2>2, KillInvUnchanged DEF Unregister
  <2>3. CASE ctl[b].alloc
    <3>1. /\ Bounded /\ entry' = [p \in Ports |-> IF entry[p] = "none" THEN "armed" ELSE entry[p]]
          /\ UNCHANGED <<stray, exec, kill>>
      BY <1>5, <2>3 DEF Unregister, ScheduleKill
    <3>2. ASSUME NEW p \in Ports
          PROVE  (stray[p] + exec[p] + kill[p] + (IF entry[p] = "armed" THEN 1 ELSE 0) =< KillBound)'
      BY <3>1, KillAssumption DEF Bounded, KillInv
    <3> QED
      BY <2>1, <3>1, <3>2 DEF KillInv
  <2> QED
    BY <2>2, <2>3
<1>6. CASE PortAllocSet(b)
  <2>1. ctl' \in [Backends -> CtlRec]
    BY <1>0, <1>6 DEF PortAllocSet, KillInv, CtlRec
  <2> QED
    BY <1>6, <2>1, KillInvUnchanged DEF PortAllocSet
<1> QED
  BY <1>1, <1>2, <1>3, <1>4, <1>5, <1>6

LEMMA ReaperStep ==
    ASSUME ReaperInv, [Next]_vars
    PROVE  ReaperInv'
<1> USE DEF ReaperInv
<1>1. CASE RelayStep /\ UNCHANGED reapVars
  BY <1>1, RelayStepKeeps, KillInvUnchanged DEF reapVars, KillInv
<1>2. ASSUME NEW p \in Ports, TimerFires(p)
      PROVE  ReaperInv'
  BY <1>2, TimerFiresStep, RelayInvUnchanged DEF TimerFires
<1>3. ASSUME NEW p \in Ports, ExecuteKill(p)
      PROVE  ReaperInv'
  BY <1>3, ExecuteKillStep, RelayInvUnchanged DEF ExecuteKill
<1>4. ASSUME NEW p \in Ports, ExecuteStop(p)
      PROVE  ReaperInv'
  BY <1>4, ExecuteStopStep, StopPortStep DEF ExecuteStop
<1>5. ASSUME NEW b \in Backends, Register(b) \/ PortAlloc(b) \/ PortAllocSet(b) \/ PortAllocCancel(b)
      PROVE  ReaperInv'
  BY <1>5, CtlStep, RelayInvUnchanged DEF Register, PortAlloc, PortAllocSet, PortAllocCancel
<1>6. ASSUME NEW b \in Backends, Unregister(b)
      PROVE  ReaperInv'
  <2>1. ScheduleKill \/ UNCHANGED relayVars
    BY <1>6 DEF Unregister
  <2> QED
    BY <1>6, <2>1, CtlStep, ScheduleKillStep, RelayInvUnchanged
<1>7. ASSUME NEW b \in Backends, NEW p \in Ports, PortAllocStart(b, p)
      PROVE  ReaperInv'
  BY <1>7, CtlStep, StartStep DEF PortAllocStart
<1>8. CASE UNCHANGED vars
  BY <1>8, RelayInvUnchanged, KillInvUnchanged DEF vars, relayVars, KillInv
<1> QED
  BY <1>1, <1>2, <1>3, <1>4, <1>5, <1>6, <1>7, <1>8 DEF Next

LEMMA ReaperInvariant == Spec => []ReaperInv
<1>1. Init => ReaperInv
  BY InitReaperInv
<1>2. ReaperInv /\ [Next]_vars => ReaperInv'
  BY ReaperStep
<1> QED
  BY <1>1, <1>2, PTL DEF Spec

\* The state of V1's server, of the backends' control connections and of the
\* reaper keeps its type.  The number of kills under way stays within the bound
\* the model sets when a backend leaves, whatever timers do afterwards.
THEOREM RelayTypeCorrect == Spec => []TypeOK
<1>1. ReaperInv => TypeOK
  <2> SUFFICES ASSUME ReaperInv
               PROVE  TypeOK
    OBVIOUS
  <2>1. \A p \in Ports : stray[p] \in 0 .. KillBound /\ exec[p] \in 0 .. KillBound /\ kill[p] \in 0 .. KillBound
    BY KillAssumption DEF ReaperInv, KillInv
  <2> QED
    BY <2>1 DEF ReaperInv, RelayInv, KillInv, TypeOK, CtlRec
<1> QED
  BY <1>1, ReaperInvariant, PTL

\* A connection of V1's relay server waits on one port, belongs to one session
\* or is with one accept loop, and two sessions never share a backend: through
\* every reuse of a kept backend, every StopPort under a session, and accept
\* loops of a closed listener that go on beside the new one.
THEOREM OnePlacePerConnection == Spec => []ConnectionExclusive
<1>1. ReaperInv => ConnectionExclusive
  BY DEF ReaperInv, RelayInv
<1> QED
  BY <1>1, ReaperInvariant, PTL

\* As long as StopPort was never called for a port, the port has one session
\* that has not come to its onStop, is busy exactly while it has one and has no
\* backend waiting meanwhile; and no kept backend is lost before any StopPort.
THEOREM OrderlyPorts == Spec => []OrderlyUntilStopped
<1>1. ReaperInv => OrderlyUntilStopped
  BY DEF ReaperInv, RelayInv
<1> QED
  BY <1>1, ReaperInvariant, PTL

-----------------------------------------------------------------------------
(* V2's server, for any split of its ports.  Its operations are V1's but for   *)
(* the two sections of the accept loop.                                        *)
CONSTANTS SRTPorts, Open

V2 == INSTANCE RelayServerV2

LEMMA V2Init == V2!InitRelay => InitRelay
  BY DEF V2!InitRelay, InitRelay, V2!Accepting, Accepting, V2!Free, Free, V2!NoSession, NoSession

\* The first section settles the role and changes nothing else.
LEMMA HelloV2Step ==
    ASSUME RelayInv, NEW l \in Loops, NEW role \in HelloRoles, V2!HelloV2(l, role)
    PROVE  RelayInv'
<1>1. loop[l].st = "hello"
  BY DEF V2!HelloV2
<1>2. CASE V2!TurnAway(l)
  <2>1. TurnAway(l)
    BY <1>2 DEF V2!TurnAway, TurnAway, V2!Moved, Moved, V2!Closed, Closed, V2!Accepting, Accepting
  <2> QED
    BY <1>1, <2>1, TurnAwayStep
<1>3. ASSUME ~V2!TurnAway(l)
      PROVE  RelayInv'
  <2>1. PICK r \in HelloRoles :
            /\ ~busy[loop[l].port]
            /\ loop' = [loop EXCEPT ![l].st = "role", ![l].role = r]
            /\ UNCHANGED <<listener, conn, pendingBE, busy, sessions, sess, stopped>>
    BY <1>3 DEF V2!HelloV2, V2!GuessRole, HelloRoles
  <2> DEFINE new == [loop[l] EXCEPT !.st = "role", !.role = r]
  <2>2. loop' = [loop EXCEPT ![l] = new]
    BY <2>1
  <2>3. new \in LoopRec /\ new.st = "role" /\ new.conn = loop[l].conn /\ new.port = loop[l].port
    BY LoopTyped DEF RelayInv, LoopRec
  <2> HIDE DEF new
  <2>4. /\ loop' \in [Loops -> LoopRec]
        /\ loop'[l] = new /\ \A m \in Loops : m # l => loop'[m] = loop[m]
    BY <2>2, <2>3 DEF RelayInv, RelayTypeOK, LoopRec
  <2>5. OneLoopInv'
    BY <2>1, <2>3, <2>4 DEF RelayInv, OneLoopInv
  <2>6. ASSUME NEW m \in Loops
        PROVE  /\ loop'[m].conn = loop[m].conn
               /\ loop'[m].st # "free" => loop'[m].port \in Ports
               /\ loop'[m].st \in {"check", "hello", "role"} <=> loop[m].st \in {"check", "hello", "role"}
    <3>1. CASE m = l
      BY <1>1, <2>3, <2>4, <3>1, LoopConn
    <3>2. CASE m # l
      BY <2>4, <3>2 DEF RelayInv, LoopInv
    <3> QED
      BY <3>1, <3>2
  <2> QED
    BY <2>1, <2>4, <2>5, <2>6, LoopOnlyStep DEF RelayInv, RelayTypeOK
<1> QED
  BY <1>2, <1>3

\* The second section does not look at busy again; the port is busy by then only
\* if another accept loop serves it too, and so only if it was stopped.
LEMMA PlaceV2Step ==
    ASSUME RelayInv, NEW l \in Loops, V2!PlaceV2(l)
    PROVE  RelayInv'
<1>1. loop[l].st = "role" /\ loop[l].port \in Ports
  BY LoopConn DEF V2!PlaceV2
<1>2. loop[l].port \notin stopped => ~busy[loop[l].port]
  BY <1>1 DEF RelayInv, OneLoopInv
<1>3. \/ TurnAway(l)
      \/ pendingBE[loop[l].port] = NoConn /\ PendBE(l)
      \/ pendingBE[loop[l].port] # NoConn /\ Pair(l)
  <2>1. /\ V2!TurnAway(l) => TurnAway(l)
        /\ V2!PendBE(l) => PendBE(l)
        /\ V2!Pair(l) => Pair(l)
    BY DEF V2!TurnAway, TurnAway, V2!Moved, Moved, V2!Closed, Closed, V2!Accepting, Accepting,
           V2!PendBE, PendBE, V2!Pair, Pair, V2!Reporting, Reporting
  <2> QED
    BY <2>1 DEF V2!PlaceV2, V2!Fits, V2!Place
<1> QED
  BY <1>1, <1>2, <1>3, TurnAwayStep, PendBEStep, PairStep

LEMMA V2Step ==
    ASSUME RelayInv, [V2!Next]_(V2!relayVars)
    PROVE  RelayInv'
<1>1. ASSUME NEW p \in Ports, V2!StartRelayPortV2(p)
      PROVE  RelayInv'
  <2>1. StartRelayPort(p)
    BY <1>1 DEF V2!StartRelayPortV2, V2!StartRelayPort, StartRelayPort, V2!Unused, Unused, V2!Free, Free, V2!Accepting, Accepting
  <2> QED
    BY <2>1, StartStep
<1>2. ASSUME NEW p \in Ports, V2!StopPortV2(p)
      PROVE  RelayInv'
  <2>1. StopPort(p)
    BY <1>2 DEF V2!StopPortV2, V2!StopPort, StopPort, V2!StopListening, StopListening,
                V2!StopBusy, StopBusy, V2!Closed, Closed, V2!Moved, Moved
  <2> QED
    BY <2>1, StopPortStep
<1>3. ASSUME NEW l \in Loops, NEW c \in Conns, V2!Accept(l, c)
      PROVE  RelayInv'
  <2>1. Accept(l, c)
    BY <1>3 DEF V2!Accept, Accept, V2!Moved, Moved, V2!NoSession, NoSession
  <2> QED
    BY <2>1, AcceptStep
<1>4. ASSUME NEW l \in Loops, V2!AcceptFails(l) \/ V2!BusyCheck(l) \/ V2!Reported(l)
      PROVE  RelayInv'
  <2>1. V2!BusyCheck(l) => BusyCheck(l)
    BY DEF V2!BusyCheck, BusyCheck, V2!TurnAway, TurnAway, V2!Moved, Moved, V2!Closed, Closed,
           V2!Accepting, Accepting
  <2>2. AcceptFails(l) \/ BusyCheck(l) \/ Reported(l)
    BY <1>4, <2>1 DEF V2!AcceptFails, AcceptFails, V2!Reported, Reported, V2!Free, Free, V2!Accepting, Accepting
  <2> QED
    BY <2>2, AcceptFailsStep, BusyCheckStep
<1>5. ASSUME NEW f \in Conns, V2!SessionV2(f)
      PROVE  RelayInv'
  <2>1. \/ \E keep \in BOOLEAN : SessionStops(f, keep)
        \/ OnStop(f) \/ OnStopHooks(f)
    BY <1>5 DEF V2!SessionV2, V2!SessionStep, V2!SessionStops, SessionStops, V2!Ended, Ended,
                V2!OnStop, OnStop, V2!OnStopHooks, OnStopHooks, V2!FreePort, FreePort, V2!Repend, Repend,
                V2!Closed, Closed, V2!Moved, Moved, V2!NoSession, NoSession
  <2> QED
    BY <2>1, SessionStopsStep, OnStopStep, OnStopHooksStep
<1>6. ASSUME NEW f \in Conns, V2!PeerLeaves(f)
      PROVE  RelayInv'
  <2>1. PeerLeaves(f)
    BY <1>6 DEF V2!PeerLeaves, PeerLeaves, V2!Moved, Moved
  <2> QED
    BY <2>1, PeerLeavesStep
<1>7. ASSUME V2!SnapshotPortStateV2
      PROVE  RelayInv'
  <2>1. \E dead \in SUBSET Ports : DropPending(dead)
    BY <1>7 DEF V2!SnapshotPortStateV2, V2!DropPending, DropPending, V2!Closed, Closed, V2!Moved, Moved
  <2> QED
    BY <2>1, DropPendingStep
<1>8. CASE UNCHANGED V2!relayVars
  BY <1>8, RelayInvUnchanged DEF V2!relayVars, relayVars
<1>9. ASSUME NEW l \in Loops, NEW role \in HelloRoles, V2!HelloV2(l, role)
      PROVE  RelayInv'
  BY <1>9, HelloV2Step
<1>10. ASSUME NEW l \in Loops, V2!PlaceV2(l)
       PROVE  RelayInv'
  BY <1>10, PlaceV2Step
<1> QED
  BY <1>1, <1>2, <1>3, <1>4, <1>5, <1>6, <1>7, <1>8, <1>9, <1>10 DEF V2!Next, V2!HelloRoles, HelloRoles

\* The same of V2's server, although its accept loop lets go of s.mu between the
\* look at busy and the placing, and does not look again.
THEOREM OnePlacePerConnectionV2 == V2!Spec => [](ConnectionExclusive /\ OrderlyUntilStopped)
<1>1. V2!InitRelay => RelayInv
  BY V2Init, InitRelayInv
<1>2. RelayInv /\ [V2!Next]_(V2!relayVars) => RelayInv'
  BY V2Step
<1>3. RelayInv => ConnectionExclusive /\ OrderlyUntilStopped
  BY DEF RelayInv
<1> QED
  BY <1>1, <1>2, <1>3, PTL DEF V2!Spec

=============================================================================
