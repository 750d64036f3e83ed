------------------------------ MODULE PortSlot ------------------------------
(***************************************************************************)
(* One portSlot of v3/relay/server.go: a port that relays TCP between a    *)
(* frontend and a backend, whichever comes first, and UDP between the      *)
(* first two addresses that send to it.  Slots share nothing but s.mu.     *)
(*                                                                         *)
(* The accept loop reads the hello without s.mu, looks at the slot once to *)
(* settle the role, lets go, and looks again to place the connection;      *)
(* ResetPort, for a released lease, and the onStop of a session come in    *)
(* between.  A session is named by its frontend connection.  StopPort is   *)
(* called by nobody in V3.                                                 *)
(***************************************************************************)
EXTENDS Naturals, FiniteSets

CONSTANTS
    Conns,      \* TCP connections: slots used again when free
    Addrs,      \* UDP addresses
    None

ASSUME NoneAssumption == None \notin Conns \cup Addrs

VARIABLES
    loop,           \* the accept loop: [st, conn, role]
    conn,           \* connection -> "free", "loop", "pending", "session" or "lost"
    gone,           \* connection -> "", "eof" or "reset": how its far end left
    pendingBE, pendingFE,
    tcpBusy, tcpSession,
    sess,           \* frontend connection -> [be, st, keep]
    udpA, udpB,
    idle,           \* the addresses whose last datagram is older than the time-out
    udp,            \* the datagram of the UDP loop between unlock and write: [src, dst, old]
    resets          \* history: a ResetPort came while a session was ending

tcp == <<loop, conn, gone, pendingBE, pendingFE, tcpBusy, tcpSession, sess, resets>>
udps == <<udpA, udpB, idle, udp>>
vars == <<loop, conn, gone, pendingBE, pendingFE, tcpBusy, tcpSession, sess, resets,
          udpA, udpB, idle, udp>>

NoSession == [be |-> None, st |-> "none", keep |-> FALSE]
Accepting == [st |-> "accept", conn |-> None, role |-> ""]
NoDatagram == [src |-> None, dst |-> None, old |-> FALSE]

\* StartRelayPort.
Init ==
    /\ loop = Accepting
    /\ conn = [c \in Conns |-> "free"]
    /\ gone = [c \in Conns |-> ""]
    /\ pendingBE = None /\ pendingFE = None
    /\ tcpBusy = FALSE /\ tcpSession = None
    /\ sess = [c \in Conns |-> NoSession]
    /\ udpA = None /\ udpB = None /\ idle = {} /\ udp = NoDatagram
    /\ resets = FALSE

Moved(C, where) == [c \in Conns |-> IF c \in C THEN where ELSE conn[c]]
Closed(C) == Moved(C, "free")

-----------------------------------------------------------------------------
(* acceptTCPLoop.                                                           *)
Accept(c) ==
    /\ loop.st = "accept" /\ conn[c] = "free" /\ sess[c] = NoSession
    /\ loop' = [loop EXCEPT !.st = "hello", !.conn = c]
    /\ conn' = Moved({c}, "loop")
    /\ gone' = [gone EXCEPT ![c] = ""]
    /\ UNCHANGED <<pendingBE, pendingFE, tcpBusy, tcpSession, sess, resets, udps>>

TurnAway ==
    /\ loop' = Accepting
    /\ conn' = Closed({loop.conn})
    /\ UNCHANGED <<gone, pendingBE, pendingFE, tcpBusy, tcpSession, sess, resets>>

\* A connection without a hello takes the place that is open.
Guess(role) == IF role # "" THEN role
               ELSE IF pendingBE = None THEN "BE"
               ELSE IF pendingFE = None THEN "FE" ELSE "BE"

\* The first section: role is that of the hello, "" if none came within 50 ms.
Hello(role) ==
    /\ loop.st = "hello"
    /\ \/ tcpBusy /\ TurnAway
       \/ /\ ~tcpBusy
          /\ loop' = [loop EXCEPT !.st = "place", !.role = Guess(role)]
          /\ UNCHANGED <<conn, gone, pendingBE, pendingFE, tcpBusy, tcpSession, sess, resets>>
    /\ UNCHANGED udps

Pair(fe, be) ==
    /\ sess' = [sess EXCEPT ![fe] = [be |-> be, st |-> "run", keep |-> FALSE]]
    /\ tcpSession' = fe /\ tcpBusy' = TRUE
    /\ pendingBE' = IF be = pendingBE THEN None ELSE pendingBE
    /\ pendingFE' = IF fe = pendingFE THEN None ELSE pendingFE
    /\ conn' = Moved({fe, be}, "session")

Wait ==
    /\ pendingBE' = IF loop.role = "BE" THEN loop.conn ELSE pendingBE
    /\ pendingFE' = IF loop.role = "FE" THEN loop.conn ELSE pendingFE
    /\ conn' = Moved({loop.conn}, "pending")
    /\ UNCHANGED <<tcpBusy, tcpSession, sess>>

\* Faulty variant: a frontend does not look for a backend that waits.
MatchesBE == loop.role = "BE" /\ pendingFE # None

Matches == IF loop.role = "BE" THEN pendingFE # None ELSE pendingBE # None

\* The second section, which does not look at tcpBusy again.
Place ==
    /\ loop.st = "place"
    /\ LET be == loop.role = "BE"
           taken == IF be THEN pendingBE # None ELSE pendingFE # None
       IN  \/ taken /\ TurnAway
           \/ /\ ~taken
              /\ IF Matches THEN Pair(IF be THEN pendingFE ELSE loop.conn, IF be THEN loop.conn ELSE pendingBE)
                            ELSE Wait
              /\ loop' = Accepting
              /\ UNCHANGED <<gone, resets>>
    /\ UNCHANGED udps

-----------------------------------------------------------------------------
(* Sessions (module PipeSession): Stop, then onStop under s.mu.             *)
SessionStops(f, keep) ==
    /\ sess[f].st = "run"
    /\ sess' = [sess EXCEPT ![f].st = "stop", ![f].keep = keep]
    /\ conn' = Closed(IF keep THEN {f} ELSE {f, sess[f].be})
    /\ UNCHANGED <<loop, gone, pendingBE, pendingFE, tcpBusy, tcpSession, resets, udps>>

\* Faulty variant: whichever session the slot has.
IsAny(f) == TRUE

IsCurrent(f) == tcpSession = f

Repend(f) == IsCurrent(f) /\ sess[f].keep /\ pendingBE = None

OnStop(f) ==
    LET be == sess[f].be
    IN  /\ sess[f].st = "stop"
        /\ tcpSession' = IF IsCurrent(f) THEN None ELSE tcpSession
        /\ tcpBusy' = (tcpBusy /\ ~IsCurrent(f))
        /\ pendingBE' = IF Repend(f) THEN be ELSE pendingBE
        /\ conn' = IF Repend(f) THEN Moved({be}, "pending")
                   ELSE IF sess[f].keep THEN Moved({be}, "lost") ELSE conn
        /\ sess' = [sess EXCEPT ![f] = NoSession]
        /\ UNCHANGED <<loop, gone, pendingFE, resets, udps>>

\* A datagram that was looked up before is written to an address of the past.
Overtaken == udp' = IF udp = NoDatagram THEN udp ELSE [udp EXCEPT !.old = TRUE]

\* ResetPort: a running session is stopped, a waiting connection closed.
ResetPort ==
    LET f == tcpSession
        live == f # None /\ sess[f].st = "run"
    IN  /\ \E keep \in BOOLEAN :
               /\ keep => live
               /\ sess' = IF live THEN [sess EXCEPT ![f].st = "stop", ![f].keep = keep] ELSE sess
               /\ conn' = Closed({pendingBE, pendingFE} \cup (IF live THEN {f} ELSE {})
                              \cup (IF live /\ ~keep THEN {sess[f].be} ELSE {}))
        /\ resets' = (resets \/ f # None)
        /\ tcpSession' = None /\ tcpBusy' = FALSE
        /\ pendingBE' = None /\ pendingFE' = None
        /\ udpA' = None /\ udpB' = None /\ idle' = {} /\ Overtaken
        /\ UNCHANGED <<loop, gone>>

\* The far end of a waiting connection leaves.
PeerLeaves(c, how) ==
    /\ conn[c] = "pending" /\ gone[c] = ""
    /\ gone' = [gone EXCEPT ![c] = how]
    /\ UNCHANGED <<loop, conn, pendingBE, pendingFE, tcpBusy, tcpSession, sess, resets, udps>>

\* SnapshotPortState removes waiting connections whose end it sees; whether it
\* does, or sees its own time-out, depends on the connection, and one that was
\* reset is not recognised.
SnapshotPortState ==
    \E dead \in SUBSET {c \in {pendingBE, pendingFE} \ {None} : gone[c] = "eof"} :
        /\ dead # {}
        /\ pendingBE' = IF pendingBE \in dead THEN None ELSE pendingBE
        /\ pendingFE' = IF pendingFE \in dead THEN None ELSE pendingFE
        /\ conn' = Closed(dead)
        /\ UNCHANGED <<loop, gone, tcpBusy, tcpSession, sess, resets, udps>>

-----------------------------------------------------------------------------
(* udpLoop and udpSweepLoop.                                                *)
Datagram(a) ==
    /\ udp = NoDatagram
    /\ \/ udpA = None /\ udpA' = a /\ UNCHANGED <<udpB, udp>>
       \/ udpA # None /\ udpB = None /\ a # udpA /\ udpB' = a /\ UNCHANGED <<udpA, udp>>
       \/ a = udpA /\ udp' = [src |-> a, dst |-> udpB, old |-> FALSE] /\ UNCHANGED <<udpA, udpB>>
       \/ a = udpB /\ udp' = [src |-> a, dst |-> udpA, old |-> FALSE] /\ UNCHANGED <<udpA, udpB>>
    /\ idle' = idle \ {a}
    /\ UNCHANGED tcp

\* WriteToUDP with s.mu released; without a second address nothing is written.
Forward ==
    /\ udp # NoDatagram
    /\ udp' = NoDatagram
    /\ UNCHANGED <<tcp, udpA, udpB, idle>>

GoesIdle(a) ==
    /\ a \in {udpA, udpB} /\ a \notin idle
    /\ idle' = idle \cup {a}
    /\ UNCHANGED <<tcp, udpA, udpB, udp>>

\* A lonely address, or a pair of which both are silent.
SweepDue == udpA # None /\ {udpA, udpB} \ {None} \subseteq idle

\* Faulty variant: the second address stays.
SweptBStays == udpB

SweptB == None

UdpSweep ==
    /\ SweepDue
    /\ udpA' = None /\ udpB' = SweptB /\ idle' = {} /\ Overtaken
    /\ UNCHANGED tcp

-----------------------------------------------------------------------------
Next ==
    \/ \E c \in Conns : \/ Accept(c) \/ OnStop(c)
                        \/ \E keep \in BOOLEAN : SessionStops(c, keep)
                        \/ \E how \in {"eof", "reset"} : PeerLeaves(c, how)
    \/ \E role \in {"", "FE", "BE"} : Hello(role)
    \/ Place \/ ResetPort \/ SnapshotPortState
    \/ \E a \in Addrs : Datagram(a) \/ GoesIdle(a)
    \/ Forward \/ UdpSweep

Spec == Init /\ [][Next]_vars

-----------------------------------------------------------------------------
\* Type invariant.
TypeOK ==
    /\ loop \in [st : {"accept", "hello", "place"}, conn : Conns \cup {None}, role : {"", "FE", "BE"}]
    /\ conn \in [Conns -> {"free", "loop", "pending", "session", "lost"}]
    /\ gone \in [Conns -> {"", "eof", "reset"}]
    /\ {pendingBE, pendingFE, tcpSession} \subseteq Conns \cup {None}
    /\ tcpBusy \in BOOLEAN /\ resets \in BOOLEAN
    /\ sess \in [Conns -> [be : Conns, st : {"run", "stop"}, keep : BOOLEAN] \cup {NoSession}]
    /\ {udpA, udpB} \subseteq Addrs \cup {None} /\ idle \subseteq {udpA, udpB} \ {None}
    /\ udp \in [src : Addrs \cup {None}, dst : Addrs \cup {None}, old : BOOLEAN]

\* Through resets, late ends of sessions and the gap between the two sections:
\* at most one session runs, the slot is busy exactly while it names a session,
\* and a running session is the one it names.  A kept backend is forgotten,
\* neither waiting nor closed, only when a reset has come before onStop.
OneSession ==
    /\ TypeOK
    /\ tcpBusy <=> tcpSession # None
    /\ \A f \in Conns : sess[f].st = "run" => tcpSession = f
    /\ (\E c \in Conns : conn[c] = "lost") => resets

\* A frontend and a backend never wait for each other, nor while a session
\* runs: whoever comes second is paired.
NobodyWaitsInVain ==
    /\ pendingBE = None \/ pendingFE = None
    /\ tcpBusy => pendingBE = None /\ pendingFE = None

\* The two addresses differ, the second is never set without the first, and a
\* datagram on its way goes from one of them to the other, unless a reset or a
\* sweep came between the lookup and the write.
UdpPaired ==
    /\ udpB # None => udpA # None /\ udpA # udpB
    /\ udp.dst # None /\ ~udp.old => {udp.src, udp.dst} = {udpA, udpB}
=============================================================================
