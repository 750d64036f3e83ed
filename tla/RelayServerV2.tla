--------------------------- MODULE RelayServerV2 ---------------------------
(***************************************************************************)
(* RelayServer of v2/relay/server.go: that of V1 (module RelayServer) over *)
(* TCP and SRT listeners.  The accept loop differs: on a port of the zmq   *)
(* and srt ranges a connection without a hello is welcome and takes the    *)
(* place that is open, for which s.mu is taken, released, and taken again  *)
(* to place the connection, without another look at busy.  The reaper and  *)
(* the handlers of backends, which stop and start ports, are reduced to    *)
(* those two calls at any time.                                            *)
(***************************************************************************)
EXTENDS RelayServer

CONSTANTS
    SRTPorts,       \* ports with an SRT listener, all of them in Open
    Open            \* ports of the zmq and srt ranges, where the hello is optional

StartRelayPortV2(p) == StartRelayPort(p)

GuessRole(p) == IF pendingBE[p] = NoConn THEN "BE" ELSE "FE"

\* The first section: busy is looked at and the role settled.
HelloV2(l, role) ==
    LET p == loop[l].port IN
    /\ loop[l].st = "hello"
    /\ \/ (busy[p] \/ (role = "" /\ p \notin Open)) /\ TurnAway(l)
       \/ /\ ~busy[p] /\ (role # "" \/ p \in Open)
          /\ loop' = [loop EXCEPT ![l].st = "role", ![l].role = IF role = "" THEN GuessRole(p) ELSE role]
          /\ UNCHANGED <<listener, conn, pendingBE, busy, sessions, sess, stopped>>

\* The second section.
PlaceV2(l) ==
    /\ loop[l].st = "role"
    /\ \/ Fits(loop[l].port, loop[l].role) /\ Place(l, loop[l].role)
       \/ ~Fits(loop[l].port, loop[l].role) /\ TurnAway(l)

SessionV2(f) == SessionStep(f)

StopPortV2(p) == StopPort(p)

\* As in V1, but the waiting backends of SRT ports are never examined.
SnapshotPortStateV2 ==
    \E dead \in SUBSET {p \in Ports \ SRTPorts : FarEndLeft(p)} :
        dead # {} /\ DropPending(dead)

-----------------------------------------------------------------------------
Next ==
    \/ \E p \in Ports : StartRelayPortV2(p) \/ StopPortV2(p)
    \/ \E l \in Loops : \/ \E c \in Conns : Accept(l, c)
                        \/ AcceptFails(l) \/ BusyCheck(l) \/ PlaceV2(l) \/ Reported(l)
                        \/ \E role \in HelloRoles : HelloV2(l, role)
    \/ \E f \in Conns : SessionV2(f) \/ PeerLeaves(f)
    \/ SnapshotPortStateV2

Spec == InitRelay /\ [][Next]_relayVars

LoopProceeds(l) == ClosedAcceptFails(l) \/ BusyCheck(l) \/ HelloV2(l, "") \/ PlaceV2(l)

\* Accept loops go on; onStateChange need not return.
Fairness == \A l \in Loops : WF_relayVars(LoopProceeds(l))

FairSpec == Spec /\ Fairness
=============================================================================
