------------------------------ MODULE SRTServer ------------------------------
(***************************************************************************)
(* srtServer of v4/relay/srt_server.go: the algorithm of module DataPlane  *)
(* over SRT.  What differs is how a connection comes in.  The listeners    *)
(* are started one by one by Manager.Start; the accept loop of a port      *)
(* first takes a connection request (Accept2) and then accepts it, which   *)
(* may fail without ending the loop, and StopAll may come in between.      *)
(***************************************************************************)
EXTENDS DataPlane

VARIABLES
    listeners,  \* the ports in s.listeners
    request     \* the ports whose accept loop holds a request it has yet to accept

srtOnly == <<listeners, request>>
srtVars == <<state, alloc, offer, conn, pending, tryq, sessions, sess, pairing, sweep, ctx,
             listeners, request>>

SRTInit == Init /\ listeners = {} /\ request = {}

\* StartPort, called by Manager.Start in ascending order of the ports.
StartPort(p) ==
    /\ ctx = "run" /\ p \notin listeners
    /\ \A q \in Ports : q < p => q \in listeners
    /\ listeners' = listeners \cup {p}
    /\ UNCHANGED <<vars, request>>

\* acceptLoop.
Accept2(p) ==
    /\ p \in listeners /\ p \notin request
    /\ request' = request \cup {p}
    /\ UNCHANGED <<vars, listeners>>

\* req.Accept, also of a request from before StopAll.
AcceptRequest(c, p) ==
    /\ p \in request
    /\ conn[c] = FreeSlot
    /\ c \in CConns => sess[c] = NoSession
    /\ conn' = [conn EXCEPT ![c] = [port |-> p, sid |-> None, phase |-> "accepted"]]
    /\ request' = request \ {p}
    /\ UNCHANGED <<state, alloc, offer, pending, tryq, sessions, sess, pairing, sweep, ctx, listeners>>

RequestFails(p) ==
    /\ p \in request
    /\ request' = request \ {p}
    /\ UNCHANGED <<vars, listeners>>

\* handleConn, from ReadHello to the decision under s.mu.
SRTHandleConn(c) ==
    /\ HelloError(c) \/ Admit(c) \/ Refuse(c) \/ \E s \in SessionIds : ReadHello(c, s)
    /\ UNCHANGED srtOnly

SRTTryPair(p) == TryPair(p) /\ UNCHANGED srtOnly

SRTStartSession == TryPairMark /\ UNCHANGED srtOnly

\* Faulty variant: the session ends without pool.Release.
SRTOnStopKeeping(f) ==
    /\ UNCHANGED srtOnly
    /\ \/ OnStopDelete(f)
       \/ /\ sess[f].phase = "release"
          /\ sess' = [sess EXCEPT ![f] = NoSession]
          /\ UNCHANGED <<poolVars, offer, conn, pending, tryq, sessions, pairing, sweep, ctx>>

SRTOnStop(f) == (OnStopDelete(f) \/ OnStopRelease(f)) /\ UNCHANGED srtOnly

SRTMaintainPending ==
    /\ SweepStart \/ SweepTouch \/ \E x \in Slots : SweepVisit(x)
    /\ UNCHANGED srtOnly

\* A sweep that has begun goes on; new ones are certain only while ctx runs.
SweepProceeds == (ctx = "run" \/ ~MuFree) /\ SRTMaintainPending

\* StopAll also empties s.listeners; a request already taken is not affected.
SRTStopAll == StopAll /\ listeners' = {} /\ UNCHANGED request

-----------------------------------------------------------------------------
SRTNext ==
    \/ \E p \in Ports : StartPort(p) \/ Accept2(p) \/ RequestFails(p) \/ SRTTryPair(p)
    \/ \E c \in Conns : SRTHandleConn(c) \/ \E p \in Ports : AcceptRequest(c, p)
    \/ SRTStartSession \/ SRTMaintainPending \/ SRTStopAll
    \/ \E f \in CConns : SRTOnStop(f) \/ (SessionStop(f) /\ UNCHANGED srtOnly)
    \/ /\ \/ \E s \in SessionIds : HubReserve(s) \/ HubGrant(s) \/ HubRollback(s)
          \/ HeartbeatExpire \/ Clock \/ Cancel
       /\ UNCHANGED srtOnly

SRTSpec == SRTInit /\ [][SRTNext]_srtVars

\* As in DataPlane.
SRTFairSpec ==
    /\ SRTSpec
    /\ \A c \in Conns : /\ WF_srtVars(HelloError(c) /\ UNCHANGED srtOnly)
                        /\ SF_srtVars(HandleConn(c) /\ UNCHANGED srtOnly)
    /\ \A p \in Ports : SF_srtVars(SRTTryPair(p)) /\ WF_srtVars(RequestFails(p))
    /\ WF_srtVars(SRTStartSession) /\ SF_srtVars(SweepProceeds) /\ SF_srtVars(SRTStopAll)
    /\ \A f \in CConns : /\ WF_srtVars(ctx = "stopped" /\ SessionCtxDone(f) /\ UNCHANGED srtOnly)
                         /\ SF_srtVars(SRTOnStop(f))
    /\ WF_srtVars(ctx = "run" /\ HeartbeatExpire /\ UNCHANGED srtOnly)
    /\ WF_srtVars(Clock /\ UNCHANGED srtOnly)

-----------------------------------------------------------------------------
\* A peer that is taken in although StopAll is over finds no place for long:
\* whatever requests and handlers StopAll overtook, in the end every session
\* is gone and every port that was Occupied is free again.
LateArrivalsDrain ==
    ctx = "cancelled" ~>
        [](/\ \A f \in CConns : sess[f] = NoSession
           /\ \A p \in Ports : state[p] # "Occupied")
=============================================================================
