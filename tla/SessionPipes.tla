---------------------------- MODULE SessionPipes ----------------------------
(***************************************************************************)
(* A Session of v4/relay/session.go: two pipe goroutines, the goroutine    *)
(* that waits for both and then calls onStop, and those who stop it from   *)
(* outside: the heartbeat check of the manager and StopAll.  Reads have a  *)
(* deadline of 250 ms; writes have none, so a peer that does not read      *)
(* holds the pipe that writes to it.                                       *)
(***************************************************************************)
EXTENDS Naturals

Sides == {"FE", "BE"}
Other(x) == IF x = "FE" THEN "BE" ELSE "FE"

VARIABLES
    pc,         \* side -> the pipe that reads from it: "check", "read", "write" or "exit"
    closed,     \* Stop has run: done and both connections are closed
    sup,        \* the waiting goroutine: "wait", "stopped" or "over" (onStop called)
    old,        \* the sides from which nothing was read for more than 6 s
    condemned,  \* checkHeartbeats has found an age above 6 s and is about to call Stop
    peer,       \* side -> "up", "stalled" (does not read) or "left"
    mgr         \* the manager: "run", "cancelled" or "stopped" (StopAll done)

vars == <<pc, closed, sup, old, condemned, peer, mgr>>

\* NewSession and Start.
Init ==
    /\ pc = [x \in Sides |-> "check"]
    /\ closed = FALSE
    /\ sup = "wait"
    /\ old = {}
    /\ condemned = FALSE
    /\ peer = [x \in Sides |-> "up"]
    /\ mgr = "run"

-----------------------------------------------------------------------------
(* pipe, for the direction that reads from x.                               *)

Leaves(x) == closed \/ mgr # "run"

Check(x) ==
    /\ pc[x] = "check"
    /\ pc' = [pc EXCEPT ![x] = IF Leaves(x) THEN "exit" ELSE "read"]
    /\ UNCHANGED <<closed, sup, old, condemned, peer, mgr>>

\* Something is read, and touchFE or touchBE notes it.
ReadData(x) ==
    /\ pc[x] = "read" /\ ~closed /\ peer[x] # "left"
    /\ old' = old \ {x}
    /\ pc' = [pc EXCEPT ![x] = "write"]
    /\ UNCHANGED <<closed, sup, condemned, peer, mgr>>

\* Faulty variant: the deadline of 250 ms is an error like any other.
ReadTimeoutFails(x) ==
    /\ pc[x] = "read" /\ ~closed /\ peer[x] # "left"
    /\ closed' = TRUE
    /\ pc' = [pc EXCEPT ![x] = "exit"]
    /\ UNCHANGED <<sup, old, condemned, peer, mgr>>

ReadTimeout(x) ==
    /\ pc[x] = "read" /\ ~closed /\ peer[x] # "left"
    /\ pc' = [pc EXCEPT ![x] = "check"]
    /\ UNCHANGED <<closed, sup, old, condemned, peer, mgr>>

\* Faulty variant: the pipe leaves without Stop.
FailQuietly == UNCHANGED closed

\* A pipe that fails calls Stop.
FailStops == closed' = TRUE

ReadFails(x) ==
    /\ pc[x] = "read" /\ (closed \/ peer[x] = "left")
    /\ FailStops
    /\ pc' = [pc EXCEPT ![x] = "exit"]
    /\ UNCHANGED <<sup, old, condemned, peer, mgr>>

Write(x) ==
    /\ pc[x] = "write" /\ ~closed /\ peer[Other(x)] = "up"
    /\ pc' = [pc EXCEPT ![x] = "check"]
    /\ UNCHANGED <<closed, sup, old, condemned, peer, mgr>>

WriteFails(x) ==
    /\ pc[x] = "write" /\ (closed \/ peer[Other(x)] = "left")
    /\ FailStops
    /\ pc' = [pc EXCEPT ![x] = "exit"]
    /\ UNCHANGED <<sup, old, condemned, peer, mgr>>

-----------------------------------------------------------------------------
BothReturned == \A x \in Sides : pc[x] = "exit"

DeferredStop == closed' = TRUE

\* wg.Wait, the deferred Stop...
Supervise ==
    /\ sup = "wait" /\ BothReturned
    /\ DeferredStop
    /\ sup' = "stopped"
    /\ UNCHANGED <<pc, old, condemned, peer, mgr>>

\* ... and onStop, which releases the port.
CallOnStop ==
    /\ sup = "stopped"
    /\ sup' = "over"
    /\ UNCHANGED <<pc, closed, old, condemned, peer, mgr>>

-----------------------------------------------------------------------------
(* Time, the manager and the peers.                                         *)
Silence(x) ==
    /\ x \notin old /\ sup # "over"
    /\ old' = old \cup {x}
    /\ UNCHANGED <<pc, closed, sup, condemned, peer, mgr>>

TooOld == old # {}

\* checkHeartbeats, every 3 s, reads the two ages (a tick may still be taken
\* after the cancel)...
HeartbeatFinds ==
    /\ sup # "over" /\ ~closed /\ ~condemned
    /\ TooOld
    /\ condemned' = TRUE
    /\ UNCHANGED <<pc, closed, sup, old, peer, mgr>>

\* ... and calls Stop, even if something was read in between.
HeartbeatStops ==
    /\ condemned /\ ~closed
    /\ closed' = TRUE
    /\ UNCHANGED <<pc, sup, old, condemned, peer, mgr>>

\* Manager.Stop: cancel, then StopAll, which stops the sessions in the map.
Cancel ==
    /\ mgr = "run" /\ mgr' = "cancelled"
    /\ UNCHANGED <<pc, closed, sup, old, condemned, peer>>

StopAll ==
    /\ mgr = "cancelled" /\ mgr' = "stopped"
    /\ closed' = TRUE
    /\ UNCHANGED <<pc, sup, old, condemned, peer>>

PeerChanges(x) ==
    /\ sup # "over" /\ peer[x] # "left"
    /\ \E st \in {"up", "stalled", "left"} \ {peer[x]} : peer' = [peer EXCEPT ![x] = st]
    /\ UNCHANGED <<pc, closed, sup, old, condemned, mgr>>

-----------------------------------------------------------------------------
Pipe(x) == Check(x) \/ ReadData(x) \/ ReadTimeout(x) \/ ReadFails(x) \/ Write(x) \/ WriteFails(x)

Next ==
    \/ \E x \in Sides : Pipe(x) \/ Silence(x) \/ PeerChanges(x)
    \/ Supervise \/ CallOnStop \/ HeartbeatFinds \/ HeartbeatStops \/ Cancel \/ StopAll

Spec == Init /\ [][Next]_vars

\* Goroutines run, a side from which nothing is read grows old, the heartbeat
\* ticks until the context is cancelled, and Stop goes on to StopAll.  Peers and
\* data are up to the peers.
Fairness ==
    /\ \A x \in Sides : WF_vars(Pipe(x)) /\ WF_vars(pc[x] = "write" /\ Silence(x))
    /\ WF_vars(Supervise) /\ WF_vars(CallOnStop) /\ WF_vars(StopAll)
    /\ WF_vars(mgr = "run" /\ HeartbeatFinds) /\ WF_vars(HeartbeatStops)

FairSpec == Spec /\ Fairness

-----------------------------------------------------------------------------
\* Type invariant.
TypeOK ==
    /\ pc \in [Sides -> {"check", "read", "write", "exit"}]
    /\ closed \in BOOLEAN
    /\ sup \in {"wait", "stopped", "over"}
    /\ old \subseteq Sides
    /\ condemned \in BOOLEAN
    /\ peer \in [Sides -> {"up", "stalled", "left"}]
    /\ mgr \in {"run", "cancelled", "stopped"}

\* Why a session may end: a peer left, the heartbeat check found a side silent
\* for more than 6 s, or the gateway shuts down.
HasCause == (\E x \in Sides : peer[x] = "left") \/ condemned \/ mgr # "run"

\* A session ends only for a cause.  A pipe meets errors of many kinds (its own
\* read deadline every 250 ms, the other pipe's Stop, the peers'), and none but
\* these lets a pipe return, closes the connections or releases the port.
EndedForCause ==
    TypeOK /\ (closed \/ sup # "wait" \/ (\E x \in Sides : pc[x] = "exit") => HasCause)

\* A peer that leaves ends the session, and so do the end of the context and the
\* heartbeat's verdict: the port is released.  A pipe that a peer holds in a write by not reading is freed
\* too: it reads nothing meanwhile, so its own side grows old for the heartbeat,
\* and at shutdown, when the heartbeat is over, StopAll closes the connections.
SessionEnds ==
    \A x \in Sides :
        /\ peer[x] = "left" \/ mgr # "run" \/ condemned ~> sup = "over"
        /\ pc[x] = "write" ~> pc[x] # "write"
=============================================================================
