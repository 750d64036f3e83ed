------------------------------ MODULE MCSessions ------------------------------
(* The sessions of the two generations of the relay: PipeSession of V1 and    *)
(* Session of V4.  A behaviour is one session of either.                      *)
EXTENDS PipeSession

VARIABLES version, pc, closed, sup, old, condemned, ends, mgr

V4 == INSTANCE SessionPipes WITH peer <- ends

v4vars == <<pc, closed, sup, old, condemned, ends, mgr>>
allVars == <<version, vars, v4vars>>

MCInit == version \in {"V1", "V4"} /\ Start /\ V4!Init

MCNext ==
    \/ version = "V1" /\ Next /\ UNCHANGED <<version, v4vars>>
    \/ version = "V4" /\ V4!Next /\ UNCHANGED <<version, vars>>

MCSpec ==
    /\ MCInit /\ [][MCNext]_allVars
    /\ version = "V1" => Fairness
    /\ version = "V4" => V4!Fairness

\* V4: a session ends only because a peer left, was silent for more than 6 s, or
\* the gateway shuts down (pipe, checkHeartbeats, Stop).
EndedForCause == V4!EndedForCause

\* V4: a peer that leaves, the end of the context or the heartbeat's verdict ends
\* the session, and no pipe stays in a Write (pipe, checkHeartbeats, StopAll).
SessionEnds == version = "V4" => V4!SessionEnds
=============================================================================
