------------------------------- MODULE MCRelay -------------------------------
(* The relay servers of V1, with its reaper and its backends, and of V2, over *)
(* TCP or over SRT.  A behaviour is one server of either version.             *)
EXTENDS Reaper, TLC

CONSTANT Versions
VARIABLE version

TCP == INSTANCE RelayServerV2 WITH SRTPorts <- {}, Open <- Ports
SRT == INSTANCE RelayServerV2 WITH SRTPorts <- Ports, Open <- Ports
Strict == INSTANCE RelayServerV2 WITH SRTPorts <- {}, Open <- {}

allVars == <<version, vars>>

MCInit == version \in Versions /\ Init

MCNext ==
    /\ UNCHANGED version
    /\ \/ version = "V1" /\ Next
       \/ version = "V2" /\ TCP!Next /\ UNCHANGED reapVars
       \/ version = "V2srt" /\ SRT!Next /\ UNCHANGED reapVars
       \/ version = "V2hello" /\ Strict!Next /\ UNCHANGED reapVars

MCSpec == MCInit /\ [][MCNext]_allVars

\* The fairness of both versions at once: there are no kills in V2.
MCFairSpec ==
    /\ MCSpec
    /\ KillsProceed
    /\ \A l \in Loops : WF_vars(\/ version = "V1" /\ LoopProceeds(l)
                                \/ version = "V2" /\ TCP!LoopProceeds(l) /\ UNCHANGED reapVars)

Sym == Permutations(Conns) \cup Permutations(Loops)
=============================================================================
