------------------------------- MODULE Reaper -------------------------------
(***************************************************************************)
(* The backends' control connections (v1/control/hub.go) and the Reaper    *)
(* (reaper.go) over module RelayServer: a backend's port_alloc message     *)
(* starts the configured ports, its departure schedules their end, and a   *)
(* timer ends them unless a backend asks for ports again before.  All      *)
(* backends are given the same ports.                                      *)
(***************************************************************************)
EXTENDS RelayServer

CONSTANTS
    Backends,   \* control connections of backends
    KillBound   \* at most so many kills under way on a port, from timer to StopPort

ASSUME KillAssumption == KillBound \in Nat \ {0}

VARIABLES
    ctl,        \* backend -> [reg, alloc, todo, st]
    entry,      \* port -> pendingKills: "none", or its timer "armed" or "fired"
    stray,      \* port -> armed timers that are no longer in pendingKills
    exec,       \* port -> executeKill goroutines that have yet to take r.mu
    kill        \* port -> those that have yet to call StopPort

reapVars == <<ctl, entry, stray, exec, kill>>
vars == <<listener, loop, conn, pendingBE, busy, sessions, sess, stopped,
          ctl, entry, stray, exec, kill>>

Offline == [reg |-> FALSE, alloc |-> FALSE, todo |-> {}, st |-> "idle"]

Init ==
    /\ InitRelay
    /\ ctl = [b \in Backends |-> Offline]
    /\ entry = [p \in Ports |-> "none"]
    /\ stray = [p \in Ports |-> 0]
    /\ exec = [p \in Ports |-> 0]
    /\ kill = [p \in Ports |-> 0]

-----------------------------------------------------------------------------
(* Reaper.                                                                  *)

\* ScheduleKill arms a timer for every port that has none, and stops the
\* session of that port at once.
ScheduleKill ==
    LET hit == {f \in Conns : \E p \in Ports : /\ entry[p] = "none" /\ sessions[p] = f
                                               /\ sess[f].st = "run"}
    IN  /\ entry' = [p \in Ports |-> IF entry[p] = "none" THEN "armed" ELSE entry[p]]
        /\ \E kept \in SUBSET hit :
               /\ sess' = [f \in Conns |-> IF f \in hit THEN [sess[f] EXCEPT !.st = "stop", !.keep = f \in kept]
                                           ELSE sess[f]]
               /\ conn' = Closed(hit \cup {sess[f].be : f \in hit \ kept})
        /\ UNCHANGED <<listener, loop, pendingBE, busy, sessions, stopped>>

\* A fired timer's goroutine is not called back: timer.Stop comes too late.
CancelKill == entry' = [p \in Ports |-> "none"]

TimerFires(p) ==
    /\ \/ entry[p] = "armed" /\ entry' = [entry EXCEPT ![p] = "fired"] /\ UNCHANGED stray
       \/ stray[p] > 0 /\ stray' = [stray EXCEPT ![p] = @ - 1] /\ UNCHANGED entry
    /\ exec' = [exec EXCEPT ![p] = @ + 1]
    /\ UNCHANGED <<relayVars, ctl, kill>>

\* executeKill, first half: the entry goes, even if it is that of a later timer.
ExecuteKill(p) ==
    /\ exec[p] > 0
    /\ exec' = [exec EXCEPT ![p] = @ - 1]
    /\ stray' = [stray EXCEPT ![p] = IF entry[p] = "armed" THEN @ + 1 ELSE @]
    /\ entry' = [entry EXCEPT ![p] = "none"]
    /\ kill' = [kill EXCEPT ![p] = @ + 1]
    /\ UNCHANGED <<relayVars, ctl>>

\* ... second half.
ExecuteStop(p) ==
    /\ kill[p] > 0
    /\ kill' = [kill EXCEPT ![p] = @ - 1]
    /\ StopPort(p)
    /\ UNCHANGED <<ctl, entry, stray, exec>>

-----------------------------------------------------------------------------
(* The hub's part: a backend registers, asks for ports and leaves.          *)
Register(b) ==
    /\ ctl[b] = Offline
    /\ ctl' = [ctl EXCEPT ![b].reg = TRUE]
    /\ UNCHANGED <<relayVars, entry, stray, exec, kill>>

\* port_alloc: the ports are started one by one...
PortAlloc(b) ==
    /\ ctl[b].reg /\ ctl[b].st = "idle"
    /\ ctl' = [ctl EXCEPT ![b].st = "start", ![b].todo = Ports]
    /\ UNCHANGED <<relayVars, entry, stray, exec, kill>>

PortAllocStart(b, p) ==
    /\ p \in ctl[b].todo
    /\ StartRelayPort(p)
    /\ ctl' = [ctl EXCEPT ![b].todo = @ \ {p}]
    /\ UNCHANGED <<entry, stray, exec, kill>>

\* ... then AllocatedPorts is set (too late for the Unregister of a client that
\* another goroutine has closed in the meantime)...
PortAllocSet(b) ==
    /\ ctl[b].st = "start" /\ ctl[b].todo = {}
    /\ ctl' = [ctl EXCEPT ![b].st = "cancel", ![b].alloc = ctl[b].reg]
    /\ UNCHANGED <<relayVars, entry, stray, exec, kill>>

\* ... and scheduled kills are cancelled, by such a client's handler too.
PortAllocCancel(b) ==
    /\ ctl[b].st = "cancel"
    /\ ctl' = [ctl EXCEPT ![b] = IF ctl[b].reg THEN [@ EXCEPT !.st = "idle"] ELSE Offline]
    /\ CancelKill
    /\ UNCHANGED <<relayVars, stray, exec, kill>>

Bounded == \A p \in Ports : entry[p] = "none" => stray[p] + exec[p] + kill[p] < KillBound

\* Client.Close and Unregister: at the end of the handler or, in the middle of
\* port_alloc, by a broadcast that failed.
Unregister(b) ==
    /\ ctl[b].reg
    /\ ctl' = [ctl EXCEPT ![b] = IF ctl[b].st = "idle" THEN Offline
                                 ELSE [@ EXCEPT !.reg = FALSE, !.alloc = FALSE]]
    /\ IF ctl[b].alloc THEN Bounded /\ ScheduleKill ELSE UNCHANGED <<relayVars, entry>>
    /\ UNCHANGED <<stray, exec, kill>>

-----------------------------------------------------------------------------
Next ==
    \/ RelayStep /\ UNCHANGED reapVars
    \/ \E p \in Ports : TimerFires(p) \/ ExecuteKill(p) \/ ExecuteStop(p)
    \/ \E b \in Backends : \/ Register(b) \/ PortAlloc(b) \/ Unregister(b)
                           \/ PortAllocSet(b) \/ PortAllocCancel(b)
                           \/ \E p \in Ports : PortAllocStart(b, p)

Spec == Init /\ [][Next]_vars

\* Timers fire and their goroutines run, the handler of a port_alloc goes on.
KillsProceed ==
    /\ \A p \in Ports : WF_vars(TimerFires(p)) /\ WF_vars(ExecuteKill(p)) /\ WF_vars(ExecuteStop(p))
    /\ \A b \in Backends : WF_vars(PortAllocSet(b) \/ PortAllocCancel(b) \/ \E p \in Ports : PortAllocStart(b, p))

LoopProceeds(l) == (ClosedAcceptFails(l) \/ BusyCheck(l) \/ Hello(l, "")) /\ UNCHANGED reapVars

\* What sessions do is left open, and onStateChange need not return.
Fairness == KillsProceed /\ \A l \in Loops : WF_vars(LoopProceeds(l))

FairSpec == Spec /\ Fairness

-----------------------------------------------------------------------------
\* Type invariant of the composition.
TypeOK ==
    /\ RelayTypeOK
    /\ ctl \in [Backends -> [reg : BOOLEAN, alloc : BOOLEAN, todo : SUBSET Ports, st : {"idle", "start", "cancel"}]]
    /\ entry \in [Ports -> {"none", "armed", "fired"}]
    /\ stray \in [Ports -> 0 .. KillBound]
    /\ exec \in [Ports -> 0 .. KillBound] /\ kill \in [Ports -> 0 .. KillBound]

SomeBackend == \E b \in Backends : ctl[b].reg \/ ctl[b].st # "idle"

\* backend_dev_guide.md on reaper_timeout: a port whose kill is scheduled is
\* closed, unless a backend is there again to ask for it.
AbandonedPortCloses ==
    \A p \in Ports : entry[p] # "none" ~> (listener[p] = NoLoop \/ SomeBackend)
=============================================================================
