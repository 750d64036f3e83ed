----------------------------- MODULE RelayServer -----------------------------
(***************************************************************************)
(* RelayServer of v1/relay/server.go: one listener and one accept loop per *)
(* port, backends that connect in advance and wait (pendingBE), frontends  *)
(* that are paired with them, and the callback at the end of a session.    *)
(* The maps are under s.mu; an accept loop lets go of it while it reads    *)
(* the hello, and a session runs from Stop to onStop without it.  What a   *)
(* session does in between is module PipeSession; here it stops with or    *)
(* without its backend kept.  pendingFE is declared but never filled.      *)
(*                                                                         *)
(* Slots of connections and of accept loops are used again when free.      *)
(***************************************************************************)
EXTENDS Naturals, FiniteSets

CONSTANTS Ports, Conns, Loops, NoConn, NoLoop, NoPort

ASSUME SlotAssumption == NoConn \notin Conns /\ NoLoop \notin Loops /\ NoPort \notin Ports

VARIABLES
    listener,   \* port -> the accept loop of its listener
    loop,       \* accept loop -> [port, st, conn, role]
    conn,       \* connection -> "free", "hello", "pending", "gone" (pending,
                \* but its far end has left), "session" or "lost"
    pendingBE,  \* port -> connection
    busy,       \* port -> BOOLEAN
    sessions,   \* port -> session, named by its frontend connection
    sess,       \* frontend connection -> [port, be, st, keep] until onStop is over
    stopped     \* history: the ports StopPort was ever called for

relayVars == <<listener, loop, conn, pendingBE, busy, sessions, sess, stopped>>

NoSession == [port |-> NoPort, be |-> NoConn, st |-> "none", keep |-> FALSE]
Free == [port |-> NoPort, st |-> "free", conn |-> NoConn, role |-> ""]
Accepting(p) == [port |-> p, st |-> "accept", conn |-> NoConn, role |-> ""]
Reporting(p) == [port |-> p, st |-> "report", conn |-> NoConn, role |-> ""]

\* The ports of the configuration are started by main; without one, none is.
InitRelay ==
    /\ \/ listener = [p \in Ports |-> NoLoop] /\ loop = [l \in Loops |-> Free]
       \/ \E at \in [Ports -> Loops] :
              /\ \A p, q \in Ports : at[p] = at[q] => p = q
              /\ listener = at
              /\ loop = [l \in Loops |-> IF \E p \in Ports : at[p] = l
                                        THEN Accepting(CHOOSE p \in Ports : at[p] = l) ELSE Free]
    /\ conn = [c \in Conns |-> "free"]
    /\ pendingBE = [p \in Ports |-> NoConn]
    /\ busy = [p \in Ports |-> FALSE]
    /\ sessions = [p \in Ports |-> NoConn]
    /\ sess = [c \in Conns |-> NoSession]
    /\ stopped = {}

Moved(C, where) == [c \in Conns |-> IF c \in C THEN where ELSE conn[c]]
Closed(C) == Moved(C, "free")

-----------------------------------------------------------------------------
\* A slot of no loop: one whose Accept has failed keeps its listener, which
\* nobody serves, until StopPort.
Unused(l) == loop[l] = Free /\ \A p \in Ports : listener[p] # l

\* A port that listens already is left alone, and so is one that cannot be
\* listened on.
StartRelayPort(p) ==
    /\ \/ UNCHANGED <<listener, loop>>
       \/ /\ listener[p] = NoLoop
          /\ \E l \in Loops : /\ Unused(l)
                              /\ listener' = [listener EXCEPT ![p] = l]
                              /\ loop' = [loop EXCEPT ![l] = Accepting(p)]
    /\ UNCHANGED <<conn, pendingBE, busy, sessions, sess, stopped>>

\* acceptLoop takes a connection...
Accept(l, c) ==
    /\ loop[l].st = "accept" /\ listener[loop[l].port] = l
    /\ conn[c] = "free" /\ sess[c] = NoSession
    /\ loop' = [loop EXCEPT ![l].st = "check", ![l].conn = c]
    /\ conn' = Moved({c}, "hello")
    /\ UNCHANGED <<listener, pendingBE, busy, sessions, sess, stopped>>

\* Faulty variant: the loop goes on after the error.
AcceptRetries(l) ==
    /\ loop[l].st = "accept" /\ listener[loop[l].port] # l
    /\ UNCHANGED relayVars

\* Accept fails, because the listener is closed or for any other reason.
AcceptFails(l) ==
    /\ loop[l].st = "accept"
    /\ loop' = [loop EXCEPT ![l] = Free]
    /\ UNCHANGED <<listener, conn, pendingBE, busy, sessions, sess, stopped>>

\* The hello is missing or invalid, or the connection cannot be used.
TurnAway(l) ==
    /\ conn' = Closed({loop[l].conn})
    /\ loop' = [loop EXCEPT ![l] = Accepting(loop[l].port)]
    /\ UNCHANGED <<listener, pendingBE, busy, sessions, sess, stopped>>

\* ... and closes it at once if the port is busy by now, or waits for its hello.
BusyCheck(l) ==
    /\ loop[l].st = "check"
    /\ \/ busy[loop[l].port] /\ TurnAway(l)
       \/ /\ ~busy[loop[l].port]
          /\ loop' = [loop EXCEPT ![l].st = "hello"]
          /\ UNCHANGED <<listener, conn, pendingBE, busy, sessions, sess, stopped>>

\* Faulty variant: a frontend does not need a backend that waits.
FitsAlone(p, role) == role = "BE" => pendingBE[p] = NoConn

\* A backend needs the place of pendingBE free, a frontend needs one waiting.
Fits(p, role) == IF role = "BE" THEN pendingBE[p] = NoConn ELSE pendingBE[p] # NoConn

PendBE(l) ==
    /\ pendingBE' = [pendingBE EXCEPT ![loop[l].port] = loop[l].conn]
    /\ conn' = Moved({loop[l].conn}, "pending")
    /\ loop' = [loop EXCEPT ![l] = Reporting(loop[l].port)]
    /\ UNCHANGED <<listener, busy, sessions, sess, stopped>>

Pair(l) ==
    LET p == loop[l].port
        fe == loop[l].conn
    IN  /\ sess' = [sess EXCEPT ![fe] = [port |-> p, be |-> pendingBE[p], st |-> "run", keep |-> FALSE]]
        /\ sessions' = [sessions EXCEPT ![p] = fe]
        /\ busy' = [busy EXCEPT ![p] = TRUE]
        /\ pendingBE' = [pendingBE EXCEPT ![p] = NoConn]
        /\ conn' = Moved({fe, pendingBE[p]}, "session")
        /\ loop' = [loop EXCEPT ![l] = Reporting(p)]
        /\ UNCHANGED <<listener, stopped>>

Place(l, role) == IF role = "BE" THEN PendBE(l) ELSE Pair(l)

\* The hello arrives ("" when it is bad or late) and s.mu is taken once.
Hello(l, role) ==
    /\ loop[l].st = "hello"
    /\ LET good == role # "" /\ ~busy[loop[l].port] /\ Fits(loop[l].port, role) IN
       \/ good /\ Place(l, role)
       \/ ~good /\ TurnAway(l)

\* onStateChange returns.  The loop itself calls it after it has placed a
\* connection, and it sends to every control client, without a write deadline.
Reported(l) ==
    /\ loop[l].st = "report"
    /\ loop' = [loop EXCEPT ![l] = Accepting(loop[l].port)]
    /\ UNCHANGED <<listener, conn, pendingBE, busy, sessions, sess, stopped>>

-----------------------------------------------------------------------------
(* Sessions.                                                                *)
Ended(f, keep) ==
    /\ sess' = [sess EXCEPT ![f].st = "stop", ![f].keep = keep]
    /\ conn' = Closed(IF keep THEN {f} ELSE {f, sess[f].be})

SessionStops(f, keep) ==
    /\ sess[f].st = "run"
    /\ Ended(f, keep)
    /\ UNCHANGED <<listener, loop, pendingBE, busy, sessions, stopped>>

\* Faulty variant: the kept backend waits again although another one does.
RependOver(f) == sess[f].keep

Repend(f) == sess[f].keep /\ pendingBE[sess[f].port] = NoConn

\* Faulty variant: a port whose backend was kept stays busy.
FreeUnlessKept(f) == busy' = [busy EXCEPT ![sess[f].port] = sess[f].keep]

FreePort(f) == busy' = [busy EXCEPT ![sess[f].port] = FALSE]

\* onStop under s.mu.  busy is cleared whichever session the port has by now;
\* a kept backend that cannot wait again is neither closed nor remembered.
OnStop(f) ==
    LET p == sess[f].port
        be == sess[f].be
    IN  /\ sess[f].st = "stop"
        /\ sessions' = [sessions EXCEPT ![p] = IF @ = f THEN NoConn ELSE @]
        /\ FreePort(f)
        /\ pendingBE' = [pendingBE EXCEPT ![p] = IF Repend(f) THEN be ELSE @]
        /\ conn' = IF Repend(f) THEN Moved({be}, "pending")
                   ELSE IF sess[f].keep THEN Moved({be}, "lost") ELSE conn
        /\ sess' = [sess EXCEPT ![f].st = "hook"]
        /\ UNCHANGED <<listener, loop, stopped>>

\* onPortFree and onStateChange, with s.mu no longer held.
OnStopHooks(f) ==
    /\ sess[f].st = "hook"
    /\ sess' = [sess EXCEPT ![f] = NoSession]
    /\ UNCHANGED <<listener, loop, conn, pendingBE, busy, sessions, stopped>>

\* Faulty variant: only a port with a session is closed.
StopIfUsed(p) == listener' = [listener EXCEPT ![p] = IF sessions[p] # NoConn THEN NoLoop ELSE @]

StopBusy(p) == busy' = [busy EXCEPT ![p] = FALSE]
StopListening(p) == listener' = [listener EXCEPT ![p] = NoLoop]

\* StopPort.  A session that had not stopped does so now, with its backend kept
\* if its frontend has just left.
StopPort(p) ==
    LET f == sessions[p]
        live == f # NoConn /\ sess[f].st = "run"
    IN  /\ StopListening(p) /\ StopBusy(p)
        /\ sessions' = [sessions EXCEPT ![p] = NoConn]
        /\ pendingBE' = [pendingBE EXCEPT ![p] = NoConn]
        /\ stopped' = stopped \cup {p}
        /\ \E keep \in BOOLEAN :
               /\ keep => live
               /\ sess' = IF live THEN [sess EXCEPT ![f].st = "stop", ![f].keep = keep] ELSE sess
               /\ conn' = Closed(  {pendingBE[p]} \cup (IF live THEN {f} ELSE {})
                              \cup (IF live /\ ~keep THEN {sess[f].be} ELSE {}))
        /\ UNCHANGED loop

\* A backend that waits goes away.
PeerLeaves(c) ==
    /\ conn[c] = "pending"
    /\ conn' = Moved({c}, "gone")
    /\ UNCHANGED <<listener, loop, pendingBE, busy, sessions, sess, stopped>>

FarEndLeft(p) == pendingBE[p] # NoConn /\ conn[pendingBE[p]] = "gone"

DropPending(dead) ==
    /\ pendingBE' = [p \in Ports |-> IF p \in dead THEN NoConn ELSE pendingBE[p]]
    /\ conn' = Closed({pendingBE[p] : p \in dead})
    /\ UNCHANGED <<listener, loop, busy, sessions, sess, stopped>>

\* SnapshotPortState first removes the backends that are found dead.  It peeks
\* with a deadline that is already over: whether the departure or the time-out
\* is reported depends on the connection, and a byte that came before hides it.
SnapshotPortState ==
    \E dead \in SUBSET {p \in Ports : FarEndLeft(p)} : dead # {} /\ DropPending(dead)

-----------------------------------------------------------------------------
HelloRoles == {"", "FE", "BE"}

SessionStep(f) == \/ \E keep \in BOOLEAN : SessionStops(f, keep)
                  \/ OnStop(f) \/ OnStopHooks(f)

\* What the server does by itself, and its peers do to it.
RelayStep ==
    \/ \E l \in Loops : \/ \E c \in Conns : Accept(l, c)
                        \/ AcceptFails(l) \/ BusyCheck(l) \/ Reported(l)
                        \/ \E role \in HelloRoles : Hello(l, role)
    \/ \E f \in Conns : SessionStep(f) \/ PeerLeaves(f)
    \/ SnapshotPortState

-----------------------------------------------------------------------------
\* Type invariant of a server.
RelayTypeOK ==
    /\ listener \in [Ports -> Loops \cup {NoLoop}]
    /\ loop \in [Loops -> [port : Ports \cup {NoPort}, st : {"free", "accept", "check", "hello", "role", "report"},
                           conn : Conns \cup {NoConn}, role : HelloRoles]]
    /\ conn \in [Conns -> {"free", "hello", "pending", "gone", "session", "lost"}]
    /\ pendingBE \in [Ports -> Conns \cup {NoConn}]
    /\ busy \in [Ports -> BOOLEAN]
    /\ sessions \in [Ports -> Conns \cup {NoConn}]
    /\ sess \in [Conns -> [port : Ports, be : Conns, st : {"run", "stop", "hook"}, keep : BOOLEAN]
                          \cup {NoSession}]
    /\ stopped \subseteq Ports

Unfinished(f) == sess[f].st \in {"run", "stop"}
Uses(f, c) == \/ sess[f].st = "run" /\ c \in {f, sess[f].be}
              \/ sess[f].st = "stop" /\ sess[f].keep /\ c = sess[f].be

\* A connection is in one place only, through every reuse of a kept backend:
\* it waits on the one port that names it, or belongs to the one session that
\* uses it, or is with one accept loop.  Two sessions never share a backend.
ConnectionExclusive ==
    \A c \in Conns :
        /\ conn[c] \in {"pending", "gone"} <=> \E p \in Ports : pendingBE[p] = c
        /\ conn[c] = "session" <=> \E f \in Conns : Uses(f, c)
        /\ conn[c] = "hello" <=> \E l \in Loops : loop[l].conn = c
        /\ \A p, q \in Ports : pendingBE[p] = c /\ pendingBE[q] = c => p = q
        /\ \A f, g \in Conns : Uses(f, c) /\ Uses(g, c) => f = g

\* As long as its port was never stopped: a port has at most one session that
\* has not come to its onStop, is busy exactly while it has one, keeps no
\* backend waiting meanwhile, and loses no kept backend.
OrderlyUntilStopped ==
    \A p \in Ports \ stopped :
        /\ \A f, g \in Conns : /\ Unfinished(f) /\ Unfinished(g)
                               /\ sess[f].port = p /\ sess[g].port = p
                               => f = g
        /\ busy[p] <=> \E f \in Conns : Unfinished(f) /\ sess[f].port = p
        /\ busy[p] => pendingBE[p] = NoConn
        /\ stopped = {} => \A c \in Conns : conn[c] # "lost"

\* The loop of a listener that is closed gets an error from Accept.
ClosedAcceptFails(l) == AcceptFails(l) /\ listener[loop[l].port] # l

\* An accept loop whose listener StopPort has closed comes to its end, whether
\* it was accepting, waiting for a hello or placing a connection, and although
\* another loop may serve its port by now; only onStateChange may hold it up.
OldLoopsEnd ==
    \A l \in Loops :
        loop[l] # Free /\ listener[loop[l].port] # l ~> loop[l].st \in {"free", "report"}
=============================================================================
