---------------------------- MODULE PipeSession ----------------------------
(***************************************************************************)
(* PipeSession of v1/relay/pipe.go (v2 and v3 keep copies): per direction  *)
(* a goroutine that reads one connection into a RingBuffer and one that    *)
(* writes the buffer to the other connection; Stop, which runs once; and   *)
(* the goroutine of Start that calls onStop when the four have returned.   *)
(* A buffer is what module ByteStream promises, reduced to the number of   *)
(* pieces it holds.                                                        *)
(***************************************************************************)
EXTENDS Naturals

CONSTANT BufMax     \* pieces a buffer takes before Write waits

ASSUME BufMaxAssumption == BufMax \in Nat \ {0}

VARIABLES
    peer,       \* connection -> the far end: "up"; "left" (closed) or "lost",
                \* once all it sent has been read
    local,      \* connection -> closed by Stop
    reader,     \* direction -> goroutine src to buffer
    writer,     \* direction -> goroutine buffer to dst
    buf,        \* direction -> [n, writeClosed, closed]
    cause,      \* what recordCause keeps: direction, operation and error
    once,       \* closeOnce: "no", then the steps of Stop, then "done"
    keepBE,
    closer      \* the goroutine of Start: "wait", "stop", "done"

vars == <<peer, local, reader, writer, buf, cause, once, keepBE, closer>>

Conns == {"FE", "BE"}
Dirs == {"FE->BE", "BE->FE"}
Src(d) == IF d = "FE->BE" THEN "FE" ELSE "BE"
Dst(d) == IF d = "FE->BE" THEN "BE" ELSE "FE"
NoCause == [dir |-> "", op |-> "", err |-> ""]

Start ==
    /\ peer = [c \in Conns |-> "up"]
    /\ local = [c \in Conns |-> FALSE]
    /\ reader = [d \in Dirs |-> "read"]
    /\ writer = [d \in Dirs |-> "get"]
    /\ buf = [d \in Dirs |-> [n |-> 0, writeClosed |-> FALSE, closed |-> FALSE]]
    /\ cause = NoCause
    /\ once = "no" /\ keepBE = FALSE
    /\ closer = "wait"

\* The far end closes its connection, or the network loses it.
PeerEnds(c, how) ==
    /\ peer[c] = "up"
    /\ peer' = [peer EXCEPT ![c] = how]
    /\ UNCHANGED <<local, reader, writer, buf, cause, once, keepBE, closer>>

stopping == once # "no"

Fails(c) == local[c] \/ peer[c] # "up"
ErrorOf(c) == IF local[c] THEN "closed" ELSE peer[c]

recordCause(d, op, err) ==
    cause' = IF cause = NoCause THEN [dir |-> d, op |-> op, err |-> err] ELSE cause

-----------------------------------------------------------------------------
(* The reading goroutine of copyLoop.                                       *)
ReadPiece(d) ==
    /\ reader[d] = "read" /\ ~Fails(Src(d))
    /\ reader' = [reader EXCEPT ![d] = "put"]
    /\ UNCHANGED <<peer, local, writer, buf, cause, once, keepBE, closer>>

ReadError(d) ==
    /\ reader[d] = "read" /\ Fails(Src(d))
    /\ recordCause(d, "read", ErrorOf(Src(d)))
    /\ reader' = [reader EXCEPT ![d] = "stop"]
    /\ UNCHANGED <<peer, local, writer, buf, once, keepBE, closer>>

Room(d) == buf[d].n < BufMax

\* rb.Write waits while the buffer is full; afterwards stopping is looked at.
PutPiece(d) ==
    LET shut == buf[d].closed \/ buf[d].writeClosed IN
    /\ reader[d] = "put"
    /\ \/ /\ shut
          /\ reader' = [reader EXCEPT ![d] = "stop"]
          /\ UNCHANGED buf
       \/ /\ ~shut /\ Room(d)
          /\ buf' = [buf EXCEPT ![d].n = @ + 1]
          /\ reader' = [reader EXCEPT ![d] = IF stopping THEN "leave" ELSE "read"]
    /\ UNCHANGED <<peer, local, writer, cause, once, keepBE, closer>>

\* Faulty variant: a time-out is followed by another Read without a look at
\* stopping.
ReadTimeoutBlind(d) == FALSE /\ PutPiece(d)

\* The 250 ms read deadline passes while Stop is under way or over.
ReadTimeout(d) ==
    /\ reader[d] = "read" /\ stopping
    /\ reader' = [reader EXCEPT ![d] = "leave"]
    /\ UNCHANGED <<peer, local, writer, buf, cause, once, keepBE, closer>>

\* s.Stop() returns when the one that runs is done; then CloseWrite.
ReaderLeaves(d) ==
    /\ reader[d] = "leave" \/ (reader[d] = "stop" /\ once = "done")
    /\ reader' = [reader EXCEPT ![d] = "done"]
    /\ buf' = [buf EXCEPT ![d].writeClosed = TRUE]
    /\ UNCHANGED <<peer, local, writer, cause, once, keepBE, closer>>

-----------------------------------------------------------------------------
(* The writing goroutine of copyLoop.                                       *)
GetPiece(d) ==
    /\ writer[d] = "get"
    /\ \/ /\ buf[d].n > 0
          /\ buf' = [buf EXCEPT ![d].n = @ - 1]
          /\ writer' = [writer EXCEPT ![d] = "write"]
       \/ /\ buf[d].n = 0 /\ (buf[d].closed \/ buf[d].writeClosed)
          /\ writer' = [writer EXCEPT ![d] = "stop"]
          /\ UNCHANGED buf
    /\ UNCHANGED <<peer, local, reader, cause, once, keepBE, closer>>

\* dst.Write has no deadline: it returns when the far end takes the bytes...
WritePiece(d) ==
    /\ writer[d] = "write" /\ ~local[Dst(d)]
    /\ writer' = [writer EXCEPT ![d] = "get"]
    /\ UNCHANGED <<peer, local, reader, buf, cause, once, keepBE, closer>>

\* ... or the connection fails or is closed.
WriteError(d) ==
    /\ writer[d] = "write" /\ Fails(Dst(d))
    /\ recordCause(d, "write", ErrorOf(Dst(d)))
    /\ writer' = [writer EXCEPT ![d] = "stop"]
    /\ UNCHANGED <<peer, local, reader, buf, once, keepBE, closer>>

WriterLeaves(d) ==
    /\ writer[d] = "stop" /\ once = "done"
    /\ writer' = [writer EXCEPT ![d] = "done"]
    /\ buf' = [buf EXCEPT ![d].n = 0, ![d].closed = TRUE]
    /\ UNCHANGED <<peer, local, reader, cause, once, keepBE, closer>>

-----------------------------------------------------------------------------
(* Stop, in the goroutine whose call came first, or in one of the server's: *)
(* StopPort, or the reaper.                                                 *)
StopBegin ==
    /\ once = "no"
    /\ once' = "marked"
    /\ UNCHANGED <<peer, local, reader, writer, buf, cause, keepBE, closer>>

Wanted == closer = "stop" \/ \E d \in Dirs : "stop" \in {reader[d], writer[d]}

isLikelyFEClosed(err) == err \in {"left", "closed"}

\* Faulty variant: any end of file keeps the backend, the backend's own too.
shouldKeepAny(c) == isLikelyFEClosed(c.err)

shouldKeepBE(c) ==
    /\ <<c.dir, c.op>> \in {<<"FE->BE", "read">>, <<"BE->FE", "write">>}
    /\ isLikelyFEClosed(c.err)

StopClose ==
    /\ once = "marked"
    /\ keepBE' = shouldKeepBE(cause)
    /\ local' = [c \in Conns |-> c = "FE" \/ ~keepBE']
    /\ once' = "closed"
    /\ UNCHANGED <<peer, reader, writer, buf, cause, closer>>

\* Flush, CloseWrite and Close of both buffers.
StopFlush ==
    /\ once = "closed"
    /\ buf' = [d \in Dirs |-> [n |-> 0, writeClosed |-> TRUE, closed |-> TRUE]]
    /\ once' = "done"
    /\ UNCHANGED <<peer, local, reader, writer, cause, keepBE, closer>>

\* Faulty variant: onStop does not wait for the writing goroutines.
AllReturnedEarly == \A d \in Dirs : reader[d] = "done"

AllReturned == \A d \in Dirs : reader[d] = "done" /\ writer[d] = "done"

\* wg.Wait, then Stop, then onStop.
CloserStops ==
    /\ closer = "wait" /\ AllReturned
    /\ closer' = "stop"
    /\ UNCHANGED <<peer, local, reader, writer, buf, cause, once, keepBE>>

OnStop ==
    /\ closer = "stop" /\ once = "done"
    /\ closer' = "done"
    /\ UNCHANGED <<peer, local, reader, writer, buf, cause, once, keepBE>>

-----------------------------------------------------------------------------
CopyLoop(d) ==
    \/ ReadPiece(d) \/ ReadError(d) \/ PutPiece(d) \/ ReadTimeout(d) \/ ReaderLeaves(d)
    \/ GetPiece(d) \/ WritePiece(d) \/ WriteError(d) \/ WriterLeaves(d)

Next ==
    \/ \E c \in Conns, how \in {"left", "lost"} : PeerEnds(c, how)
    \/ \E d \in Dirs : CopyLoop(d)
    \/ StopBegin \/ StopClose \/ StopFlush \/ CloserStops \/ OnStop

Spec == Start /\ [][Next]_vars

\* Goroutines are scheduled; a Read comes back with an error, or at its
\* deadline; a Write on a broken or closed connection fails.  A far end that
\* stays owes nothing: no fairness on ReadPiece and WritePiece, and none on a
\* Stop from outside.
Fairness ==
    /\ \A d \in Dirs :
           /\ WF_vars(ReadError(d)) /\ WF_vars(ReadTimeout(d)) /\ WF_vars(PutPiece(d))
           /\ WF_vars(ReaderLeaves(d)) /\ WF_vars(WriterLeaves(d))
           /\ WF_vars(GetPiece(d)) /\ WF_vars(WriteError(d))
    /\ WF_vars(Wanted /\ StopBegin)
    /\ WF_vars(StopClose) /\ WF_vars(StopFlush) /\ WF_vars(CloserStops) /\ WF_vars(OnStop)

FairSpec == Spec /\ Fairness

-----------------------------------------------------------------------------
\* Type invariant of a session.
TypeOK ==
    /\ peer \in [Conns -> {"up", "left", "lost"}]
    /\ local \in [Conns -> BOOLEAN]
    /\ reader \in [Dirs -> {"read", "put", "stop", "leave", "done"}]
    /\ writer \in [Dirs -> {"get", "write", "stop", "done"}]
    /\ buf \in [Dirs -> [n : 0 .. BufMax, writeClosed : BOOLEAN, closed : BOOLEAN]]
    /\ cause \in [dir : Dirs, op : {"read", "write"}, err : {"left", "lost", "closed"}] \cup {NoCause}
    /\ once \in {"no", "marked", "closed", "done"}
    /\ keepBE \in BOOLEAN
    /\ closer \in {"wait", "stop", "done"}

\* The backend's connection is kept for another frontend only if the frontend
\* really left: the errors that Stop itself provokes by closing the
\* connections, and the backend's own departure, never count as that.
KeptOnlyIfFELeft == keepBE => peer["FE"] = "left"

\* When onStop runs nobody of the session will touch the kept backend again,
\* the frontend is closed, and the backend is closed or handed on.
HandedOverQuiet ==
    /\ TypeOK
    /\ closer = "done" =>
        /\ local["FE"] /\ local["BE"] = ~keepBE
        /\ \A d \in Dirs : reader[d] = "done" /\ writer[d] = "done" /\ buf[d].n = 0

\* Stop leads to onStop, so the port becomes free, but for one case: the
\* backend is kept and the goroutine that writes to it is stuck in a Write the
\* backend does not take.
StopEndsOrStalls ==
    stopping ~> (closer = "done" \/ [](keepBE /\ writer["FE->BE"] = "write"))
=============================================================================
