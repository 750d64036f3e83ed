--------------------------- MODULE Sessions_proofs ---------------------------
(* Proofs about the two generations of sessions: PipeSession of V1 and Session  *)
(* of V4, both for sessions whose peers and callers do whatever they like.      *)
EXTENDS MCSessions, TLAPS

-----------------------------------------------------------------------------
(* V1: PipeSession.                                                         *)

\* Until Stop closes the connections they are open, and nothing is kept.
OpenInv == once \in {"no", "marked"} => ~keepBE /\ \A c \in Conns : ~local[c]

\* Where an error was met.
Culprit(c) == IF c.op = "read" THEN Src(c.dir) ELSE Dst(c.dir)

\* An end of file that was recorded is a peer's, until Stop has looked at the
\* cause: only a connection that Stop closed fails with "closed".
CauseInv ==
    cause # NoCause =>
        /\ cause.err = "left" => peer[Culprit(cause)] = "left"
        /\ once \in {"no", "marked"} => cause.err # "closed"

ClosedInv == once \in {"closed", "done"} => local["FE"] /\ local["BE"] = ~keepBE

\* The buffers stay empty and closed after Stop, whoever still uses them.
FlushedInv ==
    once = "done" => \A d \in Dirs : buf[d].n = 0 /\ buf[d].closed /\ buf[d].writeClosed

CloserInv ==
    /\ closer # "wait" => AllReturned
    /\ closer = "done" => once = "done"

SessionInv ==
    /\ TypeOK
    /\ OpenInv /\ CauseInv /\ ClosedInv /\ FlushedInv /\ CloserInv
    /\ KeptOnlyIfFELeft

LEMMA StartInv == Start => SessionInv
<1> SUFFICES ASSUME Start
             PROVE  SessionInv
  OBVIOUS
<1>1. TypeOK
  <2>1. [n |-> 0, writeClosed |-> FALSE, closed |-> FALSE] \in [n : 0 .. BufMax, writeClosed : BOOLEAN, closed : BOOLEAN]
    BY BufMaxAssumption
  <2>2. buf \in [Dirs -> [n : 0 .. BufMax, writeClosed : BOOLEAN, closed : BOOLEAN]]
    BY <2>1 DEF Start
  <2> QED
    BY <2>2 DEF Start, TypeOK
<1>2. OpenInv /\ CauseInv /\ ClosedInv /\ FlushedInv /\ CloserInv /\ KeptOnlyIfFELeft
  BY DEF Start, OpenInv, CauseInv, ClosedInv, FlushedInv, CloserInv, KeptOnlyIfFELeft
<1> QED
  BY <1>1, <1>2 DEF SessionInv

LEMMA PeerEndsStep ==
    ASSUME SessionInv, NEW c \in Conns, NEW how \in {"left", "lost"}, PeerEnds(c, how)
    PROVE  SessionInv'
  BY DEF PeerEnds, SessionInv, TypeOK, OpenInv, CauseInv, ClosedInv, FlushedInv,
         CloserInv, KeptOnlyIfFELeft, AllReturned, NoCause, Culprit, Src, Dst, Conns, Dirs

\* What a goroutine records: an error of a connection of its own direction.
LEMMA RecordKeeps ==
    ASSUME SessionInv, NEW d \in Dirs, NEW op \in {"read", "write"},
           Fails(IF op = "read" THEN Src(d) ELSE Dst(d)),
           recordCause(d, op, ErrorOf(IF op = "read" THEN Src(d) ELSE Dst(d))),
           UNCHANGED <<peer, local, once>>
    PROVE  /\ cause' \in [dir : Dirs, op : {"read", "write"}, err : {"left", "lost", "closed"}] \cup {NoCause}
           /\ CauseInv'
<1> DEFINE c == IF op = "read" THEN Src(d) ELSE Dst(d)
<1>1. c \in Conns /\ ErrorOf(c) \in {"left", "lost", "closed"}
  BY DEF Src, Dst, Conns, Dirs, Fails, ErrorOf, SessionInv, TypeOK
<1>2. CASE cause # NoCause
  BY <1>2 DEF recordCause, SessionInv, TypeOK, CauseInv, Culprit
<1>3. CASE cause = NoCause
  <2>1. cause' = [dir |-> d, op |-> op, err |-> ErrorOf(c)]
    BY <1>3 DEF recordCause
  <2>2. Culprit(cause') = c
    BY <2>1 DEF Culprit
  <2>3. ErrorOf(c) = "left" => peer[c] = "left"
    BY DEF ErrorOf
  <2>4. once \in {"no", "marked"} => ErrorOf(c) # "closed"
    BY <1>1 DEF ErrorOf, SessionInv, OpenInv, TypeOK
  <2> QED
    BY <1>1, <2>1, <2>2, <2>3, <2>4 DEF CauseInv, Culprit
<1> QED
  BY <1>2, <1>3

LEMMA CopyLoopStep ==
    ASSUME SessionInv, NEW d \in Dirs, CopyLoop(d)
    PROVE  SessionInv'
<1> USE DEF SessionInv, OpenInv, ClosedInv, FlushedInv, CloserInv, KeptOnlyIfFELeft, AllReturned
<1>1. CASE ReadPiece(d) \/ ReadTimeout(d)
  BY <1>1, SMTT(30) DEF ReadPiece, ReadTimeout, TypeOK, CauseInv, Culprit
<1>2. CASE WritePiece(d)
  BY <1>2 DEF WritePiece, TypeOK, CauseInv, Culprit
<1>3. CASE ReadError(d)
  <2>1. CauseInv' /\ cause' \in [dir : Dirs, op : {"read", "write"}, err : {"left", "lost", "closed"}] \cup {NoCause}
    BY <1>3, RecordKeeps DEF ReadError
  <2> QED
    BY <1>3, <2>1 DEF ReadError, TypeOK
<1>4. CASE WriteError(d)
  <2>1. CauseInv' /\ cause' \in [dir : Dirs, op : {"read", "write"}, err : {"left", "lost", "closed"}] \cup {NoCause}
    BY <1>4, RecordKeeps DEF WriteError
  <2> QED
    BY <1>4, <2>1 DEF WriteError, TypeOK
<1>5. CASE PutPiece(d)
  BY <1>5, BufMaxAssumption DEF PutPiece, Room, TypeOK, CauseInv, Culprit
<1>6. CASE GetPiece(d)
  <2> DEFINE B == [n : 0 .. BufMax, writeClosed : BOOLEAN, closed : BOOLEAN]
  <2>1. /\ once = "done" => buf' = buf
        /\ UNCHANGED <<peer, local, reader, cause, once, keepBE, closer>>
    BY <1>6 DEF GetPiece, TypeOK
  <2>2. buf' \in [Dirs -> B]
    BY <1>6, BufMaxAssumption DEF GetPiece, TypeOK
  <2>3. /\ writer' \in [Dirs -> {"get", "write", "stop", "done"}]
        /\ writer[d] = "get"
        /\ \A e \in Dirs : e # d => writer'[e] = writer[e]
    BY <1>6 DEF GetPiece, TypeOK
  <2>4. TypeOK'
    BY <2>1, <2>2, <2>3 DEF TypeOK
  <2>5. FlushedInv'
    BY <2>1
  <2>6. CauseInv' /\ OpenInv' /\ ClosedInv' /\ KeptOnlyIfFELeft'
    BY <2>1 DEF CauseInv, Culprit
  <2>7. CloserInv'
    BY <2>1, <2>3
  <2> QED
    BY <2>4, <2>5, <2>6, <2>7
<1>7. CASE ReaderLeaves(d)
  <2> DEFINE B == [n : 0 .. BufMax, writeClosed : BOOLEAN, closed : BOOLEAN]
  <2>1. /\ reader' = [reader EXCEPT ![d] = "done"]
        /\ UNCHANGED <<peer, local, writer, cause, once, keepBE, closer>>
    BY <1>7 DEF ReaderLeaves
  <2>2. /\ buf' \in [Dirs -> B]
        /\ buf'[d].n = buf[d].n /\ buf'[d].closed = buf[d].closed /\ buf'[d].writeClosed
        /\ \A e \in Dirs : e # d => buf'[e] = buf[e]
    BY <1>7 DEF ReaderLeaves, TypeOK
  <2>3. TypeOK'
    BY <2>1, <2>2 DEF TypeOK
  <2>4. FlushedInv'
    BY <2>1, <2>2
  <2>5. CauseInv' /\ OpenInv' /\ ClosedInv' /\ KeptOnlyIfFELeft'
    BY <2>1 DEF CauseInv, Culprit
  <2>6. CloserInv'
    BY <2>1 DEF TypeOK
  <2> QED
    BY <2>3, <2>4, <2>5, <2>6
<1>8. CASE WriterLeaves(d)
  <2>1. /\ once = "done" /\ writer' = [writer EXCEPT ![d] = "done"]
        /\ UNCHANGED <<peer, local, reader, cause, once, keepBE, closer>>
    BY <1>8 DEF WriterLeaves
  <2> DEFINE B == [n : 0 .. BufMax, writeClosed : BOOLEAN, closed : BOOLEAN]
  <2>2. PICK emptied \in [Dirs -> B] :
            /\ buf' = [emptied EXCEPT ![d].closed = TRUE]
            /\ emptied[d].n = 0 /\ emptied[d].writeClosed = buf[d].writeClosed
            /\ \A e \in Dirs : e # d => emptied[e] = buf[e]
    <3>1. buf \in [Dirs -> B] /\ 0 \in 0 .. BufMax
      BY BufMaxAssumption DEF TypeOK
    <3>2. PICK emptied : emptied = [buf EXCEPT ![d].n = 0]
      OBVIOUS
    <3>3. emptied \in [Dirs -> B] /\ emptied[d].n = 0 /\ emptied[d].writeClosed = buf[d].writeClosed
          /\ \A e \in Dirs : e # d => emptied[e] = buf[e]
      BY <3>1, <3>2
    <3>4. buf' = [emptied EXCEPT ![d].closed = TRUE]
      BY <1>8, <3>1, <3>2 DEF WriterLeaves
    <3> QED
      BY <3>3, <3>4
  <2>3. /\ buf' \in [Dirs -> B]
        /\ buf'[d].n = 0 /\ buf'[d].closed /\ buf'[d].writeClosed = buf[d].writeClosed
        /\ \A e \in Dirs : e # d => buf'[e] = buf[e]
    BY <2>2
  <2>4. TypeOK'
    BY <2>1, <2>3 DEF TypeOK
  <2>5. FlushedInv'
    BY <2>1, <2>3
  <2>6. CauseInv' /\ OpenInv' /\ ClosedInv' /\ CloserInv' /\ KeptOnlyIfFELeft'
    BY <2>1 DEF TypeOK, CauseInv, Culprit
  <2> QED
    BY <2>4, <2>5, <2>6
<1> QED
  BY <1>1, <1>2, <1>3, <1>4, <1>5, <1>6, <1>7, <1>8 DEF CopyLoop

LEMMA StopStep ==
    ASSUME SessionInv, StopBegin \/ StopClose \/ StopFlush \/ CloserStops \/ OnStop
    PROVE  SessionInv'
<1> USE DEF SessionInv, TypeOK, OpenInv, CauseInv, Culprit, ClosedInv, FlushedInv, CloserInv, AllReturned
<1>1. CASE StopBegin
  BY <1>1 DEF StopBegin, KeptOnlyIfFELeft
<1>2. CASE StopClose
  <2>1. shouldKeepBE(cause) => peer["FE"] = "left"
    <3> SUFFICES ASSUME shouldKeepBE(cause)
                 PROVE  peer["FE"] = "left"
      OBVIOUS
    <3>1. \/ cause.dir = "FE->BE" /\ cause.op = "read"
          \/ cause.dir = "BE->FE" /\ cause.op = "write"
      BY DEF shouldKeepBE
    <3>2. cause # NoCause
      <4>1. NoCause.dir = ""
        BY DEF NoCause
      <4> QED
        BY <3>1, <4>1
    <3>3. Culprit(cause) = "FE"
      <4>1. CASE cause.dir = "FE->BE" /\ cause.op = "read"
        BY <4>1 DEF Src
      <4>2. CASE cause.dir = "BE->FE" /\ cause.op = "write"
        BY <4>2 DEF Dst
      <4> QED
        BY <3>1, <4>1, <4>2
    <3>4. cause.err = "left"
      BY <1>2, <3>2 DEF StopClose, shouldKeepBE, isLikelyFEClosed
    <3> QED
      BY <3>2, <3>3, <3>4
  <2>2. shouldKeepBE(cause) \in BOOLEAN
    BY DEF shouldKeepBE
  <2> QED
    BY <1>2, <2>1, <2>2 DEF StopClose, KeptOnlyIfFELeft, Conns
<1>3. CASE StopFlush
  BY <1>3, BufMaxAssumption DEF StopFlush, KeptOnlyIfFELeft
<1>4. CASE CloserStops
  BY <1>4 DEF CloserStops, KeptOnlyIfFELeft
<1>5. CASE OnStop
  BY <1>5 DEF OnStop, KeptOnlyIfFELeft
<1> QED
  BY <1>1, <1>2, <1>3, <1>4, <1>5

LEMMA SessionInvHolds == Spec => []SessionInv
<1>1. SessionInv /\ [Next]_vars => SessionInv'
  <2> SUFFICES ASSUME SessionInv, [Next]_vars
               PROVE  SessionInv'
    OBVIOUS
  <2>1. CASE UNCHANGED vars
    BY <2>1 DEF vars, SessionInv, TypeOK, OpenInv, CauseInv, Culprit, ClosedInv, FlushedInv,
                CloserInv, AllReturned, KeptOnlyIfFELeft
  <2> QED
    BY <2>1, PeerEndsStep, CopyLoopStep, StopStep DEF Next
<1> QED
  BY <1>1, StartInv, PTL DEF Spec

\* The backend is kept for the next frontend only if the frontend really left;
\* errors that Stop provokes itself do not count (shouldKeepBE, Stop).
THEOREM KeptBackendFrontendLeft == Spec => []KeptOnlyIfFELeft
<1>1. SessionInv => KeptOnlyIfFELeft
  BY DEF SessionInv
<1> QED
  BY <1>1, SessionInvHolds, PTL

\* When onStop runs all goroutines of the session have returned, its buffers
\* are empty, and the backend is closed or kept (Start, Stop).
THEOREM OnStopFindsQuiet == Spec => []HandedOverQuiet
<1>1. SessionInv => HandedOverQuiet
  BY DEF SessionInv, HandedOverQuiet, CloserInv, ClosedInv, FlushedInv, AllReturned
<1> QED
  BY <1>1, SessionInvHolds, PTL

-----------------------------------------------------------------------------
(* V4: Session.                                                             *)

\* A session ends only because a peer left, was silent for more than 6 s, or the
\* gateway shuts down (pipe, checkHeartbeats, Stop).
THEOREM SessionsEndForCause == V4!Spec => []EndedForCause
<1> USE DEF EndedForCause, V4!EndedForCause, V4!HasCause, V4!TypeOK, V4!Sides
<1>1. V4!Init => EndedForCause
  BY DEF V4!Init
<1>2. EndedForCause /\ [V4!Next]_V4!vars => EndedForCause'
  <2> SUFFICES ASSUME EndedForCause, [V4!Next]_V4!vars
               PROVE  EndedForCause'
    OBVIOUS
  <2>1. ASSUME NEW x \in V4!Sides, V4!Pipe(x)
        PROVE  EndedForCause'
    <3>1. CASE V4!Check(x)
      BY <3>1 DEF V4!Check, V4!Leaves
    <3>2. CASE V4!ReadData(x) \/ V4!ReadTimeout(x) \/ V4!Write(x)
      <4>1. /\ old' \subseteq V4!Sides
            /\ UNCHANGED <<closed, sup, condemned, ends, mgr>>
        BY <3>2 DEF V4!ReadData, V4!ReadTimeout, V4!Write
      <4>2. PICK where \in {"check", "write"} : pc' = [pc EXCEPT ![x] = where]
        BY <3>2 DEF V4!ReadData, V4!ReadTimeout, V4!Write
      <4> QED
        BY <4>1, <4>2
    <3>3. CASE V4!ReadFails(x)
      BY <3>3 DEF V4!ReadFails, V4!FailStops
    <3>4. CASE V4!WriteFails(x)
      <4>1. V4!Other(x) \in V4!Sides
        BY DEF V4!Other
      <4> QED
        BY <3>4, <4>1 DEF V4!WriteFails, V4!FailStops
    <3> QED
      BY <2>1, <3>1, <3>2, <3>3, <3>4 DEF V4!Pipe
  <2>2. ASSUME NEW x \in V4!Sides, V4!Silence(x) \/ V4!PeerChanges(x)
        PROVE  EndedForCause'
    <3>1. CASE V4!Silence(x)
      BY <2>2, <3>1 DEF V4!Silence
    <3>2. CASE V4!PeerChanges(x)
      <4>1. PICK st \in {"up", "stalled", "left"} : ends' = [ends EXCEPT ![x] = st]
        BY <2>2, <3>2 DEF V4!PeerChanges
      <4>2. ends[x] # "left" /\ UNCHANGED <<pc, closed, sup, old, condemned, mgr>>
        BY <2>2, <3>2 DEF V4!PeerChanges
      <4> QED
        BY <2>2, <4>1, <4>2
    <3> QED
      BY <2>2, <3>1, <3>2
  <2>3. CASE V4!Supervise \/ V4!CallOnStop
    BY <2>3 DEF V4!Supervise, V4!BothReturned, V4!DeferredStop, V4!CallOnStop
  <2>4. CASE V4!HeartbeatFinds \/ V4!HeartbeatStops
    BY <2>4 DEF V4!HeartbeatFinds, V4!HeartbeatStops
  <2>5. CASE V4!Cancel \/ V4!StopAll
    BY <2>5 DEF V4!Cancel, V4!StopAll
  <2>6. CASE UNCHANGED V4!vars
    BY <2>6 DEF V4!vars
  <2> QED
    BY <2>1, <2>2, <2>3, <2>4, <2>5, <2>6 DEF V4!Next
<1> QED
  BY <1>1, <1>2, PTL DEF V4!Spec
=============================================================================
