--------------------------- MODULE PortSlot_proofs ---------------------------
(***************************************************************************)
(* The slot of the V3 relay has one session, lets nobody wait in vain and  *)
(* keeps datagrams within a pair, for any connections and addresses.  TCP  *)
(* and UDP share the slot but no variable, so each half has its invariant. *)
(***************************************************************************)
EXTENDS PortSlot, TLAPS

TcpTypes ==
    /\ loop \in [st : {"accept", "hello", "place"}, conn : Conns \cup {None}, role : {"", "FE", "BE"}]
    /\ conn \in [Conns -> {"free", "loop", "pending", "session", "lost"}]
    /\ gone \in [Conns -> {"", "eof", "reset"}]
    /\ pendingBE \in Conns \cup {None} /\ pendingFE \in Conns \cup {None}
    /\ tcpSession \in Conns \cup {None}
    /\ tcpBusy \in BOOLEAN /\ resets \in BOOLEAN
    /\ sess \in [Conns -> [be : Conns, st : {"run", "stop"}, keep : BOOLEAN] \cup {NoSession}]

\* The accept loop holds a connection while it reads a hello or places it, and
\* the slot cannot become busy between its two sections: only it pairs.
LoopInv ==
    /\ loop.st # "accept" => loop.conn \in Conns
    /\ loop.st = "place" => ~tcpBusy /\ loop.role # ""

\* A session that the slot does not name was overtaken by a reset.
NamedInv ==
    /\ tcpBusy <=> tcpSession # None
    /\ \A f \in Conns : sess[f].st = "run" => tcpSession = f
    /\ \A f \in Conns : sess[f].st # "none" /\ tcpSession # f => resets

LostInv == (\E c \in Conns : conn[c] = "lost") => resets

TcpInv == TcpTypes /\ LoopInv /\ NamedInv /\ LostInv /\ NobodyWaitsInVain

UdpInv ==
    /\ udpA \in Addrs \cup {None} /\ udpB \in Addrs \cup {None}
    /\ idle \subseteq {udpA, udpB} \ {None}
    /\ udp \in [src : Addrs \cup {None}, dst : Addrs \cup {None}, old : BOOLEAN]
    /\ UdpPaired

IndInv == TcpInv /\ UdpInv

LEMMA IndInvImplies == IndInv => OneSession /\ NobodyWaitsInVain /\ UdpPaired
  BY DEF IndInv, TcpInv, TcpTypes, NamedInv, LostInv, UdpInv, OneSession, TypeOK

LEMMA InitInv == Init => IndInv
<1> SUFFICES ASSUME Init PROVE IndInv
  OBVIOUS
<1>1. TcpTypes
  BY DEF Init, TcpTypes, Accepting
<1>2. LoopInv /\ NamedInv /\ LostInv /\ NobodyWaitsInVain
  BY DEF Init, LoopInv, NamedInv, LostInv, NobodyWaitsInVain, Accepting, NoSession
<1>3. UdpInv
  BY DEF Init, UdpInv, UdpPaired, NoDatagram
<1> QED
  BY <1>1, <1>2, <1>3 DEF IndInv, TcpInv

\* Closing or moving connections loses none.
LEMMA MovedTyped ==
    ASSUME TcpTypes, NEW C, NEW where \in {"free", "loop", "pending", "session"}
    PROVE  /\ Moved(C, where) \in [Conns -> {"free", "loop", "pending", "session", "lost"}]
           /\ \A c \in Conns : Moved(C, where)[c] = "lost" => conn[c] = "lost"
  BY DEF TcpTypes, Moved

\* ... so a step that does no more to them keeps their types and LostInv.
LEMMA MovedKeeps ==
    ASSUME TcpInv, resets' \in {TRUE, resets},
           \E C : \E where \in {"free", "loop", "pending", "session"} : conn' = Moved(C, where)
    PROVE  conn' \in [Conns -> {"free", "loop", "pending", "session", "lost"}] /\ LostInv'
<1>1. PICK C : \E where \in {"free", "loop", "pending", "session"} : conn' = Moved(C, where)
  OBVIOUS
<1>2. PICK where \in {"free", "loop", "pending", "session"} : conn' = Moved(C, where)
  BY <1>1
<1>3. /\ conn' \in [Conns -> {"free", "loop", "pending", "session", "lost"}]
      /\ \A c \in Conns : conn'[c] = "lost" => conn[c] = "lost"
  BY <1>2, MovedTyped DEF TcpInv
<1> QED
  BY <1>3 DEF TcpInv, LostInv

-----------------------------------------------------------------------------
(* TCP.                                                                     *)
LEMMA AcceptStep ==
    ASSUME TcpInv, NEW c \in Conns, Accept(c)
    PROVE  TcpInv'
<1>1. conn' \in [Conns -> {"free", "loop", "pending", "session", "lost"}] /\ LostInv'
  BY MovedKeeps DEF Accept
<1>2. TcpTypes'
  BY <1>1 DEF Accept, TcpInv, TcpTypes
<1>3. LoopInv' /\ NamedInv' /\ NobodyWaitsInVain'
  BY DEF Accept, TcpInv, TcpTypes, LoopInv, NamedInv, NobodyWaitsInVain
<1> QED
  BY <1>1, <1>2, <1>3 DEF TcpInv

LEMMA TurnAwayStep ==
    ASSUME TcpInv, TurnAway
    PROVE  TcpInv'
<1>1. conn' \in [Conns -> {"free", "loop", "pending", "session", "lost"}] /\ LostInv'
  BY MovedKeeps DEF TurnAway, Closed
<1>2. TcpTypes'
  BY <1>1 DEF TurnAway, TcpInv, TcpTypes, Accepting
<1>3. LoopInv' /\ NamedInv' /\ NobodyWaitsInVain'
  BY DEF TurnAway, TcpInv, LoopInv, NamedInv, NobodyWaitsInVain, Accepting
<1> QED
  BY <1>1, <1>2, <1>3 DEF TcpInv

LEMMA HelloStep ==
    ASSUME TcpInv, NEW role \in {"", "FE", "BE"}, Hello(role)
    PROVE  TcpInv'
<1>1. CASE TurnAway
  BY <1>1, TurnAwayStep
<1>2. CASE ~TurnAway
  <2>1. /\ ~tcpBusy /\ loop.st = "hello"
        /\ loop' = [loop EXCEPT !.st = "place", !.role = Guess(role)]
        /\ UNCHANGED <<conn, gone, pendingBE, pendingFE, tcpBusy, tcpSession, sess, resets>>
    BY <1>2 DEF Hello
  <2>2. Guess(role) \in {"FE", "BE"}
    BY DEF Guess
  <2>3. TcpTypes' /\ LoopInv'
    BY <2>1, <2>2 DEF TcpInv, TcpTypes, LoopInv
  <2>4. NamedInv' /\ LostInv' /\ NobodyWaitsInVain'
    BY <2>1 DEF TcpInv, NamedInv, LostInv, NobodyWaitsInVain
  <2> QED
    BY <2>3, <2>4 DEF TcpInv
<1> QED
  BY <1>1, <1>2

LEMMA PlaceStep ==
    ASSUME TcpInv, Place
    PROVE  TcpInv'
<1>1. CASE TurnAway
  BY <1>1, TurnAwayStep
<1>2. CASE ~TurnAway
  <2>1. /\ loop.conn \in Conns /\ ~tcpBusy /\ loop.role \in {"FE", "BE"} /\ tcpSession = None
        /\ loop' = Accepting /\ UNCHANGED <<gone, resets>>
        /\ loop.role = "BE" => pendingBE = None
        /\ loop.role = "FE" => pendingFE = None
    BY <1>2 DEF Place, TcpInv, TcpTypes, LoopInv, NamedInv
  <2>2. CASE Matches
    <3> DEFINE fe == IF loop.role = "BE" THEN pendingFE ELSE loop.conn
    <3> DEFINE be == IF loop.role = "BE" THEN loop.conn ELSE pendingBE
    <3>1. fe \in Conns /\ be \in Conns
      BY <2>1, <2>2 DEF Matches, TcpInv, TcpTypes
    <3>2. Pair(fe, be)
      BY <1>2, <2>2 DEF Place
    <3>3. pendingBE' = None /\ pendingFE' = None
      BY <2>1, <3>1, <3>2, NoneAssumption DEF Pair, TcpInv, TcpTypes
    <3> HIDE DEF fe, be
    <3>4. /\ tcpSession' = fe /\ tcpBusy' = TRUE
          /\ sess' = [sess EXCEPT ![fe] = [be |-> be, st |-> "run", keep |-> FALSE]]
      BY <3>2 DEF Pair
    <3>5. conn' \in [Conns -> {"free", "loop", "pending", "session", "lost"}] /\ LostInv'
      BY <2>1, <3>2, MovedKeeps DEF Pair
    <3>6. TcpTypes'
      BY <2>1, <3>1, <3>3, <3>4, <3>5 DEF TcpInv, TcpTypes, Accepting
    <3>7. LoopInv' /\ NobodyWaitsInVain'
      BY <2>1, <3>3 DEF LoopInv, NobodyWaitsInVain, Accepting
    <3>8. NamedInv'
      <4>1. tcpBusy' <=> tcpSession' # None
        BY <3>1, <3>4, NoneAssumption
      <4>2. ASSUME NEW f \in Conns
            PROVE  /\ sess'[f].st = "run" => tcpSession' = f
                   /\ sess'[f].st # "none" /\ tcpSession' # f => resets'
        <5>1. CASE f = fe
          BY <3>4, <5>1
        <5>2. CASE f # fe
          <6>1. sess'[f] = sess[f] /\ tcpSession # f /\ resets' = resets
            BY <2>1, <3>4, <5>2, NoneAssumption
          <6> QED
            BY <6>1 DEF TcpInv, NamedInv
        <5> QED
          BY <5>1, <5>2
      <4> QED
        BY <4>1, <4>2 DEF NamedInv
    <3> QED
      BY <3>5, <3>6, <3>7, <3>8 DEF TcpInv
  <2>3. CASE ~Matches
    <3>1. Wait
      BY <1>2, <2>3 DEF Place
    <3>2. conn' \in [Conns -> {"free", "loop", "pending", "session", "lost"}] /\ LostInv'
      BY <2>1, <3>1, MovedKeeps DEF Wait
    <3>3. TcpTypes'
      BY <2>1, <3>1, <3>2 DEF Wait, TcpInv, TcpTypes, Accepting
    <3>4. LoopInv' /\ NamedInv'
      BY <2>1, <3>1 DEF Wait, TcpInv, LoopInv, NamedInv, Accepting
    <3>5. NobodyWaitsInVain'
      BY <2>1, <2>3, <3>1 DEF Wait, Matches, NobodyWaitsInVain
    <3> QED
      BY <3>2, <3>3, <3>4, <3>5 DEF TcpInv
  <2> QED
    BY <2>2, <2>3
<1> QED
  BY <1>1, <1>2

LEMMA SessionTyped ==
    ASSUME TcpInv, NEW f \in Conns, sess[f].st # "none"
    PROVE  sess[f] \in [be : Conns, st : {"run", "stop"}, keep : BOOLEAN]
<1>1. sess[f] \in [be : Conns, st : {"run", "stop"}, keep : BOOLEAN] \cup {NoSession}
  BY DEF TcpInv, TcpTypes
<1>2. NoSession.st = "none"
  BY DEF NoSession
<1> QED
  BY <1>1, <1>2

LEMMA SessionStopsStep ==
    ASSUME TcpInv, NEW f \in Conns, NEW keep \in BOOLEAN, SessionStops(f, keep)
    PROVE  TcpInv'
<1>1. conn' \in [Conns -> {"free", "loop", "pending", "session", "lost"}] /\ LostInv'
  BY MovedKeeps DEF SessionStops, Closed
<1>2. sess[f] \in [be : Conns, st : {"run", "stop"}, keep : BOOLEAN]
  BY SessionTyped DEF SessionStops
<1>3. TcpTypes'
  <2>1. [sess[f] EXCEPT !.st = "stop", !.keep = keep] \in [be : Conns, st : {"run", "stop"}, keep : BOOLEAN]
    BY <1>2
  <2>2. sess' \in [Conns -> [be : Conns, st : {"run", "stop"}, keep : BOOLEAN] \cup {NoSession}]
    BY <2>1 DEF SessionStops, TcpInv, TcpTypes
  <2> QED
    BY <1>1, <2>2 DEF SessionStops, TcpInv, TcpTypes
<1>4. LoopInv' /\ NobodyWaitsInVain'
  BY DEF SessionStops, TcpInv, LoopInv, NobodyWaitsInVain
<1>5. NamedInv'
  <2>1. \A g \in Conns : /\ g # f => sess'[g] = sess[g]
                         /\ g = f => sess'[g].st = "stop"
    BY <1>2 DEF SessionStops, TcpInv, TcpTypes
  <2>2. tcpSession = f
    BY DEF SessionStops, TcpInv, NamedInv
  <2> QED
    BY <2>1, <2>2 DEF SessionStops, TcpInv, NamedInv
<1> QED
  BY <1>1, <1>3, <1>4, <1>5 DEF TcpInv

\* A kept backend is lost only by the session of a slot that was reset: while
\* the slot names the session nobody waits there.
LEMMA OnStopStep ==
    ASSUME TcpInv, NEW f \in Conns, OnStop(f)
    PROVE  TcpInv'
<1>1. sess[f] \in [be : Conns, st : {"run", "stop"}, keep : BOOLEAN]
  BY SessionTyped DEF OnStop
<1>2. conn' \in [Conns -> {"free", "loop", "pending", "session", "lost"}]
  BY DEF OnStop, TcpInv, TcpTypes, Moved
<1>3. TcpTypes'
  BY <1>1, <1>2 DEF OnStop, TcpInv, TcpTypes
<1>4. LoopInv'
  BY DEF OnStop, TcpInv, LoopInv
<1>5. NamedInv'
  <2>1. \A g \in Conns : g # f => sess'[g] = sess[g]
    BY DEF OnStop, TcpInv, TcpTypes
  <2>2. sess'[f].st = "none"
    BY DEF OnStop, TcpInv, TcpTypes, NoSession
  <2>3. tcpBusy' <=> tcpSession' # None
    BY NoneAssumption DEF OnStop, IsCurrent, TcpInv, NamedInv
  <2>4. \A g \in Conns : g # f => (tcpSession' = g <=> tcpSession = g)
    BY NoneAssumption DEF OnStop, IsCurrent
  <2> QED
    BY <2>1, <2>2, <2>3, <2>4 DEF OnStop, TcpInv, NamedInv
<1>6. NobodyWaitsInVain'
  <2>1. CASE Repend(f)
    <3>1. tcpBusy /\ pendingFE = None /\ pendingFE' = None /\ ~tcpBusy'
      BY <2>1, NoneAssumption DEF OnStop, Repend, IsCurrent, TcpInv, NamedInv, NobodyWaitsInVain
    <3> QED
      BY <3>1 DEF NobodyWaitsInVain
  <2>2. CASE ~Repend(f)
    BY <2>2 DEF OnStop, TcpInv, NobodyWaitsInVain
  <2> QED
    BY <2>1, <2>2
<1>7. LostInv'
  <2>1. CASE sess[f].keep /\ ~Repend(f)
    <3>1. ~IsCurrent(f)
      BY <2>1, NoneAssumption DEF Repend, IsCurrent, TcpInv, NamedInv, NobodyWaitsInVain
    <3>2. resets
      BY <3>1 DEF OnStop, IsCurrent, TcpInv, NamedInv
    <3> QED
      BY <3>2 DEF OnStop, LostInv
  <2>2. CASE ~sess[f].keep /\ ~Repend(f)
    BY <2>2 DEF OnStop, TcpInv, LostInv
  <2>3. CASE Repend(f)
    BY <2>3, MovedKeeps DEF OnStop
  <2> QED
    BY <2>1, <2>2, <2>3
<1> QED
  BY <1>3, <1>4, <1>5, <1>6, <1>7 DEF TcpInv

LEMMA ResetPortStep ==
    ASSUME TcpInv, ResetPort
    PROVE  TcpInv'
<1> DEFINE f == tcpSession
<1> DEFINE live == f # None /\ sess[f].st = "run"
<1>1. /\ tcpSession' = None /\ tcpBusy' = FALSE /\ pendingBE' = None /\ pendingFE' = None
      /\ resets' = (resets \/ f # None) /\ UNCHANGED <<loop, gone>>
  BY DEF ResetPort
<1>2. PICK keep \in BOOLEAN :
        /\ sess' = IF live THEN [sess EXCEPT ![f].st = "stop", ![f].keep = keep] ELSE sess
        /\ \E C : conn' = Moved(C, "free")
  BY DEF ResetPort, Closed
<1>3. resets' \in {TRUE, resets}
  BY <1>1 DEF TcpInv, TcpTypes
<1>4. conn' \in [Conns -> {"free", "loop", "pending", "session", "lost"}] /\ LostInv'
  BY <1>2, <1>3, MovedKeeps
<1>5. live => f \in Conns /\ sess[f] \in [be : Conns, st : {"run", "stop"}, keep : BOOLEAN]
  BY SessionTyped DEF TcpInv, TcpTypes
<1>6. /\ sess' \in [Conns -> [be : Conns, st : {"run", "stop"}, keep : BOOLEAN] \cup {NoSession}]
      /\ live => sess'[f].st = "stop"
      /\ \A g \in Conns : g # f => sess'[g] = sess[g]
      /\ ~live => sess' = sess
  <2>1. CASE ~live
    BY <1>2, <2>1 DEF TcpInv, TcpTypes
  <2>2. CASE live
    <3>1. [sess[f] EXCEPT !.st = "stop", !.keep = keep] \in [be : Conns, st : {"run", "stop"}, keep : BOOLEAN]
      BY <1>5, <2>2
    <3>2. sess' = [sess EXCEPT ![f] = [sess[f] EXCEPT !.st = "stop", !.keep = keep]]
      BY <1>2, <2>2
    <3> QED
      BY <1>5, <2>2, <3>1, <3>2 DEF TcpInv, TcpTypes
  <2> QED
    BY <2>1, <2>2
<1>61. live => sess'[f].st = "stop"
  BY <1>6
<1>62. \A g \in Conns : g # f => sess'[g] = sess[g]
  BY <1>6
<1>63. ~live => sess' = sess
  BY <1>6
<1>7. TcpTypes'
  BY <1>1, <1>3, <1>4, <1>6 DEF TcpInv, TcpTypes
<1>8. LoopInv' /\ NobodyWaitsInVain'
  BY <1>1 DEF TcpInv, LoopInv, NobodyWaitsInVain
<1>9. NamedInv'
  <2>1. ASSUME NEW g \in Conns
        PROVE  sess'[g].st # "run" /\ (sess'[g].st # "none" => resets')
    <3>0. g # None
      BY NoneAssumption
    <3>1. CASE g = f
      <4>1. resets'
        BY <1>1, <3>0, <3>1
      <4>2. CASE sess[f].st = "run"
        <5>1. sess'[g].st = "stop"
          BY <1>61, <3>0, <3>1, <4>2
        <5> QED
          BY <4>1, <5>1
      <4>3. CASE sess[f].st # "run"
        <5>1. sess'[g] = sess[g]
          BY <1>63, <4>3
        <5> QED
          BY <3>1, <4>1, <4>3, <5>1
      <4> QED
        BY <4>2, <4>3
    <3>2. CASE g # f
      <4>1. sess'[g] = sess[g]
        BY <1>62, <3>2
      <4>2. sess[g].st # "run" /\ (sess[g].st # "none" => resets)
        BY <3>2 DEF TcpInv, NamedInv
      <4>3. resets => resets'
        BY <1>1
      <4> QED
        BY <4>1, <4>2, <4>3
    <3> QED
      BY <3>1, <3>2
  <2> QED
    BY <1>1, <2>1 DEF NamedInv
<1> QED
  BY <1>4, <1>7, <1>8, <1>9 DEF TcpInv

LEMMA SnapshotStep ==
    ASSUME TcpInv, SnapshotPortState
    PROVE  TcpInv'
<1>1. /\ pendingBE' \in {None, pendingBE} /\ pendingFE' \in {None, pendingFE}
      /\ \E C : conn' = Moved(C, "free")
      /\ UNCHANGED <<loop, gone, tcpBusy, tcpSession, sess, resets>>
  BY DEF SnapshotPortState, Closed
<1>2. conn' \in [Conns -> {"free", "loop", "pending", "session", "lost"}] /\ LostInv'
  BY <1>1, MovedKeeps
<1>3. TcpTypes'
  BY <1>1, <1>2 DEF TcpInv, TcpTypes
<1>4. LoopInv' /\ NamedInv' /\ NobodyWaitsInVain'
  BY <1>1 DEF TcpInv, LoopInv, NamedInv, NobodyWaitsInVain
<1> QED
  BY <1>2, <1>3, <1>4 DEF TcpInv

LEMMA PeerLeavesStep ==
    ASSUME TcpInv, NEW c \in Conns, NEW how \in {"eof", "reset"}, PeerLeaves(c, how)
    PROVE  TcpInv'
<1>1. TcpTypes'
  BY DEF PeerLeaves, TcpInv, TcpTypes
<1>2. LoopInv' /\ NamedInv' /\ LostInv' /\ NobodyWaitsInVain'
  BY DEF PeerLeaves, TcpInv, LoopInv, NamedInv, LostInv, NobodyWaitsInVain
<1> QED
  BY <1>1, <1>2 DEF TcpInv

LEMMA TcpUnchanged ==
    ASSUME TcpInv, UNCHANGED tcp
    PROVE  TcpInv'
  BY DEF tcp, TcpInv, TcpTypes, LoopInv, NamedInv, LostInv, NobodyWaitsInVain

-----------------------------------------------------------------------------
(* UDP.                                                                     *)

\* A pair that is dissolved takes the datagram on its way out of account.
LEMMA DissolveStep ==
    ASSUME UdpInv, udpA' = None, udpB' = None, idle' = {}, Overtaken
    PROVE  UdpInv'
<1>1. CASE udp = NoDatagram
  BY <1>1 DEF UdpInv, UdpPaired, Overtaken, NoDatagram
<1>2. CASE udp # NoDatagram
  <2>1. udp' = [udp EXCEPT !.old = TRUE]
    BY <1>2 DEF Overtaken
  <2>2. udp' \in [src : Addrs \cup {None}, dst : Addrs \cup {None}, old : BOOLEAN] /\ udp'.old
    BY <2>1 DEF UdpInv
  <2> QED
    BY <2>2 DEF UdpInv, UdpPaired
<1> QED
  BY <1>1, <1>2

LEMMA DatagramStep ==
    ASSUME UdpInv, NEW a \in Addrs, Datagram(a)
    PROVE  UdpInv'
<1>0. a # None /\ udp = NoDatagram /\ idle' = idle \ {a}
  BY NoneAssumption DEF Datagram
<1>1. CASE udpA = None /\ udpA' = a /\ UNCHANGED <<udpB, udp>>
  BY <1>0, <1>1 DEF UdpInv, UdpPaired, NoDatagram
<1>2. CASE udpA # None /\ udpB = None /\ a # udpA /\ udpB' = a /\ UNCHANGED <<udpA, udp>>
  BY <1>0, <1>2 DEF UdpInv, UdpPaired, NoDatagram
<1>3. CASE a = udpA /\ udp' = [src |-> a, dst |-> udpB, old |-> FALSE] /\ UNCHANGED <<udpA, udpB>>
  BY <1>0, <1>3 DEF UdpInv, UdpPaired
<1>4. CASE a = udpB /\ udp' = [src |-> a, dst |-> udpA, old |-> FALSE] /\ UNCHANGED <<udpA, udpB>>
  BY <1>0, <1>4 DEF UdpInv, UdpPaired
<1> QED
  BY <1>1, <1>2, <1>3, <1>4 DEF Datagram

LEMMA UdpStep ==
    ASSUME UdpInv,
           \/ \E a \in Addrs : Datagram(a) \/ GoesIdle(a)
           \/ Forward \/ UdpSweep \/ ResetPort
    PROVE  UdpInv'
<1>1. CASE \E a \in Addrs : Datagram(a)
  BY <1>1, DatagramStep
<1>2. CASE \E a \in Addrs : GoesIdle(a)
  BY <1>2, NoneAssumption DEF GoesIdle, UdpInv, UdpPaired
<1>3. CASE Forward
  BY <1>3 DEF Forward, UdpInv, UdpPaired, NoDatagram
<1>4. CASE UdpSweep
  BY <1>4, DissolveStep DEF UdpSweep, SweptB
<1>5. CASE ResetPort
  BY <1>5, DissolveStep DEF ResetPort
<1> QED
  BY <1>1, <1>2, <1>3, <1>4, <1>5

LEMMA UdpUnchanged ==
    ASSUME UdpInv, UNCHANGED udps
    PROVE  UdpInv'
  BY DEF udps, UdpInv, UdpPaired

-----------------------------------------------------------------------------
LEMMA StepInv == IndInv /\ [Next]_vars => IndInv'
<1> SUFFICES ASSUME IndInv, [Next]_vars PROVE IndInv'
  OBVIOUS
<1>0. TcpInv /\ UdpInv
  BY DEF IndInv
<1>1. CASE \E c \in Conns : Accept(c)
  BY <1>0, <1>1, AcceptStep, UdpUnchanged DEF Accept, IndInv
<1>2. CASE \E c \in Conns : OnStop(c)
  BY <1>0, <1>2, OnStopStep, UdpUnchanged DEF OnStop, IndInv
<1>3. CASE \E c \in Conns, keep \in BOOLEAN : SessionStops(c, keep)
  BY <1>0, <1>3, SessionStopsStep, UdpUnchanged DEF SessionStops, IndInv
<1>4. CASE \E c \in Conns : \E how \in {"eof", "reset"} : PeerLeaves(c, how)
  BY <1>0, <1>4, PeerLeavesStep, UdpUnchanged DEF PeerLeaves, IndInv
<1>5. CASE \E role \in {"", "FE", "BE"} : Hello(role)
  BY <1>0, <1>5, HelloStep, UdpUnchanged DEF Hello, IndInv
<1>6. CASE Place
  BY <1>0, <1>6, PlaceStep, UdpUnchanged DEF Place, IndInv
<1>7. CASE SnapshotPortState
  BY <1>0, <1>7, SnapshotStep, UdpUnchanged DEF SnapshotPortState, IndInv
<1>8. CASE ResetPort
  BY <1>0, <1>8, ResetPortStep, UdpStep DEF IndInv
<1>9. CASE (\E a \in Addrs : Datagram(a) \/ GoesIdle(a)) \/ Forward \/ UdpSweep
  <2>1. UNCHANGED tcp
    BY <1>9 DEF Datagram, GoesIdle, Forward, UdpSweep
  <2> QED
    BY <1>0, <1>9, <2>1, UdpStep, TcpUnchanged DEF IndInv
<1>10. CASE UNCHANGED vars
  <2>1. UNCHANGED tcp /\ UNCHANGED udps
    BY <1>10 DEF vars, tcp, udps
  <2> QED
    BY <1>0, <2>1, TcpUnchanged, UdpUnchanged DEF IndInv
<1> QED
  BY <1>1, <1>2, <1>3, <1>4, <1>5, <1>6, <1>7, <1>8, <1>9, <1>10 DEF Next

LEMMA IndInvHolds == Spec => []IndInv
  BY InitInv, StepInv, PTL DEF Spec

\* A V3 slot names its one running session through resets and late onStops, and
\* forgets a kept backend only if a reset came first (onStop, ResetPort).
THEOREM SlotHasOneSession == Spec => []OneSession
<1>1. IndInv => OneSession
  BY IndInvImplies
<1> QED
  BY <1>1, IndInvHolds, PTL

\* In a V3 slot a frontend and a backend never wait for each other, although
\* acceptTCPLoop looks at the slot in two critical sections.
THEOREM SecondPeerIsPaired == Spec => []NobodyWaitsInVain
<1>1. IndInv => NobodyWaitsInVain
  BY IndInvImplies
<1> QED
  BY <1>1, IndInvHolds, PTL

\* A datagram goes from one address of the slot's pair to the other, unless the
\* pair was dissolved between the lookup and the write (udpLoop).
THEOREM DatagramsStayInPair == Spec => []UdpPaired
<1>1. IndInv => UdpPaired
  BY IndInvImplies
<1> QED
  BY <1>1, IndInvHolds, PTL
=============================================================================
