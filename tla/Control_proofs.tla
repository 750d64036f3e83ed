-------------------------- MODULE Control_proofs --------------------------
(***************************************************************************)
(* Proofs about the control planes of V1 and V3, for any ports, clients    *)
(* and session ids: the port manager of V1, the leases of V3 and the hub   *)
(* of V1.                                                                  *)
(*                                                                         *)
(* The port manager of V1 keeps its three maps in agreement and loses no   *)
(* reservation without a cause.  Every operation is a deletion, a grant,   *)
(* or both; that each of the two keeps the maps in agreement is shown      *)
(* once, for any values of the maps.                                       *)
(***************************************************************************)
EXTENDS MCPortManagers, MCControlHub, FiniteSetTheorems, SequenceTheorems, WellFoundedInduction, TLAPS

\* The maps r, bp, bo and the set od have their types and agree.
Book(r, bp, bo, od) ==
    /\ r \in [Sids -> [owner : Clients, port : Ports] \cup {Nothing}]
    /\ bp \in [Ports -> Sids \cup {NoSid}]
    /\ bo \in [Clients -> SUBSET Sids]
    /\ od \subseteq {s \in Sids : r[s] # Nothing}
    /\ \A s \in Sids, p \in Ports : bp[p] = s <=> r[s] # Nothing /\ r[s].port = p
    /\ \A s \in Sids, c \in Clients : s \in bo[c] <=> r[s] # Nothing /\ r[s].owner = c

BookOK == Book(resv, byPort, byOwner, overdue)

\* The types of what surrounds them.
RestOK ==
    /\ range \in {{}, Ports}
    /\ client \in [Clients -> {"off", "on", "late"}]
    /\ port \in [Ports -> {"empty", "ready", "busy"}]
    /\ hooks \in [Ports -> 0 .. HookBound]

\* Why a sound reservation is safe: it is there, its time has not come, and no
\* callback is on its way to its port.
Causes ==
    /\ sound \subseteq Live
    /\ sound \cap overdue = {}
    /\ \A p \in Ports : hooks[p] > 0 => byPort[p] \notin sound

IndInv == BookOK /\ RestOK /\ Causes

LEMMA IndInvImplies == IndInv => MapsAgree /\ LossExplained
  BY DEF IndInv, MapsAgree, LossExplained, TypeOK, BookOK, Book, RestOK, Causes, Live

\* A reservation is never mistaken for the lack of one.
LEMMA NothingIsNone ==
    ASSUME NEW r \in [owner : Clients, port : Ports]
    PROVE  r # Nothing
<1>1. r.port # 0
  BY PortAssumption DEF Ports
<1>2. Nothing.port = 0
  BY DEF Nothing
<1> QED
  BY <1>1, <1>2

-----------------------------------------------------------------------------
\* deleteReservationLocked, of any set of reservations.
LEMMA DeleteKeeps ==
    ASSUME BookOK, NEW S \in SUBSET Live
    PROVE  Book(ResvWithout(S), PortWithout(S), OwnerWithout(S), overdue \ S)
<1> DEFINE r == ResvWithout(S)
<1> DEFINE bp == PortWithout(S)
<1> DEFINE bo == OwnerWithout(S)
<1>1. r \in [Sids -> [owner : Clients, port : Ports] \cup {Nothing}]
  BY DEF ResvWithout, BookOK, Book
<1>2. bp \in [Ports -> Sids \cup {NoSid}]
  BY DEF PortWithout, BookOK, Book
<1>3. bo \in [Clients -> SUBSET Sids]
  BY DEF OwnerWithout, BookOK, Book
<1>4. overdue \ S \subseteq {s \in Sids : r[s] # Nothing}
  BY DEF ResvWithout, BookOK, Book
<1>5. ASSUME NEW s \in Sids
      PROVE  /\ s \in S => r[s] = Nothing
             /\ s \notin S => r[s] = resv[s]
  BY DEF ResvWithout
<1>6. ASSUME NEW s \in Sids, NEW p \in Ports
      PROVE  bp[p] = s <=> r[s] # Nothing /\ r[s].port = p
  <2>1. bp[p] = IF \E t \in S : resv[t].port = p THEN NoSid ELSE byPort[p]
    BY DEF PortWithout
  <2>2. byPort[p] = s <=> resv[s] # Nothing /\ resv[s].port = p
    BY DEF BookOK, Book
  <2>3. ASSUME NEW t \in S, resv[t].port = p
        PROVE  byPort[p] = t
    BY <2>3 DEF BookOK, Book, Live
  <2> HIDE DEF r, bp
  <2> QED
    BY <1>5, <2>1, <2>2, <2>3, SidAssumption
<1>7. ASSUME NEW s \in Sids, NEW c \in Clients
      PROVE  s \in bo[c] <=> r[s] # Nothing /\ r[s].owner = c
  <2>1. bo[c] = byOwner[c] \ {t \in S : resv[t].owner = c}
    BY DEF OwnerWithout
  <2>2. s \in byOwner[c] <=> resv[s] # Nothing /\ resv[s].owner = c
    BY DEF BookOK, Book
  <2> HIDE DEF r, bo
  <2> QED
    BY <1>5, <2>1, <2>2
<1> QED
  BY <1>1, <1>2, <1>3, <1>4, <1>6, <1>7 DEF Book

\* The grant of a port that no reservation names.
LEMMA GrantKeeps ==
    ASSUME NEW r, NEW bp, NEW bo, NEW od, Book(r, bp, bo, od),
           NEW s \in Sids, r[s] = Nothing,
           NEW c \in Clients, NEW p \in Ports, bp[p] = NoSid
    PROVE  Book([r EXCEPT ![s] = [owner |-> c, port |-> p]], [bp EXCEPT ![p] = s],
                [bo EXCEPT ![c] = @ \cup {s}], od)
<1> DEFINE new == [owner |-> c, port |-> p]
<1>1. new \in [owner : Clients, port : Ports] /\ new # Nothing
  BY NothingIsNone
<1>2. /\ [r EXCEPT ![s] = new] \in [Sids -> [owner : Clients, port : Ports] \cup {Nothing}]
      /\ [bp EXCEPT ![p] = s] \in [Ports -> Sids \cup {NoSid}]
      /\ [bo EXCEPT ![c] = @ \cup {s}] \in [Clients -> SUBSET Sids]
  BY <1>1 DEF Book
<1>3. od \subseteq {t \in Sids : [r EXCEPT ![s] = new][t] # Nothing}
  BY <1>1 DEF Book
<1>4. ASSUME NEW t \in Sids, NEW q \in Ports
      PROVE  [bp EXCEPT ![p] = s][q] = t
                <=> [r EXCEPT ![s] = new][t] # Nothing /\ [r EXCEPT ![s] = new][t].port = q
  BY <1>1, SidAssumption DEF Book
<1>5. ASSUME NEW t \in Sids, NEW d \in Clients
      PROVE  t \in [bo EXCEPT ![c] = @ \cup {s}][d]
                <=> [r EXCEPT ![s] = new][t] # Nothing /\ [r EXCEPT ![s] = new][t].owner = d
  BY <1>1 DEF Book
<1> QED
  BY <1>2, <1>3, <1>4, <1>5 DEF Book

\* Whatever is deleted, the rest stays sound, as long as only reservations go
\* that are not, or no longer, sound.
LEMMA DeleteCauses ==
    ASSUME BookOK, Causes, NEW S \in SUBSET Live, Delete(S),
           sound' \subseteq sound \ S, hooks' = hooks
    PROVE  Causes'
<1>1. sound' \subseteq Live'
  BY DEF Delete, ResvWithout, Live, Causes
<1>2. sound' \cap overdue' = {}
  BY DEF Delete, Causes
<1>3. ASSUME NEW p \in Ports, hooks'[p] > 0
      PROVE  byPort'[p] \notin sound'
  <2>1. byPort'[p] \in {NoSid, byPort[p]}
    BY DEF Delete, PortWithout
  <2>2. NoSid \notin sound' /\ byPort[p] \notin sound'
    BY <1>3, SidAssumption DEF Causes, Live
  <2> QED
    BY <2>1, <2>2
<1> QED
  BY <1>1, <1>2, <1>3 DEF Causes

-----------------------------------------------------------------------------
\* The invariant holds initially.
LEMMA InitInv == Init => IndInv
<1> SUFFICES ASSUME Init PROVE IndInv
  OBVIOUS
<1>1. BookOK
  BY SidAssumption DEF Init, BookOK, Book
<1>2. RestOK
  BY HookAssumption DEF Init, RestOK
<1>3. Causes
  BY DEF Init, Causes
<1> QED
  BY <1>1, <1>2, <1>3 DEF IndInv

\* Acquire and AcquireFromReady: the sweep, then the grant or the refusal.
LEMMA AcquireStep ==
    ASSUME IndInv, NEW c \in Clients, NEW need \in Needs, Acquire(c, need)
    PROVE  IndInv'
<1> DEFINE S == IF Cardinality(need) = 1 THEN overdue ELSE {}
<1> DEFINE avail == {p \in FreePorts(c, S) : Proto(p) \in need}
<1>1. S \in SUBSET Live /\ S \cap sound = {}
  BY DEF IndInv, BookOK, Book, Causes, Live
<1>2. Book(ResvWithout(S), PortWithout(S), OwnerWithout(S), overdue \ S)
  BY <1>1, DeleteKeeps DEF IndInv
<1>3. RestOK'
  BY DEF Acquire, IndInv, RestOK, relay
<1>4. overdue' = overdue \ S /\ hooks' = hooks
  BY DEF Acquire, Delete, relay
<1>5. CASE Delete(S) /\ UNCHANGED sound
  <2>1. BookOK'
    BY <1>2, <1>5 DEF BookOK, Delete
  <2>2. Causes'
    BY <1>1, <1>5, DeleteCauses DEF IndInv, Acquire, relay
  <2> QED
    BY <1>3, <2>1, <2>2 DEF IndInv
<1>6. CASE \E s \in Sids, p \in avail :
              /\ s \notin Live
              /\ resv' = [ResvWithout(S) EXCEPT ![s] = [owner |-> c, port |-> p]]
              /\ byPort' = [PortWithout(S) EXCEPT ![p] = s]
              /\ byOwner' = [OwnerWithout(S) EXCEPT ![c] = @ \cup {s}]
              /\ sound' = sound \cup (IF hooks[p] = 0 THEN {s} ELSE {})
  <2>1. PICK s \in Sids, p \in avail :
              /\ s \notin Live
              /\ resv' = [ResvWithout(S) EXCEPT ![s] = [owner |-> c, port |-> p]]
              /\ byPort' = [PortWithout(S) EXCEPT ![p] = s]
              /\ byOwner' = [OwnerWithout(S) EXCEPT ![c] = @ \cup {s}]
              /\ sound' = sound \cup (IF hooks[p] = 0 THEN {s} ELSE {})
    BY <1>6
  <2>2. p \in Ports /\ PortWithout(S)[p] = NoSid
    BY DEF FreePorts, IndInv, RestOK
  <2>3. ResvWithout(S)[s] = Nothing
    BY <2>1 DEF ResvWithout, Live
  <2>4. BookOK'
    BY <1>2, <1>4, <2>1, <2>2, <2>3, GrantKeeps DEF BookOK
  <2>5. \A t \in Sids : t # s /\ t \notin S => resv'[t] = resv[t]
    BY <2>1 DEF ResvWithout
  <2>6. resv'[s] # Nothing
    <3>1. resv'[s] = [owner |-> c, port |-> p]
      BY <2>1 DEF ResvWithout
    <3> QED
      BY <2>2, <3>1, NothingIsNone
  <2>7. sound' \subseteq Live'
    BY <1>1, <2>1, <2>5, <2>6 DEF Causes, IndInv, Live
  <2>8. sound' \cap overdue' = {}
    BY <1>4, <2>1 DEF Causes, IndInv, BookOK, Book, Live
  <2>9. ASSUME NEW q \in Ports, hooks'[q] > 0
        PROVE  byPort'[q] \notin sound'
    <3>1. byPort'[q] = IF q = p THEN s
                       ELSE IF \E t \in S : resv[t].port = q THEN NoSid ELSE byPort[q]
      BY <2>1, <2>2 DEF PortWithout
    <3>2. s \notin sound /\ NoSid \notin sound'
      BY <2>1, SidAssumption DEF Causes, IndInv, Live
    <3>3. hooks[q] > 0 /\ byPort[q] \notin sound
      BY <1>4, <2>9 DEF Causes, IndInv
    <3>4. byPort[q] # s
      BY <2>1 DEF IndInv, BookOK, Book, Live
    <3> QED
      BY <2>1, <3>1, <3>2, <3>3, <3>4
  <2> QED
    BY <1>3, <2>4, <2>7, <2>8, <2>9 DEF IndInv, Causes
<1> QED
  BY <1>5, <1>6 DEF Acquire

\* Release, sweepLoop, ReleaseAllForOwner and ReleaseByPort only delete.
LEMMA DeleteStep ==
    ASSUME IndInv, RestOK', NEW S \in SUBSET Live, Delete(S),
           sound' \subseteq sound \ S, hooks' = hooks
    PROVE  IndInv'
<1>1. BookOK'
  BY DeleteKeeps DEF IndInv, BookOK, Delete
<1>2. Causes'
  BY DeleteCauses DEF IndInv
<1> QED
  BY <1>1, <1>2 DEF IndInv

LEMMA ReleaseStep ==
    ASSUME IndInv, NEW c \in Clients, NEW s \in Sids, Release(c, s)
    PROVE  IndInv'
<1>1. RestOK'
  BY DEF Release, IndInv, RestOK, relay
<1> QED
  BY <1>1, DeleteStep DEF Release, relay

LEMMA SweepStep ==
    ASSUME IndInv, Sweep
    PROVE  IndInv'
<1>1. RestOK'
  BY DEF Sweep, IndInv, RestOK, relay
<1>2. overdue \in SUBSET Live /\ sound' \subseteq sound \ overdue
  BY DEF Sweep, IndInv, BookOK, Book, Causes, Live
<1> QED
  BY <1>1, <1>2, DeleteStep DEF Sweep, relay

LEMMA UnregisterStep ==
    ASSUME IndInv, NEW c \in Clients, NEW handler \in {"off", "late"}, Unregister(c, handler)
    PROVE  IndInv'
<1> DEFINE S == byOwner[c] \cap Live
<1>1. RestOK'
  BY DEF Unregister, IndInv, RestOK, relay
<1>2. S \in SUBSET Live /\ sound' \subseteq sound \ S
  BY DEF Unregister, IndInv, BookOK, Book, Live
<1>3. Delete(S) /\ hooks' = hooks
  BY DEF Unregister, relay
<1> QED
  BY <1>1, <1>2, <1>3, DeleteStep

\* The callback finds a reservation that is not sound: either it was there when
\* the session ended, or the callback was under way when it was granted.
LEMMA PortFreeStep ==
    ASSUME IndInv, NEW p \in Ports, PortFree(p)
    PROVE  IndInv'
<1> DEFINE S == Reserved(p)
<1>1. RestOK'
  BY HookAssumption DEF PortFree, IndInv, RestOK
<1>2. S \in SUBSET Live /\ S \cap sound = {}
  BY DEF PortFree, Reserved, IndInv, Causes
<1>3. Delete(S) /\ sound' = sound
  BY DEF PortFree
<1>4. BookOK'
  BY <1>2, <1>3, DeleteKeeps DEF IndInv, BookOK, Delete
<1>5. sound' \subseteq Live' /\ sound' \cap overdue' = {}
  BY <1>2, <1>3 DEF Delete, ResvWithout, Live, IndInv, Causes
<1>6. ASSUME NEW q \in Ports, hooks'[q] > 0
      PROVE  byPort'[q] \notin sound'
  <2>1. byPort'[q] \in {NoSid, byPort[q]}
    BY <1>3 DEF Delete, PortWithout
  <2>2. hooks[q] > 0
    BY <1>6 DEF PortFree, IndInv, RestOK
  <2>3. NoSid \notin sound' /\ byPort[q] \notin sound'
    BY <1>3, <2>2, SidAssumption DEF IndInv, Causes, Live
  <2> QED
    BY <2>1, <2>3
<1> QED
  BY <1>1, <1>4, <1>5, <1>6 DEF IndInv, Causes

\* A session that ends takes the soundness of its port's reservation with it.
LEMMA RelayFreesStep ==
    ASSUME IndInv, NEW p \in Ports, RelayFrees(p)
    PROVE  IndInv'
<1>1. RestOK'
  BY HookAssumption DEF RelayFrees, IndInv, RestOK
<1>2. BookOK'
  BY DEF RelayFrees, IndInv, BookOK
<1>3. sound' = sound \ Reserved(p) /\ sound' \subseteq Live' /\ sound' \cap overdue' = {}
  BY DEF RelayFrees, IndInv, Causes, Live
<1>4. ASSUME NEW q \in Ports, hooks'[q] > 0
      PROVE  byPort'[q] \notin sound'
  <2>1. CASE q = p
    BY <1>3, <2>1 DEF RelayFrees, Reserved, IndInv, Causes
  <2>2. CASE q # p
    BY <1>3, <1>4, <2>2 DEF RelayFrees, IndInv, Causes, RestOK
  <2> QED
    BY <2>1, <2>2
<1> QED
  BY <1>1, <1>2, <1>3, <1>4 DEF IndInv, Causes

LEMMA ExpireStep ==
    ASSUME IndInv, NEW s \in Sids, Expire(s)
    PROVE  IndInv'
<1>1. RestOK'
  BY DEF Expire, IndInv, RestOK, relay
<1>2. BookOK'
  BY DEF Expire, IndInv, BookOK, Book, Live
<1>3. Causes'
  BY DEF Expire, IndInv, Causes, Live, relay
<1> QED
  BY <1>1, <1>2, <1>3 DEF IndInv

\* The other steps leave the reservations alone.
LEMMA OtherStep ==
    ASSUME IndInv,
           \/ \E R \in {{}, Ports} : SetRanges(R)
           \/ \E c \in Clients : Connect(c) \/ HandlerEnds(c)
           \/ \E p \in Ports : RelayGoesOn(p) \/ RelayDrops(p)
           \/ UNCHANGED vars
    PROVE  IndInv'
<1>1. UNCHANGED <<resv, byPort, byOwner, overdue, hooks, sound>>
  BY DEF SetRanges, Connect, HandlerEnds, RelayGoesOn, RelayDrops, vars, relay
<1>2. RestOK'
  BY DEF SetRanges, Connect, HandlerEnds, RelayGoesOn, RelayDrops, vars, relay, IndInv, RestOK
<1>3. BookOK' /\ Causes'
  BY <1>1 DEF IndInv, BookOK, Causes, Live
<1> QED
  BY <1>2, <1>3 DEF IndInv

LEMMA StepInv == IndInv /\ [Next]_vars => IndInv'
<1> SUFFICES ASSUME IndInv, [Next]_vars PROVE IndInv'
  OBVIOUS
<1>1. CASE \E c \in Clients, need \in Needs : Acquire(c, need)
  BY <1>1, AcquireStep
<1>2. CASE \E c \in Clients, s \in Sids : Release(c, s)
  BY <1>2, ReleaseStep
<1>3. CASE \E c \in Clients : \E handler \in {"off", "late"} : Unregister(c, handler)
  BY <1>3, UnregisterStep
<1>4. CASE \E p \in Ports : PortFree(p)
  BY <1>4, PortFreeStep
<1>5. CASE \E p \in Ports : RelayFrees(p)
  BY <1>5, RelayFreesStep
<1>6. CASE Sweep
  BY <1>6, SweepStep
<1>7. CASE \E s \in Sids : Expire(s)
  BY <1>7, ExpireStep
<1>8. CASE \/ \E R \in {{}, Ports} : SetRanges(R)
           \/ \E c \in Clients : Connect(c) \/ HandlerEnds(c)
           \/ \E p \in Ports : RelayGoesOn(p) \/ RelayDrops(p)
           \/ UNCHANGED vars
  BY <1>8, OtherStep
<1> QED
  BY <1>1, <1>2, <1>3, <1>4, <1>5, <1>6, <1>7, <1>8 DEF Next

LEMMA IndInvHolds == Spec => []IndInv
  BY InitInv, StepInv, PTL DEF Spec

\* The three maps of the V1 port manager agree after every sequence of grants,
\* releases, departures, sweeps and callbacks (deleteReservationLocked).
THEOREM MapsAlwaysAgree == Spec => []MapsAgree
<1>1. IndInv => MapsAgree
  BY IndInvImplies
<1> QED
  BY <1>1, IndInvHolds, PTL

\* A reservation of the V1 port manager is lost only to its owner, to time, or
\* to the end of a session on its port (ReleaseByPort).
THEOREM NoLossWithoutCause == Spec => []LossExplained
<1>1. IndInv => LossExplained
  BY IndInvImplies
<1> QED
  BY <1>1, IndInvHolds, PTL
-----------------------------------------------------------------------------
(***************************************************************************)
(* The leases of V3.  Two handlers may find the same port free and reserve *)
(* it twice, after which the port's entry names the later lease and may go *)
(* with either.  What holds whatever they do is that an entry never names  *)
(* a lease that is over; and until a first race, that a handler about to   *)
(* reserve a port still has it free.                                       *)
(***************************************************************************)

\* Until a race, the port a handler has found free is free when it reserves it.
FoundStaysFree ==
    /\ \A c \in Owners : h[c].st = "take" => h[c].port \in ZMQ
    /\ ~raced => \A c \in Owners : h[c].st = "take" => leaseOf[h[c].port] = NoSid

LeaseInv == V3!NoDanglingEntry /\ V3!ExclusiveUnlessRaced /\ FoundStaysFree

Lease == [owner : Owners, port : ZMQ]
HandlerStates == {"off", "idle", "ready", "empty", "take", "reset"}
Handlers == [st : HandlerStates, list : SUBSET ZMQ, port : ZMQ \cup {0}]

LEMMA LeaseIsSomething ==
    /\ \A r \in Lease : r # V3!Nothing /\ r.port \in ZMQ /\ r.owner \in Owners
    /\ V3!Nothing.port \notin ZMQ
<1>1. V3!Nothing.port = 0
  BY DEF V3!Nothing
<1>2. 0 \notin ZMQ
  BY PortAssumption
<1> QED
  BY <1>1, <1>2 DEF Lease

\* The ports of a snapshot are tried in order, so the first of them is one.
LEMMA FirstOfList ==
    ASSUME NEW L \in SUBSET ZMQ, L # {}
    PROVE  V3!Min(L) \in L
<1>1. L \subseteq Nat
  BY PortAssumption
<1>2. \E x \in L : \A y \in L : ~(<<y, x>> \in OpToRel(<, Nat))
  BY <1>1, NatLessThanWellFounded, WFMin
<1>3. \A x, y \in Nat : y < x => <<y, x>> \in OpToRel(<, Nat)
  BY DEF OpToRel
<1>4. \A x, y \in Nat : x =< y \/ y < x
  OBVIOUS
<1>5. \E x \in L : \A y \in L : x =< y
  BY <1>1, <1>2, <1>3, <1>4, Zenon
<1> QED
  BY <1>5 DEF V3!Min

\* Handlers, by what they are made of.
LEMMA HandlerType ==
    ASSUME NEW st \in HandlerStates, NEW list \in SUBSET ZMQ, NEW p \in ZMQ \cup {0}
    PROVE  /\ V3!Handler(st, list, p) \in Handlers
           /\ V3!Handler(st, list, p).st = st /\ V3!Handler(st, list, p).port = p
  BY DEF Handlers, V3!Handler

LEMMA RestTypes ==
    /\ V3!Idle \in Handlers /\ V3!Idle.st = "idle"
    /\ V3!Off \in Handlers /\ V3!Off.st = "off"
  BY HandlerType DEF V3!Idle, V3!Off, HandlerStates

\* A handler that does not come to hold a port in "take" keeps FoundStaysFree,
\* as long as no port is reserved.
LEMMA HandlerKeepsFound ==
    ASSUME LeaseInv, NEW c \in Owners, NEW x \in Handlers, h' = [h EXCEPT ![c] = x],
           x.st = "take" => x.port \in ZMQ /\ leaseOf[x.port] = NoSid,
           UNCHANGED <<raced, leaseOf>>
    PROVE  FoundStaysFree' /\ h' \in [Owners -> Handlers]
<1>1. h \in [Owners -> Handlers]
  BY DEF LeaseInv, V3!NoDanglingEntry, V3!TypeOK, Handlers, HandlerStates
<1> QED
  BY <1>1 DEF LeaseInv, FoundStaysFree

\* A step that leaves the book alone keeps what is said of it.
LEMMA BookUntouched ==
    ASSUME LeaseInv, UNCHANGED V3!book, UNCHANGED raced,
           h' \in [Owners -> Handlers], slot' \in [ZMQ -> {"empty", "ready", "busy"}],
           on' \in SUBSET Owners, FoundStaysFree'
    PROVE  LeaseInv'
<1>1. V3!TypeOK'
  BY DEF LeaseInv, V3!NoDanglingEntry, V3!TypeOK, V3!book, V3!Live, Handlers, HandlerStates
<1>2. V3!NoDanglingEntry'
  BY <1>1 DEF LeaseInv, V3!NoDanglingEntry, V3!book, V3!Live
<1>3. V3!ExclusiveUnlessRaced'
  BY DEF LeaseInv, V3!ExclusiveUnlessRaced, V3!book, V3!Live
<1> QED
  BY <1>2, <1>3 DEF LeaseInv

\* deleteReservationLocked, of any leases: the entries of their ports go too,
\* which without a race are theirs.
LEMMA DeleteLeases ==
    ASSUME LeaseInv, NEW D \in SUBSET V3!Live, V3!Delete(D), UNCHANGED raced,
           h' \in [Owners -> Handlers], UNCHANGED slot, on' \in SUBSET Owners,
           \A c \in Owners : h'[c].st = "take" => h[c].st = "take" /\ h'[c].port = h[c].port
    PROVE  LeaseInv'
<1>1. /\ leases \in [Sids -> Lease \cup {V3!Nothing}] /\ leaseOf \in [ZMQ -> Sids \cup {NoSid}]
      /\ leasesOf \in [Owners -> SUBSET Sids] /\ late \subseteq V3!Live /\ D \subseteq Sids
  BY DEF LeaseInv, V3!NoDanglingEntry, V3!TypeOK, Lease, V3!Live
<1>2. \A s \in Sids : leases'[s] = IF s \in D THEN V3!Nothing ELSE leases[s]
  BY DEF V3!Delete, V3!ResvWithout
<1>3. \A p \in ZMQ : leaseOf'[p] = IF \E s \in D : leases[s].port = p THEN NoSid ELSE leaseOf[p]
  BY DEF V3!Delete, V3!PortWithout
<1>4. \A c \in Owners : leasesOf'[c] = leasesOf[c] \ {s \in D : leases[s].owner = c}
  BY DEF V3!Delete
<1>5. V3!Live' = V3!Live \ D
  BY <1>1, <1>2 DEF V3!Live
<1>6. late' \subseteq V3!Live'
  BY <1>1, <1>5 DEF V3!Delete
<1>7. /\ leases' \in [Sids -> Lease \cup {V3!Nothing}] /\ leaseOf' \in [ZMQ -> Sids \cup {NoSid}]
      /\ leasesOf' \in [Owners -> SUBSET Sids]
  BY <1>1 DEF V3!Delete, V3!ResvWithout, V3!PortWithout
<1>8. V3!TypeOK'
  BY <1>6, <1>7 DEF LeaseInv, V3!NoDanglingEntry, V3!TypeOK, Lease, Handlers, HandlerStates
<1>9. ASSUME NEW p \in ZMQ, leaseOf'[p] # NoSid
      PROVE  leaseOf'[p] \in V3!Live' /\ leases'[leaseOf'[p]].port = p
  <2>1. leaseOf'[p] = leaseOf[p] /\ \A s \in D : leases[s].port # p
    BY <1>3, <1>9
  <2>2. leaseOf[p] \in V3!Live /\ leases[leaseOf[p]].port = p
    BY <1>9, <2>1 DEF LeaseInv, V3!NoDanglingEntry
  <2>3. leaseOf[p] \notin D /\ leaseOf[p] \in Sids
    BY <2>1, <2>2 DEF V3!Live
  <2> QED
    BY <1>2, <1>5, <2>1, <2>2, <2>3
<1>10. ASSUME NEW s \in Sids, NEW c \in Owners
       PROVE  s \in leasesOf'[c] <=> s \in V3!Live' /\ leases'[s].owner = c
  <2>1. s \in leasesOf[c] <=> s \in V3!Live /\ leases[s].owner = c
    BY DEF LeaseInv, V3!NoDanglingEntry
  <2> QED
    BY <1>2, <1>4, <1>5, <2>1
<1>11. ASSUME ~raced, NEW s \in V3!Live \ D
       PROVE  leaseOf'[leases'[s].port] = s
  <2>1. s \in Sids /\ leases'[s] = leases[s] /\ leases[s] \in Lease
    BY <1>1, <1>2 DEF V3!Live
  <2>2. \A t \in V3!Live : leaseOf[leases[t].port] = t
    BY <1>11 DEF LeaseInv, V3!ExclusiveUnlessRaced
  <2>3. leases[s].port \in ZMQ
    BY <2>1, LeaseIsSomething
  <2> QED
    BY <1>3, <2>1, <2>2, <2>3
<1>12. FoundStaysFree'
  BY <1>3 DEF LeaseInv, FoundStaysFree
<1>13. V3!NoDanglingEntry'
  BY <1>8, <1>9, <1>10 DEF V3!NoDanglingEntry
<1>14. V3!ExclusiveUnlessRaced'
  BY <1>5, <1>11 DEF V3!ExclusiveUnlessRaced
<1> QED
  BY <1>12, <1>13, <1>14 DEF LeaseInv

\* reservePort, which does not look whether the port is still free.
LEMMA ReserveLease ==
    ASSUME LeaseInv, NEW c \in Owners, V3!reservePort(c)
    PROVE  LeaseInv'
<1> DEFINE p == h[c].port
<1> DEFINE new == [owner |-> c, port |-> p]
<1>1. PICK s \in Sids \ V3!Live :
          /\ leases' = [leases EXCEPT ![s] = new]
          /\ leaseOf' = [leaseOf EXCEPT ![p] = s]
          /\ leasesOf' = [leasesOf EXCEPT ![c] = @ \cup {s}]
          /\ raced' = (raced \/ \E d \in Owners \ {c} : h[d].st = "take" /\ h[d].port = p)
  BY DEF V3!reservePort
<1>2. h' = [h EXCEPT ![c] = V3!Idle] /\ UNCHANGED <<late, slot, on>> /\ h[c].st = "take"
  BY DEF V3!reservePort
<1>3. p \in ZMQ /\ new \in Lease /\ new # V3!Nothing /\ new.port = p /\ new.owner = c
  <2>1. p \in ZMQ
    BY <1>2 DEF LeaseInv, FoundStaysFree
  <2> QED
    BY <2>1, LeaseIsSomething DEF Lease
<1>4. /\ leases \in [Sids -> Lease \cup {V3!Nothing}] /\ leaseOf \in [ZMQ -> Sids \cup {NoSid}]
      /\ leasesOf \in [Owners -> SUBSET Sids] /\ late \subseteq V3!Live
      /\ h \in [Owners -> Handlers]
  BY DEF LeaseInv, V3!NoDanglingEntry, V3!TypeOK, Lease, Handlers, HandlerStates
<1> HIDE DEF p, new
<1>5. V3!Live' = V3!Live \cup {s}
  BY <1>1, <1>3, <1>4 DEF V3!Live
<1>6. raced' \in BOOLEAN /\ (~raced' => ~raced)
  BY <1>1
<1>7. V3!TypeOK'
  <2>1. /\ leases' \in [Sids -> Lease \cup {V3!Nothing}] /\ leaseOf' \in [ZMQ -> Sids \cup {NoSid}]
        /\ leasesOf' \in [Owners -> SUBSET Sids] /\ late' \subseteq V3!Live'
        /\ h' \in [Owners -> Handlers]
    BY <1>1, <1>2, <1>3, <1>4, <1>5, RestTypes
  <2> QED
    BY <1>2, <1>6, <2>1 DEF LeaseInv, V3!NoDanglingEntry, V3!TypeOK, Lease, Handlers, HandlerStates
<1>8. ASSUME NEW q \in ZMQ, leaseOf'[q] # NoSid
      PROVE  leaseOf'[q] \in V3!Live' /\ leases'[leaseOf'[q]].port = q
  <2>1. CASE q = p
    BY <1>1, <1>3, <1>4, <1>5, <2>1
  <2>2. CASE q # p
    <3>1. leaseOf'[q] = leaseOf[q]
      BY <1>1, <1>4, <2>2
    <3>2. leaseOf[q] \in V3!Live /\ leases[leaseOf[q]].port = q
      BY <1>8, <3>1 DEF LeaseInv, V3!NoDanglingEntry
    <3>3. leaseOf[q] # s
      BY <3>2
    <3> QED
      BY <1>1, <1>4, <1>5, <3>1, <3>2, <3>3
  <2> QED
    BY <2>1, <2>2
<1>9. ASSUME NEW t \in Sids, NEW d \in Owners
      PROVE  t \in leasesOf'[d] <=> t \in V3!Live' /\ leases'[t].owner = d
  <2>1. t \in leasesOf[d] <=> t \in V3!Live /\ leases[t].owner = d
    BY DEF LeaseInv, V3!NoDanglingEntry
  <2> QED
    BY <1>1, <1>3, <1>4, <1>5, <2>1
<1>10. ASSUME ~raced', NEW t \in V3!Live \cup {s}
       PROVE  leaseOf'[leases'[t].port] = t
  <2>1. CASE t = s
    BY <1>1, <1>3, <1>4, <2>1
  <2>2. CASE t # s
    <3>1. leases'[t] = leases[t] /\ leases[t] \in Lease
      BY <1>1, <1>4, <2>2 DEF V3!Live
    <3>2. leaseOf[leases[t].port] = t /\ leases[t].port \in ZMQ /\ t \in Sids
      BY <1>6, <1>10, <2>2, <3>1, LeaseIsSomething DEF LeaseInv, V3!ExclusiveUnlessRaced, V3!Live
    <3>3. leaseOf[p] = NoSid
      BY <1>2, <1>6, <1>10 DEF LeaseInv, FoundStaysFree, p
    <3>4. leases[t].port # p
      BY <3>2, <3>3, SidAssumption
    <3> QED
      BY <1>1, <1>4, <3>1, <3>2, <3>4
  <2> QED
    BY <2>1, <2>2
<1>11. FoundStaysFree'
  <2>1. ASSUME NEW d \in Owners, h'[d].st = "take"
        PROVE  d # c /\ h[d].st = "take" /\ h'[d].port = h[d].port
    BY <1>2, <1>4, <2>1, RestTypes
  <2>2. \A d \in Owners : h'[d].st = "take" => h'[d].port \in ZMQ
    BY <2>1 DEF LeaseInv, FoundStaysFree
  <2>3. ASSUME ~raced', NEW d \in Owners, h'[d].st = "take"
        PROVE  leaseOf'[h'[d].port] = NoSid
    <3>1. h[d].port # p
      BY <1>1, <2>1, <2>3
    <3>2. leaseOf[h[d].port] = NoSid /\ h[d].port \in ZMQ
      BY <1>6, <2>1, <2>3 DEF LeaseInv, FoundStaysFree
    <3> QED
      BY <1>1, <1>4, <2>1, <2>3, <3>1, <3>2
  <2> QED
    BY <2>2, <2>3 DEF FoundStaysFree
<1>12. V3!NoDanglingEntry'
  BY <1>7, <1>8, <1>9 DEF V3!NoDanglingEntry
<1>13. V3!ExclusiveUnlessRaced'
  BY <1>5, <1>10 DEF V3!ExclusiveUnlessRaced
<1> QED
  BY <1>11, <1>12, <1>13 DEF LeaseInv

\* AcquireFromReady, Acquire and the look at one port of the list.
LEMMA SearchStep ==
    ASSUME LeaseInv, NEW c \in Owners,
           V3!AcquireFromReady(c) \/ V3!Try(c) \/ V3!Exhausted(c)
    PROVE  LeaseInv'
<1>1. h \in [Owners -> Handlers]
  BY DEF LeaseInv, V3!NoDanglingEntry, V3!TypeOK, Handlers, HandlerStates
<1>2. h[c].list \in SUBSET ZMQ /\ h[c].st \in HandlerStates
  BY <1>1 DEF Handlers
<1>3. UNCHANGED V3!book /\ UNCHANGED <<slot, on, raced>>
  BY DEF V3!AcquireFromReady, V3!Try, V3!Exhausted
<1>4. \E x \in Handlers : /\ h' = [h EXCEPT ![c] = x]
                          /\ x.st = "take" => x.port \in ZMQ /\ leaseOf[x.port] = NoSid
  <2>1. CASE V3!AcquireFromReady(c)
    <3> DEFINE L == {p \in ZMQ : slot[p] = "ready"}
    <3>1. h' = [h EXCEPT ![c] = V3!Handler("ready", L, 0)]
      BY <2>1 DEF V3!AcquireFromReady
    <3>2. V3!Handler("ready", L, 0) \in Handlers /\ V3!Handler("ready", L, 0).st = "ready"
      BY HandlerType DEF HandlerStates
    <3> QED
      BY <3>1, <3>2
  <2>2. CASE V3!Try(c)
    <3> DEFINE p == V3!Min(h[c].list)
    <3>1. p \in h[c].list /\ p \in ZMQ
      BY <1>2, <2>2, FirstOfList DEF V3!Try
    <3>2. h' = [h EXCEPT ![c] = IF V3!isPortAvailable(p) THEN V3!Handler("take", {}, p)
                                ELSE V3!Handler(h[c].st, h[c].list \ {p}, 0)]
      BY <1>1, <2>2 DEF V3!Try
    <3> HIDE DEF p
    <3>3. CASE V3!isPortAvailable(p)
      <4>1. V3!Handler("take", {}, p) \in Handlers /\ V3!Handler("take", {}, p).port = p
        BY <3>1, HandlerType DEF HandlerStates
      <4> QED
        BY <3>1, <3>2, <3>3, <4>1 DEF V3!isPortAvailable
    <3>4. CASE ~V3!isPortAvailable(p)
      <4> DEFINE x == V3!Handler(h[c].st, h[c].list \ {p}, 0)
      <4>1. x \in Handlers /\ x.st = h[c].st
        BY <1>2, HandlerType
      <4>2. h[c].st # "take"
        BY <2>2 DEF V3!Try
      <4> QED
        BY <3>2, <3>4, <4>1, <4>2
    <3> QED
      BY <3>3, <3>4
  <2>3. CASE V3!Exhausted(c)
    <3> DEFINE L == {p \in ZMQ : slot[p] = "empty"}
    <3>1. \/ h' = [h EXCEPT ![c] = V3!Handler("empty", L, 0)]
          \/ h' = [h EXCEPT ![c] = V3!Idle]
      BY <2>3 DEF V3!Exhausted
    <3>2. V3!Handler("empty", L, 0) \in Handlers /\ V3!Handler("empty", L, 0).st = "empty"
      BY HandlerType DEF HandlerStates
    <3> QED
      BY <3>1, <3>2, RestTypes
  <2> QED
    BY <2>1, <2>2, <2>3
<1>5. FoundStaysFree' /\ h' \in [Owners -> Handlers]
  BY <1>3, <1>4, HandlerKeepsFound DEF V3!book
<1> QED
  BY <1>3, <1>5, BookUntouched DEF LeaseInv, V3!NoDanglingEntry, V3!TypeOK

\* The steps of a handler, and of the relay, that leave the book alone.
LEMMA BesideStep ==
    ASSUME LeaseInv,
           \/ \E c \in Owners : V3!Connect(c) \/ V3!ResetPort(c) \/ V3!HandlerEnds(c)
           \/ \E p \in ZMQ : V3!RelayChanges(p)
    PROVE  LeaseInv'
<1>1. h \in [Owners -> Handlers] /\ on \in SUBSET Owners /\ slot \in [ZMQ -> {"empty", "ready", "busy"}]
  BY DEF LeaseInv, V3!NoDanglingEntry, V3!TypeOK, Handlers, HandlerStates
<1>2. UNCHANGED V3!book /\ UNCHANGED raced
  BY DEF V3!Connect, V3!ResetPort, V3!HandlerEnds, V3!RelayChanges
<1>3. slot' \in [ZMQ -> {"empty", "ready", "busy"}] /\ on' \in SUBSET Owners
  BY <1>1 DEF V3!Connect, V3!ResetPort, V3!HandlerEnds, V3!RelayChanges
<1>4. CASE \E c \in Owners : V3!Connect(c) \/ V3!ResetPort(c) \/ V3!HandlerEnds(c)
  <2>1. PICK c \in Owners : h' = [h EXCEPT ![c] = V3!Idle] \/ h' = [h EXCEPT ![c] = V3!Off]
    BY <1>4 DEF V3!Connect, V3!ResetPort, V3!HandlerEnds
  <2>2. FoundStaysFree' /\ h' \in [Owners -> Handlers]
    BY <1>2, <2>1, RestTypes, HandlerKeepsFound DEF V3!book
  <2> QED
    BY <1>2, <1>3, <2>2, BookUntouched
<1>5. CASE \E p \in ZMQ : V3!RelayChanges(p)
  <2>1. UNCHANGED <<h, leaseOf, raced>>
    BY <1>5 DEF V3!RelayChanges, V3!book
  <2>2. FoundStaysFree' /\ h' \in [Owners -> Handlers]
    BY <1>1, <2>1 DEF LeaseInv, FoundStaysFree
  <2> QED
    BY <1>2, <1>3, <2>2, BookUntouched
<1> QED
  BY <1>4, <1>5

\* The ends of leases: port_release, the departure of the owner, the sweep.
LEMMA EndStep ==
    ASSUME LeaseInv,
           \/ \E c \in Owners, s \in Sids : V3!Release(c, s)
           \/ \E c \in Owners : V3!Unregister(c)
           \/ V3!Sweep
    PROVE  LeaseInv'
<1>1. h \in [Owners -> Handlers] /\ on \in SUBSET Owners
  BY DEF LeaseInv, V3!NoDanglingEntry, V3!TypeOK, Handlers, HandlerStates
<1>2. ASSUME NEW c \in Owners, NEW s \in Sids, V3!Release(c, s)
      PROVE  LeaseInv'
  <2>1. leases[s] \in Lease /\ s \in V3!Live
    BY <1>2 DEF V3!Release, V3!Live, LeaseInv, V3!NoDanglingEntry, V3!TypeOK, Lease
  <2> DEFINE x == V3!Handler("reset", {}, leases[s].port)
  <2>2. x \in Handlers /\ x.st = "reset"
    BY <2>1, LeaseIsSomething, HandlerType DEF HandlerStates
  <2>3. h' = [h EXCEPT ![c] = x] /\ V3!Delete({s}) /\ UNCHANGED <<slot, on, raced>>
    BY <1>2 DEF V3!Release
  <2> HIDE DEF x
  <2>4. h' \in [Owners -> Handlers]
    BY <1>1, <2>2, <2>3
  <2>5. \A d \in Owners : h'[d].st = "take" => h[d].st = "take" /\ h'[d].port = h[d].port
    BY <1>1, <2>2, <2>3
  <2> QED
    BY <1>1, <2>1, <2>3, <2>4, <2>5, DeleteLeases
<1>3. ASSUME NEW c \in Owners, V3!Unregister(c)
      PROVE  LeaseInv'
  <2>1. leasesOf[c] \in SUBSET V3!Live
    BY DEF LeaseInv, V3!NoDanglingEntry, V3!TypeOK
  <2>2. /\ h' = [h EXCEPT ![c] = V3!Off] \/ h' = [h EXCEPT ![c] = h[c]]
        /\ V3!Delete(leasesOf[c]) /\ on' = on \ {c} /\ UNCHANGED <<slot, raced>>
    BY <1>3 DEF V3!Unregister
  <2>3. h' \in [Owners -> Handlers]
    BY <1>1, <2>2, RestTypes
  <2>4. \A d \in Owners : h'[d].st = "take" => h[d].st = "take" /\ h'[d].port = h[d].port
    BY <1>1, <2>2, RestTypes
  <2> QED
    BY <1>1, <2>1, <2>2, <2>3, <2>4, DeleteLeases
<1>4. CASE V3!Sweep
  <2>1. late \in SUBSET V3!Live
    BY DEF LeaseInv, V3!NoDanglingEntry, V3!TypeOK
  <2>2. V3!Delete(late) /\ UNCHANGED <<slot, on, h, raced>>
    BY <1>4 DEF V3!Sweep
  <2> QED
    BY <1>1, <2>1, <2>2, DeleteLeases
<1> QED
  BY <1>2, <1>3, <1>4

LEMMA LeaseExpires ==
    ASSUME LeaseInv, NEW s \in Sids, V3!Expire(s)
    PROVE  LeaseInv'
<1>1. late' = late \cup {s} /\ s \in V3!Live /\ UNCHANGED <<leases, leaseOf, leasesOf, slot, on, h, raced>>
  BY DEF V3!Expire
<1>2. V3!Live' = V3!Live
  BY <1>1 DEF V3!Live
<1>3. V3!NoDanglingEntry'
  BY <1>1, <1>2 DEF LeaseInv, V3!NoDanglingEntry, V3!TypeOK
<1> QED
  BY <1>1, <1>2, <1>3 DEF LeaseInv, V3!ExclusiveUnlessRaced, FoundStaysFree

LEMMA LeaseInitInv == V3!Init => LeaseInv
<1> SUFFICES ASSUME V3!Init PROVE LeaseInv
  OBVIOUS
<1>1. \A c \in Owners : h[c] = V3!Off
  BY DEF V3!Init
<1>2. V3!Live = {}
  BY DEF V3!Init, V3!Live
<1>3. V3!TypeOK
  BY <1>2, RestTypes DEF V3!Init, V3!TypeOK, Handlers, HandlerStates
<1>4. V3!NoDanglingEntry
  BY <1>2, <1>3 DEF V3!Init, V3!NoDanglingEntry
<1>5. FoundStaysFree
  BY <1>1, RestTypes DEF FoundStaysFree
<1> QED
  BY <1>2, <1>4, <1>5 DEF LeaseInv, V3!ExclusiveUnlessRaced

LEMMA LeaseStepInv == LeaseInv /\ [V3!Next]_(V3!vars) => LeaseInv'
<1> SUFFICES ASSUME LeaseInv, [V3!Next]_(V3!vars) PROVE LeaseInv'
  OBVIOUS
<1>1. CASE UNCHANGED V3!vars
  BY <1>1 DEF V3!vars, LeaseInv, V3!NoDanglingEntry, V3!TypeOK, V3!Live,
              V3!ExclusiveUnlessRaced, FoundStaysFree
<1>2. CASE \E c \in Owners : V3!AcquireFromReady(c) \/ V3!Try(c) \/ V3!Exhausted(c)
  BY <1>2, SearchStep
<1>3. CASE \E c \in Owners : V3!reservePort(c)
  BY <1>3, ReserveLease
<1>4. CASE \/ \E c \in Owners : V3!Connect(c) \/ V3!ResetPort(c) \/ V3!HandlerEnds(c)
           \/ \E p \in ZMQ : V3!RelayChanges(p)
  BY <1>4, BesideStep
<1>5. CASE \/ \E c \in Owners, s \in Sids : V3!Release(c, s)
           \/ \E c \in Owners : V3!Unregister(c)
           \/ V3!Sweep
  BY <1>5, EndStep
<1>6. CASE \E s \in Sids : V3!Expire(s)
  BY <1>6, LeaseExpires
<1> QED
  BY <1>1, <1>2, <1>3, <1>4, <1>5, <1>6 DEF V3!Next

\* V3's port manager: for any ports, clients and session ids no entry names a
\* lease that is over, even after two handlers reserved a port between each
\* other's isPortAvailable and reservePort; without such a race a port has one
\* lease, which its entry names until it ends.
THEOREM LeasesAlwaysSound == V3!Spec => []LeasesSound
<1>1. LeaseInv => LeasesSound
  BY DEF LeaseInv, LeasesSound
<1>2. V3!Spec => []LeaseInv
  BY LeaseInitInv, LeaseStepInv, PTL DEF V3!Spec
<1> QED
  BY <1>1, <1>2, PTL
-----------------------------------------------------------------------------
(***************************************************************************)
(* The control hub of V1.  That the auth reply is the first message of a   *)
(* client rests on who may send to it before: nobody but its own handler,  *)
(* because broadcasts choose authed clients only, telemetry belongs to     *)
(* clients that are authed, and a slot is used again when nobody is left   *)
(* that refers to it.                                                      *)
(***************************************************************************)
Lives == {"free", "first", "open", "shut", "locked", "dead", "leaked"}
Casts == UNION {[1 .. n -> CH!Role] : n \in 0 .. 2}

Shapes ==
    /\ life \in [Conns -> Lives] /\ role \in [Conns -> CH!Role]
    /\ first \in [Conns -> {"", "auth", "other"}] /\ phase \in [Conns -> {"off", "auth", "loop"}]
    /\ todo \in [CH!Senders -> SUBSET Conns] /\ casts \in [CH!Senders -> Casts]
    /\ tele \in [Tasks -> Conns \cup {None}] /\ mu \in [Conns -> CH!Senders \cup {None}]
    /\ closing \in [CH!Senders -> Conns \cup {None}]
    /\ full \subseteq Conns /\ gone \subseteq Conns

\* The instance brings its own Cardinality, which is that of FiniteSets.
LEMMA SameCardinality == \A S : CH!Cardinality(S) = Cardinality(S)
  BY DEF CH!Cardinality, Cardinality

\* Who is in the hub's maps, and that there is room for them.
MapsInv ==
    /\ reg = {c \in Conns : life[c] \in {"open", "shut", "locked", "leaked"}}
    /\ authed \subseteq reg \cup {c \in Conns : life[c] = "dead"}
    /\ IsFiniteSet(reg)
    /\ \A r \in CH!Role : Cardinality(CH!Registered(r)) <= CH!Max(r)

\* What a handler has to send in each of its phases.
PhaseInv ==
    \A c \in Conns :
        /\ phase[c] = "off" => todo[c] = {} /\ casts[c] = <<>>
        /\ phase[c] = "auth" => todo[c] \subseteq {c} /\ casts[c] = <<>>
        /\ phase[c] = "loop" => c \in authed
        /\ life[c] \in {"free", "first"} => phase[c] = "off"

\* Who holds a client's c.mu has that client to send to ...
SendInv == \A c \in Conns : mu[c] # None => c \in todo[mu[c]]

\* ... and is its handler, unless the client is authed.
KnownInv ==
    /\ \A c \in Conns, x \in CH!Senders : x # c /\ c \in todo[x] => c \in authed
    /\ \A t \in Tasks : tele[t] # None => tele[t] \in authed
    /\ \A c \in authed : first[c] = "auth"
    /\ \A c \in Conns : first[c] # "other"

HubInv == Shapes /\ MapsInv /\ PhaseInv /\ SendInv /\ KnownInv

LEMMA HubInvImplies == HubInv => CH!AuthFirst
  BY SameCardinality DEF HubInv, Shapes, MapsInv, KnownInv, CH!AuthFirst, CH!TypeOK, Lives, Casts

-----------------------------------------------------------------------------
\* The roles a sender has yet to broadcast to.
LEMMA CastsFacts ==
    /\ <<>> \in Casts
    /\ \A r \in CH!Role : <<r>> \in Casts /\ CH!Other(r) \in CH!Role
    /\ \A r, q \in CH!Role : <<r, q>> \in Casts
    /\ \A s \in Casts : s # <<>> => Head(s) \in CH!Role /\ Tail(s) \in Casts
<1>1. ASSUME NEW s \in Seq(CH!Role), Len(s) \in 0 .. 2
      PROVE  s \in Casts
  <2>1. s \in [1 .. Len(s) -> CH!Role]
    BY LenProperties
  <2> QED
    BY <1>1, <2>1 DEF Casts
<1>2. ASSUME NEW s \in Casts
      PROVE  s \in Seq(CH!Role) /\ Len(s) \in 0 .. 2
  <2>1. PICK n \in 0 .. 2 : s \in [1 .. n -> CH!Role]
    BY DEF Casts
  <2>2. s \in Seq(CH!Role)
    BY <2>1, SeqDef
  <2>3. Len(s) \in Nat /\ 1 .. Len(s) = 1 .. n
    BY <2>1, <2>2, LenProperties
  <2>4. n \in 1 .. n \/ n = 0
    OBVIOUS
  <2>5. Len(s) \in 1 .. Len(s) \/ Len(s) = 0
    BY <2>3
  <2>6. n = Len(s)
    BY <2>3, <2>4, <2>5
  <2> QED
    BY <2>2, <2>6
<1>3. <<>> \in Casts
  <2>1. PICK s : s = <<>>
    OBVIOUS
  <2>2. s \in Seq(CH!Role) /\ Len(s) \in 0 .. 2
    BY <2>1, EmptySeq
  <2> QED
    BY <1>1, <2>1, <2>2, Zenon
<1>4. ASSUME NEW r \in CH!Role
      PROVE  <<r>> \in Casts /\ CH!Other(r) \in CH!Role
  <2>1. PICK s : s = <<r>>
    OBVIOUS
  <2>2. s \in Seq(CH!Role) /\ Len(s) \in 0 .. 2
    BY <2>1
  <2>3. CH!Other(r) \in CH!Role
    BY DEF CH!Other, CH!Role
  <2> QED
    BY <1>1, <2>1, <2>2, <2>3, Zenon
<1>5. ASSUME NEW r \in CH!Role, NEW q \in CH!Role
      PROVE  <<r, q>> \in Casts
  <2>1. PICK s : s = <<r, q>>
    OBVIOUS
  <2>2. s \in Seq(CH!Role) /\ Len(s) \in 0 .. 2
    BY <2>1
  <2> QED
    BY <1>1, <2>1, <2>2, Zenon
<1>6. ASSUME NEW s \in Casts, s # <<>>
      PROVE  Head(s) \in CH!Role /\ Tail(s) \in Casts
  <2>1. s \in Seq(CH!Role) /\ Len(s) \in 0 .. 2
    BY <1>2
  <2>2. PICK t : t = Tail(s)
    OBVIOUS
  <2>3. Head(s) \in CH!Role /\ t \in Seq(CH!Role) /\ Len(t) \in 0 .. 2
    BY <1>6, <2>1, <2>2, HeadTailProperties, EmptySeq
  <2> QED
    BY <1>1, <2>1, <2>2, <2>3, Zenon
<1> QED
  BY <1>3, <1>4, <1>5, <1>6

\* The types are kept by every step.
LEMMA ShapesStep ==
    ASSUME HubInv, CH!Next
    PROVE  Shapes'
<1> USE DEF CH!Senders
<1>1. Shapes
  BY DEF HubInv
<1>2. ASSUME NEW c \in Conns,
             \/ CH!Accept(c) \/ CH!FirstFails(c) \/ CH!ReadFails(c)
             \/ CH!UnregisterLock(c) \/ CH!Unregister(c) \/ CH!Reuse(c)
             \/ CH!Stalls(c) \/ CH!Resumes(c) \/ CH!Leaves(c)
      PROVE  Shapes'
  <2> USE <1>1, <1>2 DEF Shapes, CH!Accept, CH!FirstFails, CH!ReadFails, CH!UnregisterLock, CH!Unregister, CH!Reuse,
                         CH!Stalls, CH!Resumes, CH!Leaves, CH!conns, CH!sends, CH!peers
  <2>1. life' \in [Conns -> Lives]
    BY ZenonT(60) DEF Lives
  <2>2. role' \in [Conns -> CH!Role]
    BY DEF CH!Role
  <2>3. first' \in [Conns -> {"", "auth", "other"}] /\ phase' \in [Conns -> {"off", "auth", "loop"}]
    <3>1. first' = first \/ first' = [first EXCEPT ![c] = ""]
      OBVIOUS
    <3>2. phase' = phase \/ phase' = [phase EXCEPT ![c] = "off"]
      OBVIOUS
    <3>3. first' \in [Conns -> {"", "auth", "other"}]
      BY ONLY <1>1, <3>1 DEF Shapes
    <3>4. phase' \in [Conns -> {"off", "auth", "loop"}]
      BY ONLY <1>1, <3>2 DEF Shapes
    <3> QED
      BY <3>3, <3>4
  <2>4. full' \subseteq Conns /\ gone' \subseteq Conns
    OBVIOUS
  <2>5. UNCHANGED <<todo, casts, tele, mu>>
    OBVIOUS
  <2>6. closing' \in [CH!Senders -> Conns \cup {None}]
    <3>1. closing' = closing \/ closing' = [x \in CH!Senders |-> IF closing[x] = c THEN None ELSE closing[x]]
      OBVIOUS
    <3> QED
      BY ONLY <1>1, <3>1 DEF Shapes
  <2> QED
    BY <2>1, <2>2, <2>3, <2>4, <2>5, <2>6
<1>3. ASSUME NEW c \in Conns, NEW r \in CH!Role, CH!Register(c, r)
      PROVE  Shapes'
  <2>1. UNCHANGED <<first, casts, tele, mu, closing, full, gone>>
    BY <1>3 DEF CH!Register, CH!peers
  <2>2. CASE life' = [life EXCEPT ![c] = "free"] /\ UNCHANGED <<role, reg, phase, todo>>
    <3>1. life' \in [Conns -> Lives]
      BY <1>1, <2>2 DEF Shapes, Lives
    <3> QED
      BY <1>1, <2>1, <2>2, <3>1 DEF Shapes
  <2>3. CASE /\ life' = [life EXCEPT ![c] = "open"] /\ role' = [role EXCEPT ![c] = r]
             /\ phase' = [phase EXCEPT ![c] = "auth"] /\ todo' = [todo EXCEPT ![c] = {c}]
    <3>1. life' \in [Conns -> Lives]
      BY <1>1, <2>3 DEF Shapes, Lives
    <3>2. role' \in [Conns -> CH!Role] /\ phase' \in [Conns -> {"off", "auth", "loop"}]
      BY <1>1, <2>3 DEF Shapes
    <3>3. todo' \in [CH!Senders -> SUBSET Conns]
      BY <1>1, <2>3 DEF Shapes
    <3> QED
      BY <1>1, <2>1, <3>1, <3>2, <3>3 DEF Shapes
  <2> QED
    BY <1>3, <2>2, <2>3 DEF CH!Register
<1>4. ASSUME NEW c \in Conns, NEW reply \in BOOLEAN, NEW cast \in BOOLEAN,
             NEW t \in Tasks \cup {None}, CH!Message(c, reply, cast, t)
      PROVE  Shapes'
  <2>1. role[c] \in CH!Role
    BY <1>1 DEF Shapes
  <2>2. casts' \in [CH!Senders -> Casts]
    BY <1>1, <1>4, <2>1, CastsFacts DEF Shapes, CH!Message
  <2>3. todo' \in [CH!Senders -> SUBSET Conns] /\ tele' \in [Tasks -> Conns \cup {None}]
    BY <1>1, <1>4 DEF Shapes, CH!Message
  <2>4. UNCHANGED <<life, role, first, phase, mu, closing, full, gone>>
    BY <1>4 DEF CH!Message, CH!conns, CH!peers
  <2> QED
    BY <1>1, <2>2, <2>3, <2>4 DEF Shapes
<1>5. ASSUME NEW t \in Tasks, CH!StartBroadcast(t) \/ CH!Tick(t)
      PROVE  Shapes'
  <2>1. UNCHANGED <<life, role, first, phase, mu, full, gone, tele, closing>>
    BY <1>5 DEF CH!StartBroadcast, CH!Tick, CH!conns, CH!peers
  <2>2. casts' \in [CH!Senders -> Casts]
    <3>1. CASE \E r \in CH!Role : casts' = [casts EXCEPT ![t] = <<r, CH!Other(r)>>]
      <4>1. PICK r \in CH!Role : casts' = [casts EXCEPT ![t] = <<r, CH!Other(r)>>]
        BY <3>1
      <4>2. PICK s \in Casts : s = <<r, CH!Other(r)>>
        BY CastsFacts, Zenon
      <4> QED
        BY <1>1, <4>1, <4>2 DEF Shapes
    <3> QED
      BY <1>1, <1>5, <3>1 DEF Shapes, CH!StartBroadcast, CH!Tick
  <2>3. todo' \in [CH!Senders -> SUBSET Conns]
    <3>1. CASE CH!Tick(t)
      <4>1. {tele[t]} \in SUBSET Conns /\ todo' = [todo EXCEPT ![t] = {tele[t]}]
        BY <1>1, <3>1 DEF Shapes, CH!Tick
      <4> QED
        BY <1>1, <4>1 DEF Shapes
    <3> QED
      BY <1>1, <1>5, <3>1 DEF Shapes, CH!StartBroadcast
  <2> QED
    BY <1>1, <2>1, <2>2, <2>3 DEF Shapes
<1>6. ASSUME NEW x \in CH!Senders, CH!BroadcastToRole(x)
      PROVE  Shapes'
  <2>1. UNCHANGED <<life, role, first, phase, mu, full, gone, tele, closing>>
    BY <1>6 DEF CH!BroadcastToRole, CH!conns, CH!peers
  <2>2. casts' \in [CH!Senders -> Casts]
    BY <1>1, <1>6, CastsFacts DEF Shapes, CH!BroadcastToRole
  <2>3. todo' \in [CH!Senders -> SUBSET Conns]
    BY <1>1, <1>6 DEF Shapes, CH!BroadcastToRole, CH!Targets, CH!Registered, HubInv, MapsInv
  <2> QED
    BY <1>1, <2>1, <2>2, <2>3 DEF Shapes
<1>7. ASSUME NEW x \in CH!Senders, NEW c \in Conns,
             CH!SendRefused(x, c) \/ CH!SendLocks(x, c) \/ CH!SendWrites(x, c) \/ CH!SendFails(x, c)
      PROVE  Shapes'
  <2>1. UNCHANGED <<role, full, gone, casts>>
    BY <1>7 DEF CH!SendRefused, CH!SendLocks, CH!SendWrites, CH!SendFails, CH!AfterError,
                CH!conns, CH!peers
  <2>2. /\ first' \in [Conns -> {"", "auth", "other"}]
        /\ phase' \in [Conns -> {"off", "auth", "loop"}]
    BY <1>1, <1>7, ZenonT(60) DEF Shapes, CH!SendRefused, CH!SendLocks, CH!SendWrites, CH!SendFails,
                      CH!AfterError, CH!conns
  <2>5. life' \in [Conns -> Lives] /\ closing' \in [CH!Senders -> Conns \cup {None}]
    <3>1. UNCHANGED <<life, closing>> \/ CH!SendFails(x, c)
      BY <1>7 DEF CH!SendRefused, CH!SendLocks, CH!SendWrites, CH!conns
    <3>2. \/ life' = life
          \/ \E l \in {"shut", "leaked", life[c]} : life' = [life EXCEPT ![c] = l]
      BY <3>1 DEF CH!SendFails
    <3>3. closing' = closing \/ closing' = [closing EXCEPT ![x] = c]
      BY <3>1 DEF CH!SendFails
    <3>4. life' \in [Conns -> Lives]
      BY <1>1, <3>2 DEF Shapes, Lives
    <3>5. closing' \in [CH!Senders -> Conns \cup {None}]
      <4>1. closing \in [CH!Senders -> Conns \cup {None}] /\ x \in CH!Senders /\ c \in Conns
        BY <1>1 DEF Shapes
      <4> QED
        BY ONLY <3>3, <4>1
    <3> QED
      BY <3>4, <3>5
  <2>3. todo' \in [CH!Senders -> SUBSET Conns] /\ mu' \in [Conns -> CH!Senders \cup {None}]
    <3>1. mu' = mu \/ mu' = [mu EXCEPT ![c] = x] \/ mu' = [mu EXCEPT ![c] = None]
      BY <1>7 DEF CH!SendRefused, CH!SendLocks, CH!SendWrites, CH!SendFails
    <3>2. todo' = todo \/ \E T \in SUBSET Conns : todo' = [todo EXCEPT ![x] = T]
      <4>1. todo[x] \ {c} \in SUBSET Conns
        BY <1>1 DEF Shapes
      <4> QED
        BY <1>7, <4>1 DEF CH!SendRefused, CH!SendLocks, CH!SendWrites, CH!SendFails, CH!AfterError
    <3>3. mu' \in [Conns -> CH!Senders \cup {None}]
      BY <1>1, <3>1 DEF Shapes
    <3>4. todo' \in [CH!Senders -> SUBSET Conns]
      BY <1>1, <3>2 DEF Shapes
    <3> QED
      BY <3>3, <3>4
  <2>4. tele' \in [Tasks -> Conns \cup {None}]
    BY <1>1, <1>7 DEF Shapes, CH!SendRefused, CH!SendLocks, CH!SendWrites, CH!SendFails,
                      CH!AfterError, CH!TeleEnds
  <2> QED
    BY <1>1, <2>1, <2>2, <2>3, <2>4, <2>5 DEF Shapes
<1> QED
  BY <1>2, <1>3, <1>4, <1>5, <1>6, <1>7 DEF CH!Next, CH!Sends

\* The maps: a place is taken only while there is room, and a client keeps it
\* until it is unregistered, or for ever when its auth reply failed.
LEMMA MapsStep ==
    ASSUME HubInv, CH!Next
    PROVE  MapsInv'
<1> DEFINE In == {"open", "shut", "locked", "leaked"}
<1>1. Shapes /\ MapsInv
  BY DEF HubInv
<1>2. \A r \in CH!Role : CH!Max(r) \in Nat
  BY MaxAssumption DEF CH!Max
<1>3. ASSUME UNCHANGED <<role, reg, authed>>,
             \A c \in Conns : /\ life'[c] \in In <=> life[c] \in In
                              /\ life[c] = "dead" => life'[c] = "dead"
      PROVE  MapsInv'
  <2>1. \A r : CH!Registered(r)' = CH!Registered(r)
    BY <1>3 DEF CH!Registered
  <2> QED
    BY <1>1, <1>3, <2>1 DEF MapsInv
<1>4. ASSUME UNCHANGED <<life, role, reg, authed>>
      PROVE  MapsInv'
  BY <1>3, <1>4
<1>5. ASSUME NEW c \in Conns, CH!Accept(c) \/ CH!FirstFails(c) \/ CH!ReadFails(c) \/ CH!UnregisterLock(c)
      PROVE  MapsInv'
  <2>1. UNCHANGED <<role, reg, authed>>
    BY <1>5 DEF CH!Accept, CH!FirstFails, CH!ReadFails, CH!UnregisterLock
  <2>2. \A d \in Conns : /\ life'[d] \in In <=> life[d] \in In
                         /\ life[d] = "dead" => life'[d] = "dead"
    BY <1>1, <1>5 DEF Shapes, CH!Accept, CH!FirstFails, CH!ReadFails, CH!UnregisterLock
  <2> QED
    BY <1>3, <2>1, <2>2
<1>6. ASSUME NEW c \in Conns, NEW r \in CH!Role, CH!Register(c, r)
      PROVE  MapsInv'
  <2>0. life[c] = "first" /\ authed' = authed
    BY <1>6 DEF CH!Register
  <2>1. CASE CH!Refuses(r)
    <3>1. UNCHANGED <<role, reg, authed>> /\ life' = [life EXCEPT ![c] = "free"]
      BY <1>6, <2>1 DEF CH!Register
    <3>2. \A d \in Conns : /\ life'[d] \in In <=> life[d] \in In
                           /\ life[d] = "dead" => life'[d] = "dead"
      BY <1>1, <2>0, <3>1 DEF Shapes
    <3> QED
      BY <1>3, <3>1, <3>2
  <2>2. CASE ~CH!Refuses(r)
    <3>1. /\ life' = [life EXCEPT ![c] = "open"] /\ role' = [role EXCEPT ![c] = r]
          /\ reg' = reg \cup {c}
      BY <1>6, <2>2 DEF CH!Register
    <3>2. c \notin reg /\ IsFiniteSet(reg)
      BY <1>1, <2>0 DEF MapsInv
    <3>3. reg' = {d \in Conns : life'[d] \in In}
      BY <1>1, <3>1 DEF MapsInv, Shapes
    <3>4. authed' \subseteq reg' \cup {d \in Conns : life'[d] = "dead"}
      BY <1>1, <2>0, <3>1 DEF MapsInv, Shapes
    <3>5. CH!Registered(r)' = CH!Registered(r) \cup {c}
      BY <1>1, <3>1, <3>2 DEF CH!Registered, Shapes, MapsInv
    <3>6. \A q \in CH!Role : q # r => CH!Registered(q)' = CH!Registered(q)
      BY <1>1, <3>1, <3>2, ZenonT(60) DEF CH!Registered, Shapes, MapsInv
    <3>7. \A q : CH!Registered(q) \subseteq reg
      BY DEF CH!Registered
    <3>8. IsFiniteSet(CH!Registered(r)) /\ Cardinality(CH!Registered(r)) \in Nat
      BY <3>2, <3>7, FS_Subset, FS_CardinalityType
    <3>9. Cardinality(CH!Registered(r)) < CH!Max(r)
      BY <1>2, <2>2, <3>8, SameCardinality DEF CH!Refuses
    <3>10. Cardinality(CH!Registered(r)') <= CH!Max(r)
      <4>1. c \notin CH!Registered(r)
        BY <3>2, <3>7
      <4>2. Cardinality(CH!Registered(r) \cup {c}) = Cardinality(CH!Registered(r)) + 1
        BY <3>8, <4>1, FS_AddElement
      <4> QED
        BY <1>2, <3>5, <3>8, <3>9, <4>2
    <3>11. IsFiniteSet(reg')
      BY <3>1, <3>2, FS_AddElement
    <3>12. \A q \in CH!Role : Cardinality(CH!Registered(q)') <= CH!Max(q)
      BY <1>1, <3>6, <3>10 DEF MapsInv
    <3> QED
      BY <3>3, <3>4, <3>11, <3>12 DEF MapsInv
  <2> QED
    BY <2>1, <2>2
<1>7. ASSUME NEW c \in Conns, CH!Unregister(c)
      PROVE  MapsInv'
  <2>1. /\ life[c] = "locked" /\ life' = [life EXCEPT ![c] = "dead"]
        /\ reg' = reg \ {c} /\ UNCHANGED <<role, authed>>
    BY <1>7 DEF CH!Unregister
  <2>2. reg' = {d \in Conns : life'[d] \in In}
    BY <1>1, <2>1 DEF MapsInv, Shapes
  <2>3. authed' \subseteq reg' \cup {d \in Conns : life'[d] = "dead"}
    BY <1>1, <2>1 DEF MapsInv, Shapes
  <2>4. IsFiniteSet(reg') /\ IsFiniteSet(reg)
    BY <1>1, <2>1, FS_Subset DEF MapsInv
  <2>5. ASSUME NEW q \in CH!Role
        PROVE  Cardinality(CH!Registered(q)') <= CH!Max(q)
    <3>1. CH!Registered(q)' \subseteq CH!Registered(q) /\ CH!Registered(q) \subseteq reg
      BY <2>1 DEF CH!Registered
    <3>2. IsFiniteSet(CH!Registered(q))
      BY <2>4, <3>1, FS_Subset
    <3>3. /\ Cardinality(CH!Registered(q)) \in Nat /\ Cardinality(CH!Registered(q)') \in Nat
          /\ Cardinality(CH!Registered(q)') <= Cardinality(CH!Registered(q))
      BY <3>1, <3>2, FS_Subset, FS_CardinalityType
    <3> QED
      BY <1>1, <1>2, <3>3 DEF MapsInv
  <2> QED
    BY <2>2, <2>3, <2>4, <2>5 DEF MapsInv
<1>8. ASSUME NEW c \in Conns, CH!Reuse(c)
      PROVE  MapsInv'
  <2>1. /\ life[c] = "dead" /\ life' = [life EXCEPT ![c] = "free"]
        /\ authed' = authed \ {c} /\ role' = [role EXCEPT ![c] = "FE"] /\ reg' = reg
    BY <1>8 DEF CH!Reuse
  <2>2. c \notin reg
    BY <1>1, <2>1 DEF MapsInv
  <2>3. \A q : CH!Registered(q)' = CH!Registered(q)
    BY <1>1, <2>1, <2>2 DEF CH!Registered, Shapes, MapsInv
  <2>4. reg' = {d \in Conns : life'[d] \in In}
    BY <1>1, <2>1 DEF MapsInv, Shapes
  <2>5. authed' \subseteq reg' \cup {d \in Conns : life'[d] = "dead"}
    BY <1>1, <2>1 DEF MapsInv, Shapes
  <2> QED
    BY <1>1, <2>1, <2>3, <2>4, <2>5 DEF MapsInv
<1>9. ASSUME NEW x \in CH!Senders, NEW c \in Conns, CH!SendRefused(x, c) \/ CH!SendLocks(x, c) \/ CH!SendFails(x, c)
      PROVE  MapsInv'
  <2>1. UNCHANGED <<role, reg, authed>>
    BY <1>9 DEF CH!SendRefused, CH!SendLocks, CH!SendFails, CH!AfterError, CH!conns
  <2>2. \/ life' = life
        \/ \E l \in {"leaked", "shut", life[c]} : /\ life' = [life EXCEPT ![c] = l]
                                                  /\ life[c] # "open" => l = life[c]
    BY <1>9 DEF CH!SendRefused, CH!SendLocks, CH!SendFails, CH!conns
  <2>3. \A d \in Conns : /\ life'[d] \in In <=> life[d] \in In
                         /\ life[d] = "dead" => life'[d] = "dead"
    BY <1>1, <2>2 DEF Shapes
  <2> QED
    BY <1>3, <2>1, <2>3
<1>10. ASSUME NEW x \in CH!Senders, NEW c \in Conns, CH!SendWrites(x, c)
       PROVE  MapsInv'
  <2>1. UNCHANGED <<life, role, reg>> /\ life[c] = "open" /\ authed' \subseteq authed \cup {c}
    BY <1>10 DEF CH!SendWrites, CH!Broken
  <2>2. \A q : CH!Registered(q)' = CH!Registered(q)
    BY <2>1 DEF CH!Registered
  <2>3. c \in reg
    BY <1>1, <2>1 DEF MapsInv
  <2> QED
    BY <1>1, <2>1, <2>2, <2>3 DEF MapsInv
<1>11. ASSUME \/ \E c \in Conns : CH!Stalls(c) \/ CH!Resumes(c) \/ CH!Leaves(c)
              \/ \E c \in Conns, reply, cast \in BOOLEAN, t \in Tasks \cup {None} : CH!Message(c, reply, cast, t)
              \/ \E t \in Tasks : CH!StartBroadcast(t) \/ CH!Tick(t)
              \/ \E x \in CH!Senders : CH!BroadcastToRole(x)
       PROVE  MapsInv'
  BY <1>4, <1>11 DEF CH!Stalls, CH!Resumes, CH!Leaves, CH!Message, CH!StartBroadcast, CH!Tick, CH!BroadcastToRole, CH!conns
<1> QED
  BY <1>5, <1>6, <1>7, <1>8, <1>9, <1>10, <1>11 DEF CH!Next, CH!Sends

-----------------------------------------------------------------------------
\* What a Send of x to c may change of the work of the senders.
LEMMA SendChanges ==
    ASSUME HubInv, NEW x \in CH!Senders, NEW c \in Conns,
           CH!SendRefused(x, c) \/ CH!SendLocks(x, c) \/ CH!SendWrites(x, c) \/ CH!SendFails(x, c)
    PROVE  /\ \A y \in CH!Senders : y # x => todo'[y] = todo[y]
           /\ todo'[x] = todo[x] \/ todo'[x] = todo[x] \ {c}
           /\ casts' = casts
           /\ \A d \in Conns : d # c => phase'[d] = phase[d] /\ first'[d] = first[d] /\ mu'[d] = mu[d]
           /\ \A d \in Conns : life'[d] \in {"free", "first"} => life[d] \in {"free", "first"}
           /\ authed \subseteq authed'
           /\ \A t \in Tasks : tele'[t] \in {None, tele[t]}
<1>1. Shapes
  BY DEF HubInv
<1>2. todo' = todo \/ todo' = [todo EXCEPT ![x] = todo[x] \ {c}]
  BY DEF CH!SendRefused, CH!SendLocks, CH!SendWrites, CH!SendFails, CH!AfterError
<1>3. phase' = phase \/ phase' = [phase EXCEPT ![c] = "off"] \/ phase' = [phase EXCEPT ![c] = "loop"]
  BY DEF CH!SendRefused, CH!SendLocks, CH!SendWrites, CH!SendFails, CH!AfterError, CH!conns
<1>4. first' = first \/ \E f : first' = [first EXCEPT ![c] = f]
  BY DEF CH!SendRefused, CH!SendLocks, CH!SendWrites, CH!SendFails, CH!AfterError, CH!conns
<1>5. mu' = mu \/ mu' = [mu EXCEPT ![c] = x] \/ mu' = [mu EXCEPT ![c] = None]
  BY DEF CH!SendRefused, CH!SendLocks, CH!SendWrites, CH!SendFails
<1>6. life' = life \/ \E l \in {"leaked", "shut", life[c]} : life' = [life EXCEPT ![c] = l]
  BY DEF CH!SendRefused, CH!SendLocks, CH!SendWrites, CH!SendFails, CH!conns
<1>7. casts' = casts /\ authed \subseteq authed'
  BY DEF CH!SendRefused, CH!SendLocks, CH!SendWrites, CH!SendFails, CH!AfterError, CH!conns
<1>8. tele' = tele \/ (x \in Tasks /\ tele' = [tele EXCEPT ![x] = None])
  BY DEF CH!SendRefused, CH!SendLocks, CH!SendWrites, CH!SendFails, CH!AfterError, CH!TeleEnds
<1>9. (\A y \in CH!Senders : y # x => todo'[y] = todo[y]) /\ (todo'[x] = todo[x] \/ todo'[x] = todo[x] \ {c})
  BY <1>1, <1>2 DEF Shapes
<1>10. \A d \in Conns : d # c => phase'[d] = phase[d] /\ first'[d] = first[d] /\ mu'[d] = mu[d]
  BY <1>1, <1>3, <1>4, <1>5 DEF Shapes
<1>11. \A d \in Conns : life'[d] \in {"free", "first"} => life[d] \in {"free", "first"}
  BY <1>1, <1>6 DEF Shapes
<1>12. \A t \in Tasks : tele'[t] \in {None, tele[t]}
  BY <1>1, <1>8 DEF Shapes
<1> QED
  BY <1>7, <1>9, <1>10, <1>11, <1>12

\* A handler has sent what it had to send when it turns to something else.
LEMMA PhaseStep ==
    ASSUME HubInv, CH!Next
    PROVE  PhaseInv'
<1> DEFINE Q(d) == /\ phase[d] = "off" => todo[d] = {} /\ casts[d] = <<>>
                   /\ phase[d] = "auth" => todo[d] \subseteq {d} /\ casts[d] = <<>>
                   /\ phase[d] = "loop" => d \in authed
                   /\ life[d] \in {"free", "first"} => phase[d] = "off"
<1>1. Shapes /\ \A d \in Conns : Q(d)
  BY DEF HubInv, PhaseInv
<1>2. Conns \subseteq CH!Senders /\ Tasks \subseteq CH!Senders /\ Conns \cap Tasks = {}
  BY ConnAssumption DEF CH!Senders
<1>3. ASSUME \A d \in Conns : Q(d)'
      PROVE  PhaseInv'
  BY <1>3 DEF PhaseInv
<1>4. ASSUME NEW c \in Conns,
             \/ CH!Accept(c) \/ CH!FirstFails(c) \/ CH!UnregisterLock(c) \/ CH!Unregister(c) \/ CH!Reuse(c)
             \/ CH!Stalls(c) \/ CH!Resumes(c) \/ CH!Leaves(c),
             NEW d \in Conns
      PROVE  Q(d)'
  <2>1. UNCHANGED <<phase, todo, casts>>
    BY <1>4 DEF CH!Accept, CH!FirstFails, CH!UnregisterLock, CH!Unregister, CH!Reuse, CH!Stalls, CH!Resumes, CH!Leaves, CH!conns, CH!sends
  <2>2. authed' = authed \/ (phase[c] = "off" /\ authed' = authed \ {c})
    BY <1>4 DEF CH!Accept, CH!FirstFails, CH!UnregisterLock, CH!Unregister, CH!Reuse, CH!Stalls, CH!Resumes, CH!Leaves, CH!conns
  <2>3. life'[d] \in {"free", "first"} => life[d] \in {"free", "first"} \/ phase[d] = "off"
    <3>1. \/ life' = life
          \/ \E l : /\ life' = [life EXCEPT ![c] = l]
                    /\ l \in {"free", "first"} => life[c] \in {"free", "first"} \/ phase[c] = "off"
      BY <1>4 DEF CH!Accept, CH!FirstFails, CH!UnregisterLock, CH!Unregister, CH!Reuse, CH!Stalls, CH!Resumes, CH!Leaves, CH!conns
    <3>2. life \in [Conns -> Lives]
      BY <1>1 DEF Shapes
    <3>3. CASE \E l : /\ life' = [life EXCEPT ![c] = l]
                      /\ l \in {"free", "first"} => life[c] \in {"free", "first"} \/ phase[c] = "off"
      <4>1. PICK l : /\ life' = [life EXCEPT ![c] = l]
                     /\ l \in {"free", "first"} => life[c] \in {"free", "first"} \/ phase[c] = "off"
        BY <3>3
      <4>2. CASE d = c
        BY <3>2, <4>1, <4>2
      <4>3. CASE d # c
        BY <3>2, <4>1, <4>3
      <4> QED
        BY <4>2, <4>3
    <3>4. CASE life' = life
      BY <3>4
    <3> QED
      BY <3>1, <3>3, <3>4
  <2> QED
    BY <1>1, <2>1, <2>2, <2>3
<1>5. ASSUME NEW c \in Conns, NEW r \in CH!Role, CH!Register(c, r), NEW d \in Conns
      PROVE  Q(d)'
  <2>1. life[c] = "first" /\ UNCHANGED <<casts, authed>> /\ phase[c] = "off"
    BY <1>1, <1>5 DEF CH!Register
  <2>2. CASE life' = [life EXCEPT ![c] = "free"] /\ UNCHANGED <<phase, todo>>
    BY <1>1, <2>1, <2>2 DEF Shapes
  <2>3. CASE /\ life' = [life EXCEPT ![c] = "open"]
             /\ phase' = [phase EXCEPT ![c] = "auth"] /\ todo' = [todo EXCEPT ![c] = {c}]
    <3>1. CASE d = c
      BY <1>1, <1>2, <2>1, <2>3, <3>1 DEF Shapes
    <3>2. CASE d # c
      <4>1. life'[d] = life[d] /\ phase'[d] = phase[d] /\ todo'[d] = todo[d]
        BY <1>1, <1>2, <2>3, <3>2 DEF Shapes
      <4> QED
        BY <1>1, <2>1, <4>1
    <3> QED
      BY <3>1, <3>2
  <2> QED
    BY <1>5, <2>2, <2>3 DEF CH!Register
<1>6. ASSUME NEW c \in Conns, NEW reply \in BOOLEAN, NEW cast \in BOOLEAN,
             NEW t \in Tasks \cup {None}, CH!Message(c, reply, cast, t), NEW d \in Conns
      PROVE  Q(d)'
  <2>1. UNCHANGED <<life, phase, authed>> /\ phase[c] = "loop" /\ life[c] = "open"
    BY <1>6 DEF CH!Message, CH!conns
  <2>2. d # c => todo'[d] = todo[d] /\ casts'[d] = casts[d]
    BY <1>1, <1>2, <1>6 DEF CH!Message, Shapes
  <2> QED
    BY <1>1, <2>1, <2>2
<1>7. ASSUME NEW c \in Conns, CH!ReadFails(c), NEW d \in Conns
      PROVE  Q(d)'
  <2>1. /\ phase' = [phase EXCEPT ![c] = "off"] /\ todo[c] = {} /\ casts[c] = <<>>
        /\ UNCHANGED <<todo, casts, authed>>
    BY <1>7 DEF CH!ReadFails, CH!Idle, CH!sends
  <2>2. life'[d] \in {"free", "first"} => life[d] \in {"free", "first"}
    BY <1>1, <1>7 DEF Shapes, CH!ReadFails
  <2> QED
    BY <1>1, <2>1, <2>2 DEF Shapes
<1>8. ASSUME NEW t \in Tasks, CH!StartBroadcast(t) \/ CH!Tick(t), NEW d \in Conns
      PROVE  Q(d)'
  <2>1. UNCHANGED <<life, phase, authed>>
    BY <1>8 DEF CH!StartBroadcast, CH!Tick, CH!conns
  <2>2. todo' = todo \/ \E T : todo' = [todo EXCEPT ![t] = T]
    BY <1>8 DEF CH!StartBroadcast, CH!Tick
  <2>3. casts' = casts \/ \E s : casts' = [casts EXCEPT ![t] = s]
    BY <1>8 DEF CH!StartBroadcast, CH!Tick
  <2>4. d # t /\ d \in CH!Senders /\ t \in CH!Senders
    BY <1>2
  <2>5. todo'[d] = todo[d]
    BY <1>1, <2>2, <2>4 DEF Shapes
  <2>6. casts'[d] = casts[d]
    BY <1>1, <2>3, <2>4 DEF Shapes
  <2> QED
    BY <1>1, <2>1, <2>5, <2>6
<1>9. ASSUME NEW x \in CH!Senders, CH!BroadcastToRole(x), NEW d \in Conns
      PROVE  Q(d)'
  <2>1. UNCHANGED <<life, phase, authed>> /\ casts[x] # <<>>
    BY <1>9 DEF CH!BroadcastToRole, CH!conns
  <2>2. d # x => todo'[d] = todo[d] /\ casts'[d] = casts[d]
    BY <1>1, <1>2, <1>9 DEF CH!BroadcastToRole, Shapes
  <2>3. phase[d] \in {"off", "auth", "loop"}
    BY <1>1 DEF Shapes
  <2>4. d = x => phase[d] = "loop"
    BY <1>1, <2>1, <2>3
  <2> QED
    BY <1>1, <2>1, <2>2, <2>4
<1>10. ASSUME NEW x \in CH!Senders, NEW c \in Conns,
              CH!SendRefused(x, c) \/ CH!SendLocks(x, c) \/ CH!SendWrites(x, c) \/ CH!SendFails(x, c),
              NEW d \in Conns
       PROVE  Q(d)'
  <2>1. /\ casts'[d] = casts[d] /\ authed \subseteq authed' /\ todo'[d] \subseteq todo[d]
        /\ life'[d] \in {"free", "first"} => life[d] \in {"free", "first"}
    BY <1>2, <1>10, SendChanges
  <2>2. CASE phase'[d] = phase[d]
    BY <1>1, <2>1, <2>2
  <2>3. CASE phase'[d] # phase[d]
    <3>1. d = c
      BY <1>10, <2>3, SendChanges
    <3>2. x = c /\ phase[c] = "auth"
      BY <1>10, <2>3, <3>1 DEF CH!SendRefused, CH!SendLocks, CH!SendWrites, CH!SendFails, CH!AfterError, CH!conns
    <3>3. \/ phase'[c] = "off" /\ todo'[c] = todo[c] \ {c}
          \/ phase'[c] = "loop" /\ c \in authed'
      <4>1. CASE CH!AfterError(c, c)
        BY <1>1, <1>2, <3>2, <4>1 DEF Shapes, CH!AfterError
      <4>2. CASE CH!SendWrites(c, c)
        <5>1. phase' = [phase EXCEPT ![c] = "loop"] /\ authed' = authed \cup {c}
          BY <3>2, <4>2 DEF CH!SendWrites
        <5> QED
          BY <1>1, <5>1 DEF Shapes
      <4> QED
        BY <1>10, <2>3, <3>1, <3>2, <4>1, <4>2 DEF CH!SendRefused, CH!SendLocks, CH!SendFails, CH!conns
    <3>4. phase'[c] = "off" => todo'[c] = {}
      BY <1>1, <3>2, <3>3
    <3>5. life[c] \notin {"free", "first"} /\ casts[c] = <<>>
      BY <1>1, <3>2
    <3> QED
      BY <2>1, <3>1, <3>3, <3>4, <3>5
  <2> QED
    BY <2>2, <2>3
<1> HIDE DEF Q
<1>11. \A d \in Conns : Q(d)'
  BY <1>4, <1>5, <1>6, <1>7, <1>8, <1>9, <1>10 DEF CH!Next, CH!Sends
<1> QED
  BY <1>3, <1>11

\* c.mu is held by a sender that has this client to send to.
LEMMA SendStep ==
    ASSUME HubInv, CH!Next
    PROVE  SendInv'
<1>1. Shapes /\ SendInv /\ PhaseInv
  BY DEF HubInv
<1>2. Conns \subseteq CH!Senders /\ Tasks \subseteq CH!Senders
  BY DEF CH!Senders
<1>3. ASSUME UNCHANGED <<todo, mu>>
      PROVE  SendInv'
  BY <1>1, <1>3 DEF SendInv
\* Only one who sends nothing is given something new to send.
<1>4. ASSUME NEW x \in CH!Senders, UNCHANGED mu, \A d \in Conns : mu[d] # x,
             \E T : todo' = [todo EXCEPT ![x] = T]
      PROVE  SendInv'
  <2>1. \A y \in CH!Senders : y # x => todo'[y] = todo[y]
    BY <1>1, <1>4 DEF Shapes
  <2>2. \A d \in Conns : mu[d] # None => mu[d] \in CH!Senders
    BY <1>1 DEF Shapes
  <2> QED
    BY <1>1, <1>4, <2>1, <2>2 DEF SendInv
<1>5. ASSUME NEW c \in Conns, NEW r \in CH!Role, CH!Register(c, r)
      PROVE  SendInv'
  <2>1. todo[c] = {}
    BY <1>1, <1>5 DEF PhaseInv, CH!Register
  <2>2. \A d \in Conns : mu[d] # c
    <3> SUFFICES ASSUME NEW d \in Conns, mu[d] = c PROVE FALSE
      OBVIOUS
    <3>1. c # None
      BY ConnAssumption
    <3> QED
      BY <1>1, <2>1, <3>1 DEF SendInv
  <2>3. mu' = mu /\ (todo' = todo \/ todo' = [todo EXCEPT ![c] = {c}])
    BY <1>5 DEF CH!Register
  <2> QED
    BY <1>2, <1>3, <1>4, <2>2, <2>3
<1>6. ASSUME NEW c \in Conns, NEW reply \in BOOLEAN, NEW cast \in BOOLEAN,
             NEW t \in Tasks \cup {None}, CH!Message(c, reply, cast, t)
      PROVE  SendInv'
  BY <1>2, <1>4, <1>6 DEF CH!Message, CH!Idle, CH!Between
<1>7. ASSUME NEW t \in Tasks, CH!Tick(t)
      PROVE  SendInv'
  BY <1>2, <1>4, <1>7 DEF CH!Tick, CH!Idle, CH!Between
<1>8. ASSUME NEW x \in CH!Senders, CH!BroadcastToRole(x)
      PROVE  SendInv'
  BY <1>4, <1>8 DEF CH!BroadcastToRole, CH!Between
<1>9. ASSUME NEW x \in CH!Senders, NEW c \in Conns, CH!SendRefused(x, c)
      PROVE  SendInv'
  BY <1>4, <1>9 DEF CH!SendRefused, CH!AfterError, CH!Between
<1>10. ASSUME NEW x \in CH!Senders, NEW c \in Conns, CH!SendLocks(x, c)
       PROVE  SendInv'
  <2>1. c \in todo[x] /\ mu' = [mu EXCEPT ![c] = x] /\ todo' = todo
    BY <1>10 DEF CH!SendLocks
  <2> QED
    BY <1>1, <2>1 DEF SendInv, Shapes
<1>11. ASSUME NEW x \in CH!Senders, NEW c \in Conns, CH!SendWrites(x, c) \/ CH!SendFails(x, c)
       PROVE  SendInv'
  <2>1. mu' = [mu EXCEPT ![c] = None]
    BY <1>11 DEF CH!SendWrites, CH!SendFails
  <2>2. \A y \in CH!Senders : todo[y] \ {c} \subseteq todo'[y]
    BY <1>11, SendChanges
  <2> SUFFICES ASSUME NEW d \in Conns, mu'[d] # None
               PROVE  d \in todo'[mu'[d]]
    BY DEF SendInv
  <2>3. d # c /\ mu'[d] = mu[d] /\ mu[d] \in CH!Senders
    BY <1>1, <2>1 DEF Shapes
  <2>4. d \in todo[mu[d]]
    BY <1>1, <2>3 DEF SendInv
  <2> QED
    BY <2>2, <2>3, <2>4
<1>12. ASSUME \/ \E c \in Conns : \/ CH!Accept(c) \/ CH!FirstFails(c) \/ CH!ReadFails(c) \/ CH!UnregisterLock(c)
                                  \/ CH!Unregister(c) \/ CH!Reuse(c) \/ CH!Stalls(c) \/ CH!Resumes(c) \/ CH!Leaves(c)
              \/ \E t \in Tasks : CH!StartBroadcast(t)
       PROVE  SendInv'
  BY <1>3, <1>12 DEF CH!Accept, CH!FirstFails, CH!ReadFails, CH!UnregisterLock, CH!Unregister, CH!Reuse, CH!Stalls,
                     CH!Resumes, CH!Leaves, CH!StartBroadcast, CH!sends
<1> QED
  BY <1>5, <1>6, <1>7, <1>8, <1>9, <1>10, <1>11, <1>12 DEF CH!Next, CH!Sends

\* Who writes to a client before its auth reply is the handler with that reply.
LEMMA FirstWrite ==
    ASSUME HubInv, NEW x \in CH!Senders, NEW c \in Conns, mu[c] = x, c \notin authed
    PROVE  x = c /\ phase[c] = "auth"
<1>1. c \in todo[x]
  <2>1. x # None
    BY ConnAssumption DEF CH!Senders
  <2> QED
    BY <2>1 DEF HubInv, SendInv
<1>2. x = c
  BY <1>1 DEF HubInv, KnownInv
<1>3. phase[c] \in {"off", "auth", "loop"}
  BY DEF HubInv, Shapes
<1> QED
  BY <1>1, <1>2, <1>3 DEF HubInv, PhaseInv

LEMMA KnownStep ==
    ASSUME HubInv, CH!Next
    PROVE  KnownInv'
<1>1. Shapes /\ KnownInv /\ PhaseInv
  BY DEF HubInv
<1>2. Conns \subseteq CH!Senders /\ Tasks \subseteq CH!Senders
  BY DEF CH!Senders
<1>3. ASSUME UNCHANGED <<todo, authed, tele, first>>
      PROVE  KnownInv'
  BY <1>1, <1>3 DEF KnownInv
\* A handler's replies go to its own client, all else to authed clients.
<1>4. ASSUME NEW x \in CH!Senders, NEW T, todo' = [todo EXCEPT ![x] = T], T \subseteq authed \cup {x},
             UNCHANGED <<authed, tele, first>>
      PROVE  KnownInv'
  <2>1. ASSUME NEW d \in Conns, NEW y \in CH!Senders, y # d, d \in todo'[y]
        PROVE  d \in authed'
    <3>1. CASE y = x
      BY <1>1, <1>4, <2>1, <3>1 DEF Shapes
    <3>2. CASE y # x
      BY <1>1, <1>4, <2>1, <3>2 DEF Shapes, KnownInv
    <3> QED
      BY <3>1, <3>2
  <2> QED
    BY <1>1, <1>4, <2>1 DEF KnownInv
<1>5. ASSUME NEW c \in Conns, NEW r \in CH!Role, CH!Register(c, r)
      PROVE  KnownInv'
  <2>1. UNCHANGED <<authed, tele, first>> /\ (todo' = todo \/ todo' = [todo EXCEPT ![c] = {c}])
    BY <1>5 DEF CH!Register
  <2> QED
    BY <1>2, <1>3, <1>4, <2>1
<1>6. ASSUME NEW c \in Conns, NEW reply \in BOOLEAN, NEW cast \in BOOLEAN,
             NEW t \in Tasks \cup {None}, CH!Message(c, reply, cast, t)
      PROVE  KnownInv'
  <2>1. /\ phase[c] = "loop" /\ UNCHANGED <<authed, first>>
        /\ tele' = tele \/ (t \in Tasks /\ tele' = [tele EXCEPT ![t] = c])
    BY <1>6 DEF CH!Message, CH!conns
  <2>2. c \in authed
    BY <1>1, <2>1 DEF PhaseInv
  <2>3. ASSUME NEW d \in Conns, NEW y \in CH!Senders, y # d, d \in todo'[y]
        PROVE  d \in authed'
    <3>1. todo'[y] = todo[y] \/ (y = c /\ todo'[y] \subseteq {c})
      BY <1>1, <1>2, <1>6 DEF CH!Message, Shapes
    <3> QED
      BY <1>1, <2>1, <2>3, <3>1 DEF KnownInv
  <2>4. \A u \in Tasks : tele'[u] # None => tele'[u] \in authed'
    BY <1>1, <2>1, <2>2 DEF KnownInv, Shapes
  <2> QED
    BY <1>1, <2>1, <2>3, <2>4 DEF KnownInv
<1>7. ASSUME NEW t \in Tasks, CH!Tick(t)
      PROVE  KnownInv'
  <2>1. tele[t] \in authed
    BY <1>1, <1>7 DEF CH!Tick, KnownInv
  <2>2. todo' = [todo EXCEPT ![t] = {tele[t]}] /\ UNCHANGED <<authed, tele, first>>
    BY <1>7 DEF CH!Tick, CH!conns
  <2>3. PICK T : T = {tele[t]}
    OBVIOUS
  <2>4. todo' = [todo EXCEPT ![t] = T] /\ T \subseteq authed /\ t \in CH!Senders
    BY <1>2, <2>1, <2>2, <2>3
  <2> QED
    BY <1>4, <2>2, <2>4
<1>8. ASSUME NEW x \in CH!Senders, CH!BroadcastToRole(x)
      PROVE  KnownInv'
  <2> DEFINE T == CH!Targets(Head(casts[x]))
  <2>1. todo' = [todo EXCEPT ![x] = T] /\ UNCHANGED <<authed, tele, first>>
    BY <1>8 DEF CH!BroadcastToRole, CH!conns
  <2>2. T \subseteq authed
    BY DEF CH!Targets
  <2> HIDE DEF T
  <2> QED
    BY <1>4, <2>1, <2>2
<1>9. ASSUME NEW c \in Conns, CH!Reuse(c)
      PROVE  KnownInv'
  <2>1. /\ authed' = authed \ {c} /\ first' = [first EXCEPT ![c] = ""] /\ UNCHANGED <<todo, tele>>
        /\ \A x \in CH!Senders : c \notin todo[x]
        /\ \A t \in Tasks : tele[t] # c
    BY <1>9 DEF CH!Reuse, CH!sends
  <2>2. \A d \in Conns, x \in CH!Senders : x # d /\ d \in todo'[x] => d \in authed'
    BY <1>1, <2>1 DEF KnownInv
  <2>3. \A t \in Tasks : tele'[t] # None => tele'[t] \in authed'
    BY <1>1, <2>1 DEF KnownInv
  <2>4. \A d \in Conns : d # c => first'[d] = first[d]
    BY <1>1, <2>1 DEF Shapes
  <2>5. first'[c] = "" /\ authed' \subseteq Conns
    BY <1>1, <2>1 DEF Shapes, HubInv, MapsInv
  <2> QED
    BY <1>1, <2>1, <2>2, <2>3, <2>4, <2>5 DEF KnownInv
<1>10. ASSUME NEW x \in CH!Senders, NEW c \in Conns,
              CH!SendRefused(x, c) \/ CH!SendLocks(x, c) \/ CH!SendWrites(x, c) \/ CH!SendFails(x, c)
       PROVE  KnownInv'
  <2>1. /\ \A y \in CH!Senders : todo'[y] \subseteq todo[y]
        /\ authed \subseteq authed' /\ \A t \in Tasks : tele'[t] \in {None, tele[t]}
        /\ \A d \in Conns : d # c => first'[d] = first[d]
    BY <1>10, SendChanges
  <2>2. authed' \subseteq authed \cup {c}
    BY <1>10 DEF CH!SendRefused, CH!SendLocks, CH!SendWrites, CH!SendFails, CH!AfterError, CH!conns
  <2>3. first'[c] # "other" /\ (c \in authed' => first'[c] = "auth")
    <3>1. first[c] \in {"", "auth"} /\ (c \in authed => first[c] = "auth")
      BY <1>1 DEF Shapes, KnownInv
    <3>2. CASE UNCHANGED <<first, authed>>
      BY <3>1, <3>2
    <3>3. CASE CH!SendWrites(x, c)
      <4> DEFINE auth == x = c /\ phase[c] = "auth"
      <4>1. /\ first'[c] = IF first[c] # "" THEN first[c] ELSE IF auth THEN "auth" ELSE "other"
            /\ authed' = IF auth THEN authed \cup {c} ELSE authed
        BY <1>1, <3>3 DEF CH!SendWrites, Shapes
      <4>2. auth \/ c \in authed
        BY <3>3, FirstWrite DEF CH!SendWrites
      <4> HIDE DEF auth
      <4> QED
        BY <3>1, <4>1, <4>2
    <3> QED
      BY <1>10, <3>2, <3>3 DEF CH!SendRefused, CH!SendLocks, CH!SendFails, CH!AfterError, CH!conns
  <2>4. authed' \subseteq Conns
    BY <2>2 DEF HubInv, MapsInv
  <2> QED
    BY <1>1, <2>1, <2>2, <2>3, <2>4 DEF KnownInv
<1>11. ASSUME \/ \E c \in Conns : \/ CH!Accept(c) \/ CH!FirstFails(c) \/ CH!ReadFails(c) \/ CH!UnregisterLock(c)
                                  \/ CH!Unregister(c) \/ CH!Stalls(c) \/ CH!Resumes(c) \/ CH!Leaves(c)
              \/ \E t \in Tasks : CH!StartBroadcast(t)
       PROVE  KnownInv'
  BY <1>3, <1>11 DEF CH!Accept, CH!FirstFails, CH!ReadFails, CH!UnregisterLock, CH!Unregister, CH!Stalls,
                     CH!Resumes, CH!Leaves, CH!StartBroadcast, CH!sends, CH!conns
<1> QED
  BY <1>5, <1>6, <1>7, <1>8, <1>9, <1>10, <1>11 DEF CH!Next, CH!Sends

-----------------------------------------------------------------------------
(* Who takes an entry out of the hub's maps.                                *)

AttendedInv ==
    \A c \in Conns :
        /\ life[c] = "open" => phase[c] # "off"
        /\ life[c] = "leaked" => phase[c] = "off" /\ c \notin authed /\ first[c] = ""
        /\ phase[c] = "auth" => life[c] = "open" /\ c \notin authed /\ first[c] = ""
        /\ life[c] \in {"free", "first"} => first[c] = ""

LEMMA AttendedStep ==
    ASSUME HubInv, AttendedInv, CH!Next
    PROVE  AttendedInv'
<1> DEFINE A(d) == /\ life[d] = "open" => phase[d] # "off"
                   /\ life[d] = "leaked" => phase[d] = "off" /\ d \notin authed /\ first[d] = ""
                   /\ phase[d] = "auth" => life[d] = "open" /\ d \notin authed /\ first[d] = ""
                   /\ life[d] \in {"free", "first"} => first[d] = ""
<1>1. Shapes /\ \A d \in Conns : A(d)
  BY DEF HubInv, AttendedInv
<1>2. \A d \in Conns : life[d] \in {"free", "first"} => d \notin authed /\ phase[d] = "off"
  BY DEF HubInv, MapsInv, PhaseInv
<1>3. ASSUME NEW c \in Conns,
             \/ CH!Accept(c) \/ CH!FirstFails(c) \/ CH!UnregisterLock(c) \/ CH!Unregister(c)
             \/ CH!Stalls(c) \/ CH!Resumes(c) \/ CH!Leaves(c),
             NEW d \in Conns
      PROVE  A(d)'
  <2>1. UNCHANGED <<phase, first, authed>>
    BY <1>3 DEF CH!Accept, CH!FirstFails, CH!UnregisterLock, CH!Unregister, CH!Stalls, CH!Resumes, CH!Leaves, CH!conns
  <2>2. \/ life' = life
        \/ life[c] \in {"free", "first"} /\ \E l \in {"free", "first"} : life' = [life EXCEPT ![c] = l]
        \/ life[c] \in {"shut", "locked"} /\ \E l \in {"locked", "dead"} : life' = [life EXCEPT ![c] = l]
    BY <1>3 DEF CH!Accept, CH!FirstFails, CH!UnregisterLock, CH!Unregister, CH!Stalls, CH!Resumes, CH!Leaves, CH!conns
  <2> QED
    BY <1>1, <1>2, <2>1, <2>2 DEF Shapes
<1>4. ASSUME NEW c \in Conns, CH!Reuse(c), NEW d \in Conns
      PROVE  A(d)'
  <2>1. /\ life[c] = "dead" /\ phase[c] = "off" /\ phase' = phase
        /\ life' = [life EXCEPT ![c] = "free"] /\ authed' = authed \ {c}
        /\ first' = [first EXCEPT ![c] = ""]
    BY <1>4 DEF CH!Reuse
  <2> QED
    BY <1>1, <2>1 DEF Shapes
<1>5. ASSUME NEW c \in Conns, NEW r \in CH!Role, CH!Register(c, r), NEW d \in Conns
      PROVE  A(d)'
  <2>1. life[c] = "first" /\ UNCHANGED <<authed, first>>
    BY <1>5 DEF CH!Register
  <2>2. \/ life' = [life EXCEPT ![c] = "free"] /\ phase' = phase
        \/ life' = [life EXCEPT ![c] = "open"] /\ phase' = [phase EXCEPT ![c] = "auth"]
    BY <1>5 DEF CH!Register
  <2> QED
    BY <1>1, <1>2, <2>1, <2>2 DEF Shapes
<1>6. ASSUME NEW c \in Conns, CH!ReadFails(c), NEW d \in Conns
      PROVE  A(d)'
  <2>1. /\ phase[c] = "loop" /\ phase' = [phase EXCEPT ![c] = "off"] /\ UNCHANGED <<authed, first>>
        /\ life' = [life EXCEPT ![c] = IF @ = "open" THEN "shut" ELSE @]
    BY <1>6 DEF CH!ReadFails
  <2> QED
    BY <1>1, <2>1 DEF Shapes
<1>7. ASSUME UNCHANGED <<life, phase, authed, first>>, NEW d \in Conns
      PROVE  A(d)'
  BY <1>1, <1>7
<1>8. ASSUME NEW x \in CH!Senders, NEW c \in Conns, c \in todo[x], x # c \/ phase[c] # "auth"
      PROVE  c \in authed /\ phase[c] # "auth"
  <2>1. CASE x # c
    BY <1>1, <1>8, <2>1 DEF HubInv, KnownInv
  <2>2. CASE x = c
    <3>1. phase[c] = "loop"
      BY <1>1, <1>8, <2>2 DEF HubInv, PhaseInv, Shapes
    <3> QED
      BY <3>1 DEF HubInv, PhaseInv
  <2> QED
    BY <2>1, <2>2
<1>9. ASSUME NEW x \in CH!Senders, NEW c \in Conns, CH!SendRefused(x, c) \/ CH!SendLocks(x, c), NEW d \in Conns
      PROVE  A(d)'
  <2>1. UNCHANGED <<life, authed, first>> /\ (phase' = phase \/ (phase[c] = "auth" /\ life[c] # "open"))
    <3>1. CASE CH!SendRefused(x, c)
      <4>1. UNCHANGED <<life, authed, first>> /\ life[c] # "open"
        BY <3>1 DEF CH!SendRefused, CH!AfterError
      <4>2. phase' = phase \/ phase[c] = "auth"
        BY <3>1 DEF CH!SendRefused, CH!AfterError
      <4> QED
        BY <4>1, <4>2
    <3>2. CASE CH!SendLocks(x, c)
      BY <3>2 DEF CH!SendLocks, CH!conns
    <3> QED
      BY <1>9, <3>1, <3>2
  <2> QED
    BY <1>1, <2>1
<1>10. ASSUME NEW x \in CH!Senders, NEW c \in Conns, CH!SendWrites(x, c), NEW d \in Conns
       PROVE  A(d)'
  <2>1. c \in todo[x] /\ life' = life
    <3>1. mu[c] = x /\ x # None /\ life' = life
      BY <1>10, ConnAssumption DEF CH!SendWrites, CH!Senders
    <3> QED
      BY <3>1 DEF HubInv, SendInv
  <2>2. CASE x = c /\ phase[c] = "auth"
    <3>1. /\ first' = [first EXCEPT ![c] = IF @ # "" THEN @ ELSE "auth"]
          /\ authed' = authed \cup {c} /\ phase' = [phase EXCEPT ![c] = "loop"]
      BY <1>10, <2>2 DEF CH!SendWrites
    <3>2. life[c] = "open"
      BY <1>1, <2>2
    <3> QED
      BY <1>1, <2>1, <3>1, <3>2 DEF Shapes
  <2>3. CASE ~(x = c /\ phase[c] = "auth")
    <3>1. UNCHANGED <<authed, phase>> /\ \E f : first' = [first EXCEPT ![c] = f]
      BY <1>10, <2>3 DEF CH!SendWrites
    <3>2. c \in authed /\ phase[c] # "auth"
      BY <1>8, <2>1, <2>3
    <3> QED
      BY <1>1, <1>2, <2>1, <3>1, <3>2 DEF Shapes
  <2> QED
    BY <2>2, <2>3
<1>11. ASSUME NEW x \in CH!Senders, NEW c \in Conns, CH!SendFails(x, c), NEW d \in Conns
       PROVE  A(d)'
  <2>1. c \in todo[x] /\ UNCHANGED <<authed, first>>
    <3>1. mu[c] = x /\ x # None /\ UNCHANGED <<authed, first>>
      BY <1>11, ConnAssumption DEF CH!SendFails, CH!AfterError, CH!Senders
    <3> QED
      BY <3>1 DEF HubInv, SendInv
  <2>2. CASE x = c /\ phase[c] = "auth"
    <3>1. life[c] = "open" /\ c \notin authed /\ first[c] = ""
      BY <1>1, <2>2
    <3>2. life' = [life EXCEPT ![c] = "leaked"] /\ phase' = [phase EXCEPT ![c] = "off"]
      BY <1>11, <2>2, <3>1 DEF CH!SendFails, CH!AfterError, CH!OfBroadcast
    <3> QED
      BY <1>1, <2>1, <3>1, <3>2 DEF Shapes
  <2>3. CASE ~(x = c /\ phase[c] = "auth")
    <3>1. /\ phase' = phase
          /\ life' = life \/ (life[c] = "open" /\ life' = [life EXCEPT ![c] = "shut"])
      <4>1. phase' = phase
        BY <1>11, <2>3 DEF CH!SendFails, CH!AfterError
      <4>2. CASE life[c] = "open" /\ life' = [life EXCEPT ![c] = "shut"]
        BY <4>1, <4>2
      <4>3. CASE life' = [life EXCEPT ![c] = IF @ = "open" /\ x = c /\ phase[c] = "auth" THEN "leaked" ELSE @]
        <5>1. life' = [life EXCEPT ![c] = life[c]]
          BY <2>3, <4>3
        <5> QED
          BY <1>1, <4>1, <5>1 DEF Shapes
      <4> QED
        BY <1>11, <4>2, <4>3 DEF CH!SendFails
    <3>2. c \in authed /\ phase[c] # "auth"
      BY <1>8, <2>1, <2>3
    <3> QED
      BY <1>1, <2>1, <3>1, <3>2 DEF Shapes
  <2> QED
    BY <2>2, <2>3
<1>12. ASSUME \/ \E c \in Conns, reply, cast \in BOOLEAN, t \in Tasks \cup {None} : CH!Message(c, reply, cast, t)
              \/ \E t \in Tasks : CH!StartBroadcast(t) \/ CH!Tick(t)
              \/ \E x \in CH!Senders : CH!BroadcastToRole(x),
              NEW d \in Conns
       PROVE  A(d)'
  <2>1. UNCHANGED <<life, phase, authed, first>>
    BY <1>12 DEF CH!Message, CH!StartBroadcast, CH!Tick, CH!BroadcastToRole, CH!conns
  <2> QED
    BY <1>7, <2>1
<1> HIDE DEF A
<1>13. \A d \in Conns : A(d)'
  BY <1>3, <1>4, <1>5, <1>6, <1>9, <1>10, <1>11, <1>12 DEF CH!Next, CH!Sends
<1> QED
  BY <1>13 DEF A, AttendedInv

-----------------------------------------------------------------------------
LEMMA HubInit ==
    ASSUME CH!Init
    PROVE  HubInv
<1>1. Shapes
  BY CastsFacts DEF CH!Init, Shapes, Lives, CH!Role, CH!Senders
<1>2. MapsInv
  <2>1. \A r : CH!Registered(r) = {}
    BY DEF CH!Init, CH!Registered
  <2>2. IsFiniteSet({}) /\ Cardinality({}) = 0
    BY FS_EmptySet
  <2>3. \A r \in CH!Role : 0 <= CH!Max(r)
    BY MaxAssumption DEF CH!Max
  <2> QED
    BY <2>1, <2>2, <2>3 DEF CH!Init, MapsInv
<1>3. PhaseInv /\ SendInv /\ KnownInv
  BY DEF CH!Init, PhaseInv, SendInv, KnownInv, CH!Senders
<1> QED
  BY <1>1, <1>2, <1>3 DEF HubInv

LEMMA HubInvHolds == CH!Spec => [](HubInv /\ AttendedInv)
<1>1. CH!Init => HubInv /\ AttendedInv
  BY HubInit DEF CH!Init, AttendedInv
<1>2. HubInv /\ AttendedInv /\ [CH!Next]_(CH!vars) => HubInv' /\ AttendedInv'
  <2> SUFFICES ASSUME HubInv, AttendedInv, [CH!Next]_(CH!vars)
               PROVE  HubInv' /\ AttendedInv'
    OBVIOUS
  <2>1. CASE CH!Next
    BY <2>1, ShapesStep, MapsStep, PhaseStep, SendStep, KnownStep, AttendedStep DEF HubInv
  <2>2. CASE UNCHANGED CH!vars
    <3>1. \A r : CH!Registered(r)' = CH!Registered(r)
      BY <2>2 DEF CH!vars, CH!Registered
    <3> QED
      BY <2>2, <3>1, ZenonT(60) DEF CH!vars, HubInv, Shapes, MapsInv, PhaseInv, SendInv, KnownInv, AttendedInv
  <2> QED
    BY <2>1, <2>2
<1> QED
  BY <1>1, <1>2, PTL DEF CH!Spec

\* The first message a client of the V1 hub receives is its auth reply, although
\* broadcasts and telemetry run while it registers (BroadcastToRole, Send); and
\* its maps never hold more clients of a role than the limits allow.  For any
\* number of connections and of senders.
THEOREM AuthReplyFirst == CH!Spec => []AuthFirst
<1>1. HubInv => AuthFirst
  BY HubInvImplies DEF AuthFirst
<1> QED
  BY <1>1, HubInvHolds, PTL

\* Whoever counts against the hub's limits has a handler or a Close that will
\* take its entry out, or is a client whose auth reply failed and who never got a
\* message (handleConnection, Close, Unregister).
THEOREM EntriesHaveAttendant == CH!Spec => []EntriesAttended
<1>1. HubInv /\ AttendedInv => EntriesAttended
  BY DEF HubInv, MapsInv, AttendedInv, EntriesAttended, CH!EntriesAttended
<1> QED
  BY <1>1, HubInvHolds, PTL
=============================================================================
