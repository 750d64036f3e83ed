-------------------------- MODULE RingBuffer_proofs --------------------------
(* Proofs about the ring buffer, for any number of writers and readers, any    *)
(* block size, limit and payloads.                                             *)
EXTENDS RingBuffer, FiniteSetTheorems, SequenceTheorems, TLAPS

\* Exactly the Writes that have begun have bytes left, and one of them holds the
\* mutex at most between two turns.
WriterInv ==
    /\ rest \in [Writers -> Seq(Bytes)]
    /\ \A w \in Writers : wr[w] = "idle" <=> rest[w] = <<>>
    /\ \A w \in Writers : wr[w] = "run" <=> holder = w

\* A Read that has begun has room for a byte.
ReaderInv == \A r \in Readers : rd[r].st # "idle" => rd[r].len > 0

\* The last block is never empty: else a Read to the end of the block before it
\* would leave a block with nothing to read.
LastInv == buffers # <<>> => writeOff > 0

\* No block is in the buffer twice, and the pool has the others once.
OwnInv ==
    /\ \A i, j \in 1 .. Len(buffers) : buffers[i] = buffers[j] => i = j
    /\ \A i \in 1 .. Len(buffers) : pool[buffers[i]] = 0
    /\ \A b \in Blocks : (\A i \in 1 .. Len(buffers) : buffers[i] # b) => pool[b] = 1

\* What a block contains.
MemInv == mem \in [Blocks -> [1 .. Cap -> Bytes \cup {Junk}]]

BufferInv ==
    /\ SizeAgrees /\ WriterInv /\ ReaderInv /\ LastInv /\ OwnInv /\ MemInv /\ WaitersHaveReason

LEMMA Sizes == Cap \in Nat /\ Cap > 0 /\ MaxSize \in Nat /\ MaxSize > 0 /\ NoOne \notin Writers
  BY BufferAssumption

LEMMA Inputs ==
    /\ \A n \in ReadLens : n \in Nat /\ n > 0
    /\ \A p \in Payloads : p \in Seq(Bytes) /\ p # <<>>
  BY BufferAssumption

LEMMA InitBufferInv == Init => BufferInv
<1> SUFFICES ASSUME Init
             PROVE  BufferInv
  OBVIOUS
<1>1. SizeAgrees
  <2>1. rd \in [Readers -> [st : {"idle", "wait", "woken"}, len : ReadLens \cup {0}]]
    BY DEF Init
  <2>2. buffers \in Seq(Blocks) /\ DOMAIN mem = Blocks /\ pool \in [Blocks -> Nat]
    BY DEF Init
  <2>3. wr \in [Writers -> {"idle", "run", "wait", "woken"}]
    BY DEF Init
  <2>4. writeOff \in 0 .. Cap /\ readOff \in 0 .. Cap /\ currentSize \in Nat
    BY Sizes DEF Init
  <2>5. TypeOK
    BY <2>1, <2>2, <2>3, <2>4 DEF Init, TypeOK
  <2> QED
    BY <2>5, Sizes DEF Init, SizeAgrees
<1>2. WriterInv /\ ReaderInv
  BY Sizes DEF Init, WriterInv, ReaderInv
<1>3. LastInv /\ OwnInv /\ MemInv
  BY DEF Init, LastInv, OwnInv, MemInv
<1>4. WaitersHaveReason
  BY DEF Init, WaitersHaveReason
<1> QED
  BY <1>1, <1>2, <1>3, <1>4 DEF BufferInv

\* How often a block is in the buffer.
LEMMA Occurrences ==
    ASSUME TypeOK, OwnInv, NEW b \in Blocks
    PROVE  /\ Cardinality({i \in DOMAIN buffers : buffers[i] = b}) \in Nat
           /\ pool[b] + Cardinality({i \in DOMAIN buffers : buffers[i] = b}) = 1
<1>0. buffers \in Seq(Blocks) /\ DOMAIN buffers = 1 .. Len(buffers)
  BY DEF TypeOK
<1>1. CASE \E i \in DOMAIN buffers : buffers[i] = b
  <2>1. PICK i \in DOMAIN buffers : buffers[i] = b
    BY <1>1
  <2>2. {j \in DOMAIN buffers : buffers[j] = b} = {i} /\ pool[b] = 0
    BY <1>0, <2>1 DEF OwnInv
  <2> QED
    BY <2>2, FS_Singleton
<1>2. CASE ~\E i \in DOMAIN buffers : buffers[i] = b
  <2>1. {j \in DOMAIN buffers : buffers[j] = b} = {} /\ pool[b] = 1
    BY <1>0, <1>2 DEF OwnInv
  <2> QED
    BY <2>1, FS_EmptySet
<1> QED
  BY <1>1, <1>2

LEMMA WokenFacts ==
    ASSUME TypeOK
    PROVE  /\ Woken(wr) \in [Writers -> {"idle", "run", "woken"}]
           /\ \A w \in Writers : /\ Woken(wr)[w] = "idle" <=> wr[w] = "idle"
                                 /\ Woken(wr)[w] = "run" <=> wr[w] = "run"
           /\ WokenReaders \in [Readers -> [st : {"idle", "wait", "woken"}, len : ReadLens \cup {0}]]
           /\ \A r \in Readers : /\ WokenReaders[r].st # "wait"
                                 /\ WokenReaders[r].st = "idle" <=> rd[r].st = "idle"
                                 /\ WokenReaders[r].len = rd[r].len
<1>1. \A w \in Writers : Woken(wr)[w] = IF wr[w] = "wait" THEN "woken" ELSE wr[w]
  BY DEF Woken, TypeOK
<1>2. Woken(wr) \in [Writers -> {"idle", "run", "woken"}]
  BY DEF Woken, TypeOK
<1>3. ASSUME NEW r \in Readers
      PROVE  /\ WokenReaders[r] \in [st : {"idle", "wait", "woken"}, len : ReadLens \cup {0}]
             /\ WokenReaders[r].st = IF rd[r].st = "wait" THEN "woken" ELSE rd[r].st
             /\ WokenReaders[r].len = rd[r].len
  <2>1. rd[r] \in [st : {"idle", "wait", "woken"}, len : ReadLens \cup {0}]
    BY DEF TypeOK
  <2>2. WokenReaders[r] = [rd[r] EXCEPT !.st = IF @ = "wait" THEN "woken" ELSE @]
    BY DEF WokenReaders
  <2> QED
    BY <2>1, <2>2
<1>4. WokenReaders \in [Readers -> [st : {"idle", "wait", "woken"}, len : ReadLens \cup {0}]]
  <2>1. WokenReaders = [r \in Readers |-> WokenReaders[r]]
    BY DEF WokenReaders
  <2> QED
    BY <1>3, <2>1
<1> QED
  BY <1>1, <1>2, <1>3, <1>4

-----------------------------------------------------------------------------
(* Steps that leave the blocks and the offsets alone.                        *)

LEMMA QuietStep ==
    ASSUME BufferInv, UNCHANGED data,
           TypeOK', WriterInv', ReaderInv', WaitersHaveReason'
    PROVE  BufferInv'
<1>1. SizeAgrees'
  BY DEF BufferInv, SizeAgrees, data
<1>2. LastInv' /\ OwnInv' /\ MemInv'
  BY DEF BufferInv, LastInv, OwnInv, MemInv, data
<1> QED
  BY <1>1, <1>2 DEF BufferInv

LEMMA CallWriteStep ==
    ASSUME BufferInv, NEW w \in Writers, NEW p \in Payloads, CallWrite(w, p)
    PROVE  BufferInv'
<1> USE DEF BufferInv, SizeAgrees
<1>1. TypeOK'
  BY DEF CallWrite, TypeOK, data
<1>2. WriterInv'
  BY Sizes, Inputs DEF CallWrite, WriterInv, TypeOK
<1>3. ReaderInv' /\ WaitersHaveReason'
  BY DEF CallWrite, ReaderInv, WaitersHaveReason, Full, TypeOK, data
<1> QED
  BY <1>1, <1>2, <1>3, QuietStep DEF CallWrite

LEMMA LockWriteStep ==
    ASSUME BufferInv, NEW w \in Writers, LockWrite(w)
    PROVE  BufferInv'
<1> USE DEF BufferInv, SizeAgrees
<1>1. TypeOK'
  BY DEF LockWrite, TypeOK, data
<1>2. WriterInv'
  BY Sizes DEF LockWrite, WriterInv, TypeOK
<1>3. ReaderInv' /\ WaitersHaveReason'
  BY DEF LockWrite, ReaderInv, WaitersHaveReason, Full, TypeOK, data
<1> QED
  BY <1>1, <1>2, <1>3, QuietStep DEF LockWrite

LEMMA WriteFailsStep ==
    ASSUME BufferInv, NEW w \in Writers, WriteFails(w)
    PROVE  BufferInv'
<1> USE DEF BufferInv, SizeAgrees
<1>1. TypeOK'
  BY DEF WriteFails, TypeOK, data
<1>2. WriterInv'
  BY Sizes DEF WriteFails, WriterInv, TypeOK
<1>3. ReaderInv' /\ WaitersHaveReason'
  BY DEF WriteFails, ReaderInv, WaitersHaveReason, Full, TypeOK, data
<1> QED
  BY <1>1, <1>2, <1>3, QuietStep DEF WriteFails

LEMMA WriteWaitsStep ==
    ASSUME BufferInv, NEW w \in Writers, WriteWaits(w)
    PROVE  BufferInv'
<1> USE DEF BufferInv, SizeAgrees
<1>1. TypeOK'
  BY DEF WriteWaits, TypeOK, data
<1>2. WriterInv'
  BY Sizes DEF WriteWaits, WriterInv, TypeOK
<1>3. ReaderInv' /\ WaitersHaveReason'
  BY DEF WriteWaits, ReaderInv, WaitersHaveReason, Full, TypeOK, data
<1> QED
  BY <1>1, <1>2, <1>3, QuietStep DEF WriteWaits

LEMMA CallReadStep ==
    ASSUME BufferInv, NEW r \in Readers, NEW n \in ReadLens, CallRead(r, n)
    PROVE  BufferInv'
<1> USE DEF BufferInv, SizeAgrees
<1>1. TypeOK'
  BY DEF CallRead, TypeOK, data
<1>2. WriterInv'
  BY DEF CallRead, WriterInv
<1>3. ReaderInv' /\ WaitersHaveReason'
  BY Inputs DEF CallRead, ReaderInv, WaitersHaveReason, Full, TypeOK, data
<1> QED
  BY <1>1, <1>2, <1>3, QuietStep DEF CallRead

LEMMA ReadWaitsStep ==
    ASSUME BufferInv, NEW r \in Readers, ReadWaits(r)
    PROVE  BufferInv'
<1> USE DEF BufferInv, SizeAgrees
<1>1. PICK new : new = [rd[r] EXCEPT !.st = "wait"] /\ rd' = [rd EXCEPT ![r] = new]
  BY DEF ReadWaits
<1>2. /\ new \in [st : {"idle", "wait", "woken"}, len : ReadLens \cup {0}]
      /\ new.st = "wait" /\ new.len = rd[r].len
  BY <1>1 DEF TypeOK
<1>3. TypeOK'
  BY <1>1, <1>2 DEF ReadWaits, TypeOK, data
<1>4. WriterInv'
  BY DEF ReadWaits, WriterInv
<1>5. ReaderInv'
  BY <1>1, <1>2 DEF ReadWaits, ReaderInv, TypeOK
<1>6. WaitersHaveReason'
  BY <1>1, <1>2 DEF ReadWaits, WaitersHaveReason, Full, TypeOK, data
<1> QED
  BY <1>3, <1>4, <1>5, <1>6, QuietStep DEF ReadWaits

LEMMA ReadFailsStep ==
    ASSUME BufferInv, NEW r \in Readers, ReadFails(r)
    PROVE  BufferInv'
<1> USE DEF BufferInv, SizeAgrees
<1>1. TypeOK'
  BY DEF ReadFails, TypeOK, data
<1>2. WriterInv'
  BY DEF ReadFails, WriterInv
<1>3. ReaderInv' /\ WaitersHaveReason'
  BY DEF ReadFails, ReaderInv, WaitersHaveReason, Full, TypeOK, data
<1> QED
  BY <1>1, <1>2, <1>3, QuietStep DEF ReadFails

\* After a Broadcast nobody waits.
LEMMA BroadcastKeeps ==
    ASSUME BufferInv, Broadcast, UNCHANGED <<holder, rest>>
    PROVE  /\ wr' \in [Writers -> {"idle", "run", "wait", "woken"}]
           /\ rd' \in [Readers -> [st : {"idle", "wait", "woken"}, len : ReadLens \cup {0}]]
           /\ WriterInv' /\ ReaderInv' /\ WaitersHaveReason'
<1>1. TypeOK
  BY DEF BufferInv, SizeAgrees
<1>2. wr' = Woken(wr) /\ rd' = WokenReaders
  BY DEF Broadcast
<1>3. WriterInv'
  BY <1>1, <1>2, WokenFacts DEF BufferInv, WriterInv
<1>4. ReaderInv'
  BY <1>1, <1>2, WokenFacts DEF BufferInv, ReaderInv
<1>5. WaitersHaveReason'
  BY <1>1, <1>2, WokenFacts DEF WaitersHaveReason
<1>6. wr' \in [Writers -> {"idle", "run", "wait", "woken"}]
  BY <1>1, <1>2, WokenFacts
<1> QED
  BY <1>1, <1>2, <1>3, <1>4, <1>5, <1>6, WokenFacts

LEMMA CloseWriteStep ==
    ASSUME BufferInv, CloseWrite
    PROVE  BufferInv'
<1>1. /\ wr' \in [Writers -> {"idle", "run", "wait", "woken"}]
      /\ rd' \in [Readers -> [st : {"idle", "wait", "woken"}, len : ReadLens \cup {0}]]
      /\ WriterInv' /\ ReaderInv' /\ WaitersHaveReason'
  BY BroadcastKeeps DEF CloseWrite
<1>2. TypeOK'
  BY <1>1 DEF CloseWrite, BufferInv, SizeAgrees, TypeOK, data
<1> QED
  BY <1>1, <1>2, QuietStep DEF CloseWrite

-----------------------------------------------------------------------------
(* Steps that move blocks.                                                    *)

\* cleanup returns every block of the buffer, once.
LEMMA CleanupStep ==
    ASSUME BufferInv, cleanup, Broadcast, UNCHANGED <<holder, rest, writeClosed>>, closed' \in BOOLEAN
    PROVE  BufferInv'
<1>1. /\ wr' \in [Writers -> {"idle", "run", "wait", "woken"}]
      /\ rd' \in [Readers -> [st : {"idle", "wait", "woken"}, len : ReadLens \cup {0}]]
      /\ WriterInv' /\ ReaderInv' /\ WaitersHaveReason'
  BY BroadcastKeeps
<1>2. TypeOK /\ OwnInv
  BY DEF BufferInv, SizeAgrees
<1>3. /\ pool' = [b \in Blocks |-> pool[b] + Cardinality({i \in DOMAIN buffers : buffers[i] = b})]
      /\ buffers' = <<>> /\ currentSize' = 0 /\ readOff' = 0 /\ writeOff' = 0 /\ UNCHANGED mem
  BY DEF cleanup, PutBuffers
<1>4. pool' = [b \in Blocks |-> 1]
  BY <1>2, <1>3, Occurrences
<1>5. TypeOK'
  BY <1>1, <1>2, <1>3, <1>4, Sizes DEF TypeOK
<1>6. SizeAgrees'
  BY <1>3, <1>5, Sizes DEF SizeAgrees
<1>7. LastInv' /\ OwnInv' /\ MemInv'
  BY <1>3, <1>4 DEF BufferInv, LastInv, OwnInv, MemInv
<1> QED
  BY <1>1, <1>6, <1>7 DEF BufferInv

LEMMA CapTimes ==
    ASSUME NEW n \in Nat
    PROVE  /\ Cap * n \in Nat /\ Cap * 0 = 0
           /\ Cap * (n + 1) = Cap * n + Cap
           /\ n > 0 => Cap * n >= Cap
  BY Sizes

\* What a turn of Write's loop does: n bytes at offset off of block b.
LEMMA WriteTurn ==
    ASSUME BufferInv, NEW w \in Writers, WriteBlock(w)
    PROVE  \E b \in Blocks, off \in 0 .. Cap - 1, n \in 1 .. Cap, left \in Seq(Bytes) :
               /\ IF NeedsBlock THEN pool[b] > 0 /\ off = 0 ELSE b = buffers[Len(buffers)] /\ off = writeOff
               /\ n =< Cap - off /\ n =< Len(rest[w])
               /\ left = SubSeq(rest[w], n + 1, Len(rest[w]))
               /\ buffers' = IF NeedsBlock THEN Append(buffers, b) ELSE buffers
               /\ pool' = IF NeedsBlock THEN [pool EXCEPT ![b] = @ - 1] ELSE pool
               /\ mem' = [mem EXCEPT ![b] = [i \in 1 .. Cap |->
                              IF i \in off + 1 .. off + n THEN rest[w][i - off] ELSE @[i]]]
               /\ writeOff' = off + n
               /\ currentSize' = currentSize + n
               /\ rest' = [rest EXCEPT ![w] = left]
               /\ wr' = Woken([wr EXCEPT ![w] = IF left = <<>> THEN "idle" ELSE @])
               /\ holder' = IF left = <<>> THEN NoOne ELSE w
<1>0. /\ TypeOK /\ rest[w] \in Seq(Bytes) /\ rest[w] # <<>> /\ holder = w
      /\ Len(rest[w]) \in Nat /\ Len(rest[w]) > 0
  BY DEF BufferInv, SizeAgrees, WriterInv, WriteBlock
<1>1. PICK off : off = IF NeedsBlock THEN 0 ELSE writeOff
  OBVIOUS
<1>2. off \in 0 .. Cap - 1
  BY <1>0, <1>1, Sizes DEF NeedsBlock, TypeOK
<1>3. PICK n : n = IF Len(rest[w]) > Cap - off THEN Cap - off ELSE Len(rest[w])
  OBVIOUS
<1>4. n \in 1 .. Cap /\ n =< Cap - off /\ n =< Len(rest[w])
  BY <1>0, <1>2, <1>3, Sizes
<1>5. PICK left : left = SubSeq(rest[w], n + 1, Len(rest[w]))
  OBVIOUS
<1>6. left \in Seq(Bytes)
  BY <1>0, <1>4, <1>5
<1>7. PICK b \in Blocks :
          /\ IF NeedsBlock THEN pool[b] > 0 ELSE b = buffers[Len(buffers)]
          /\ buffers' = IF NeedsBlock THEN Append(buffers, b) ELSE buffers
          /\ pool' = IF NeedsBlock THEN [pool EXCEPT ![b] = @ - 1] ELSE pool
          /\ mem' = [mem EXCEPT ![b] = [i \in 1 .. Cap |->
                         IF i \in off + 1 .. off + n THEN rest[w][i - off] ELSE @[i]]]
          /\ writeOff' = off + n
          /\ currentSize' = currentSize + n
          /\ rest' = [rest EXCEPT ![w] = left]
          /\ wr' = Woken([wr EXCEPT ![w] = IF left = <<>> THEN "idle" ELSE @])
          /\ holder' = IF left = <<>> THEN NoOne ELSE w
  BY <1>1, <1>3, <1>5, Zenon DEF WriteBlock
<1> QED
  BY <1>1, <1>2, <1>4, <1>5, <1>6, <1>7

LEMMA WriteBlockStep ==
    ASSUME BufferInv, NEW w \in Writers, WriteBlock(w)
    PROVE  BufferInv'
<1>t. TypeOK
  BY DEF BufferInv, SizeAgrees
<1>a. PICK b \in Blocks, off \in 0 .. Cap - 1, n \in 1 .. Cap, left \in Seq(Bytes) :
             /\ IF NeedsBlock THEN pool[b] > 0 /\ off = 0 ELSE b = buffers[Len(buffers)] /\ off = writeOff
             /\ n =< Cap - off /\ n =< Len(rest[w])
             /\ left = SubSeq(rest[w], n + 1, Len(rest[w]))
             /\ buffers' = IF NeedsBlock THEN Append(buffers, b) ELSE buffers
             /\ pool' = IF NeedsBlock THEN [pool EXCEPT ![b] = @ - 1] ELSE pool
             /\ mem' = [mem EXCEPT ![b] = [i \in 1 .. Cap |->
                            IF i \in off + 1 .. off + n THEN rest[w][i - off] ELSE @[i]]]
             /\ writeOff' = off + n
             /\ currentSize' = currentSize + n
             /\ rest' = [rest EXCEPT ![w] = left]
             /\ wr' = Woken([wr EXCEPT ![w] = IF left = <<>> THEN "idle" ELSE @])
             /\ holder' = IF left = <<>> THEN NoOne ELSE w
  BY WriteTurn, Zenon
<1>b. PICK need \in BOOLEAN : need = NeedsBlock
  <2>1. NeedsBlock \in BOOLEAN
    BY DEF NeedsBlock
  <2> QED
    BY <2>1
<1>c. mem' \in [Blocks -> [1 .. Cap -> Bytes \cup {Junk}]]
  <2>1. PICK new : new = [i \in 1 .. Cap |-> IF i \in off + 1 .. off + n THEN rest[w][i - off] ELSE mem[b][i]]
    OBVIOUS
  <2>2. mem' = [mem EXCEPT ![b] = new]
    BY <1>a, <2>1
  <2>3. rest[w] \in Seq(Bytes) /\ mem[b] \in [1 .. Cap -> Bytes \cup {Junk}]
    BY DEF BufferInv, WriterInv, MemInv
  <2>4. \A i \in off + 1 .. off + n : i - off \in 1 .. Len(rest[w])
    BY <1>a, <2>3, Sizes
  <2>5. new \in [1 .. Cap -> Bytes \cup {Junk}]
    <3>1. ASSUME NEW i \in 1 .. Cap
          PROVE  (IF i \in off + 1 .. off + n THEN rest[w][i - off] ELSE mem[b][i]) \in Bytes \cup {Junk}
      <4>1. mem[b][i] \in Bytes \cup {Junk}
        BY <2>3
      <4>2. i \in off + 1 .. off + n => rest[w][i - off] \in Bytes
        BY <2>3, <2>4
      <4> QED
        BY <4>1, <4>2
    <3> QED
      BY <2>1, <3>1
  <2> QED
    BY <2>2, <2>5 DEF BufferInv, MemInv
<1>0. /\ need <=> NeedsBlock
      /\ IF need THEN pool[b] > 0 /\ off = 0 ELSE b = buffers[Len(buffers)] /\ off = writeOff
      /\ n =< Cap - off
      /\ buffers' = IF need THEN Append(buffers, b) ELSE buffers
      /\ pool' = IF need THEN [pool EXCEPT ![b] = @ - 1] ELSE pool
      /\ mem' \in [Blocks -> [1 .. Cap -> Bytes \cup {Junk}]]
      /\ writeOff' = off + n
      /\ currentSize' = currentSize + n
      /\ rest' = [rest EXCEPT ![w] = left]
      /\ wr' = Woken([wr EXCEPT ![w] = IF left = <<>> THEN "idle" ELSE @])
      /\ holder' = IF left = <<>> THEN NoOne ELSE w
  BY <1>a, <1>b, <1>c
<1>1. /\ holder = w /\ rd' = WokenReaders /\ ~Full
      /\ UNCHANGED <<readOff, closed, writeClosed, got>>
  BY DEF WriteBlock
<1>2. wr[w] = "run"
  BY <1>1 DEF BufferInv, WriterInv
<1>3. WriterInv' /\ wr' \in [Writers -> {"idle", "run", "wait", "woken"}]
                 /\ \A x \in Writers : wr'[x] # "wait"
  <2>0. wr \in [Writers -> {"idle", "run", "wait", "woken"}]
    BY <1>t DEF TypeOK
  <2>1. PICK f : f = [wr EXCEPT ![w] = IF left = <<>> THEN "idle" ELSE @]
    OBVIOUS
  <2>2. /\ f \in [Writers -> {"idle", "run", "wait", "woken"}]
        /\ f[w] = IF left = <<>> THEN "idle" ELSE "run"
        /\ \A x \in Writers : x # w => f[x] = wr[x]
    BY <1>2, <2>0, <2>1
  <2>3. wr' = Woken(f)
    BY <1>0, <2>1, Zenon
  <2>4. wr' = [x \in Writers |-> IF f[x] = "wait" THEN "woken" ELSE f[x]]
    BY <2>2, <2>3 DEF Woken
  <2>5. rest' \in [Writers -> Seq(Bytes)] /\ rest'[w] = left /\ \A x \in Writers : x # w => rest'[x] = rest[x]
    BY <1>0 DEF BufferInv, WriterInv
  <2>6. \A x \in Writers : wr'[x] = "idle" <=> rest'[x] = <<>>
    BY <2>2, <2>4, <2>5 DEF BufferInv, WriterInv
  <2>7. \A x \in Writers : wr'[x] = "run" <=> holder' = x
    BY <1>0, <1>1, <2>2, <2>4, Sizes DEF BufferInv, WriterInv
  <2>8. wr' \in [Writers -> {"idle", "run", "wait", "woken"}]
    BY <2>2, <2>4
  <2> QED
    BY <2>4, <2>5, <2>6, <2>7, <2>8 DEF WriterInv
<1>4. ReaderInv' /\ WaitersHaveReason'
  BY <1>t, <1>1, <1>3, WokenFacts DEF BufferInv, ReaderInv, WaitersHaveReason
<1>5. PICK L \in Nat, wo \in 0 .. Cap, ro \in 0 .. Cap, cs \in Nat :
          /\ L = Len(buffers) /\ wo = writeOff /\ ro = readOff /\ cs = currentSize
          /\ L = 0 <=> buffers = <<>>
  BY <1>t DEF TypeOK
<1>6. /\ L = 0 => wo = 0 /\ ro = 0 /\ cs = 0
      /\ L > 0 => cs = Cap * (L - 1) + wo - ro /\ ro < Cap
      /\ cs < MaxSize /\ (need <=> L = 0 \/ wo = Cap)
  BY <1>0, <1>1, <1>5, Sizes DEF BufferInv, SizeAgrees, Full, NeedsBlock
<1>7. /\ writeOff' = off + n /\ currentSize' = cs + n /\ readOff' = ro
      /\ off = IF need THEN 0 ELSE wo
      /\ buffers' \in Seq(Blocks) /\ Len(buffers') = IF need THEN L + 1 ELSE L
      /\ buffers' # <<>>
  <2>1. buffers \in Seq(Blocks)
    BY <1>t DEF TypeOK
  <2>2. writeOff' = off + n /\ currentSize' = cs + n /\ readOff' = ro /\ off = IF need THEN 0 ELSE wo
    BY <1>0, <1>1, <1>5
  <2>3. CASE need
    <3>1. buffers' = Append(buffers, b)
      BY <1>0, <2>3
    <3> QED
      BY <1>5, <2>1, <2>2, <2>3, <3>1
  <2>4. CASE ~need
    <3>1. buffers' = buffers /\ buffers # <<>>
      BY <1>0, <2>4 DEF NeedsBlock
    <3> QED
      BY <1>5, <2>1, <2>2, <2>4, <3>1
  <2> QED
    BY <2>3, <2>4
<1>8. /\ writeOff' \in 0 .. Cap /\ currentSize' \in Nat /\ readOff' \in 0 .. Cap
      /\ writeOff' > 0 /\ currentSize' > 0 /\ currentSize' < MaxSize + Cap /\ readOff' < Cap
  BY <1>0, <1>5, <1>6, <1>7, Sizes
<1>9. pool' \in [Blocks -> Nat]
  <2>1. pool \in [Blocks -> Nat]
    BY <1>t DEF TypeOK
  <2>2. CASE need
    <3>1. pool[b] > 0 /\ pool' = [pool EXCEPT ![b] = pool[b] - 1]
      BY <1>0, <2>2
    <3> QED
      BY <2>1, <3>1
  <2> QED
    BY <1>0, <2>1, <2>2
<1>10. TypeOK'
  <2>1. holder' \in Writers \cup {NoOne}
    BY <1>0
  <2>2. rd' \in [Readers -> [st : {"idle", "wait", "woken"}, len : ReadLens \cup {0}]]
    BY <1>t, <1>1, WokenFacts
  <2>3. DOMAIN mem' = Blocks /\ closed' \in BOOLEAN /\ writeClosed' \in BOOLEAN
    BY <1>t, <1>0, <1>1 DEF TypeOK
  <2> QED
    BY <1>3, <1>7, <1>8, <1>9, <2>1, <2>2, <2>3 DEF TypeOK
<1>11. currentSize' = Cap * (Len(buffers') - 1) + writeOff' - readOff'
  <2>1. CASE L = 0
    <3>1. Cap * 0 = 0
      BY Sizes
    <3> QED
      BY <1>0, <1>6, <1>7, <2>1, <3>1, Sizes
  <2>2. CASE L > 0 /\ need
    <3>1. PICK m \in Nat : m = L - 1
      BY <2>2
    <3>2. Cap * (m + 1) = Cap * m + Cap /\ Cap * m \in Nat
      BY CapTimes
    <3>3. Len(buffers') - 1 = m + 1 /\ wo = Cap /\ off = 0 /\ cs = Cap * m + wo - ro
      BY <1>6, <1>7, <2>2, <3>1
    <3>4. PICK t \in Nat : t = Cap * m
      BY <3>2
    <3>5. cs = t + Cap - ro /\ Cap * (Len(buffers') - 1) = t + Cap
      BY <3>2, <3>3, <3>4
    <3>6. writeOff' = n /\ currentSize' = cs + n /\ readOff' = ro
      BY <1>7, <3>3
    <3> QED
      BY <3>5, <3>6, Sizes
  <2>3. CASE L > 0 /\ ~need
    <3>1. PICK m \in Nat : m = L - 1
      BY <2>3
    <3>2. Cap * m \in Nat
      BY CapTimes
    <3>3. Len(buffers') - 1 = m /\ off = wo /\ cs = Cap * m + wo - ro
      BY <1>6, <1>7, <2>3, <3>1
    <3>4. PICK t \in Nat : t = Cap * m
      BY <3>2
    <3>5. cs = t + wo - ro /\ Cap * (Len(buffers') - 1) = t
      BY <3>3, <3>4
    <3>6. writeOff' = wo + n /\ currentSize' = cs + n /\ readOff' = ro
      BY <1>7, <3>3
    <3> QED
      BY <3>5, <3>6, Sizes
  <2> QED
    BY <1>5, <2>1, <2>2, <2>3
<1>12. OwnInv'
  <2>1. CASE need
    <3>0. buffers \in Seq(Blocks) /\ pool \in [Blocks -> Nat] /\ pool[b] > 0
      BY <1>t, <1>0, <2>1 DEF TypeOK
    <3>1. buffers' = Append(buffers, b) /\ pool' = [pool EXCEPT ![b] = pool[b] - 1]
      BY <1>0, <2>1
    <3>2. \A i \in 1 .. Len(buffers) : buffers[i] # b /\ buffers[i] \in Blocks
      BY <3>0 DEF BufferInv, OwnInv
    <3>3. pool[b] = 1
      BY <3>2 DEF BufferInv, OwnInv
    <3>4. /\ \A i \in 1 .. Len(buffers) : buffers'[i] = buffers[i]
          /\ buffers'[Len(buffers) + 1] = b
          /\ Len(buffers') = Len(buffers) + 1 /\ Len(buffers) \in Nat
      BY <3>0, <3>1
    <3>5. pool'[b] = 0 /\ \A c \in Blocks : c # b => pool'[c] = pool[c]
      BY <3>0, <3>1, <3>3
    <3>6. \A i \in 1 .. Len(buffers') : i \in 1 .. Len(buffers) \/ i = Len(buffers) + 1
      BY <3>4
    <3>7. \A i, j \in 1 .. Len(buffers') : buffers'[i] = buffers'[j] => i = j
      BY <3>2, <3>4, <3>6 DEF BufferInv, OwnInv
    <3>8. \A i \in 1 .. Len(buffers') : pool'[buffers'[i]] = 0
      BY <3>2, <3>4, <3>5, <3>6 DEF BufferInv, OwnInv
    <3>9. ASSUME NEW c \in Blocks, \A i \in 1 .. Len(buffers') : buffers'[i] # c
          PROVE  pool'[c] = 1
      <4>1. c # b /\ \A i \in 1 .. Len(buffers) : buffers[i] # c
        BY <3>4, <3>9
      <4> QED
        BY <3>5, <4>1 DEF BufferInv, OwnInv
    <3> QED
      BY <3>7, <3>8, <3>9 DEF OwnInv
  <2>2. CASE ~need
    BY <1>0, <2>2 DEF BufferInv, OwnInv
  <2> QED
    BY <2>1, <2>2
<1>13. SizeAgrees' /\ LastInv' /\ MemInv'
  BY <1>0, <1>7, <1>8, <1>10, <1>11 DEF SizeAgrees, LastInv, MemInv
<1> QED
  BY <1>3, <1>4, <1>12, <1>13 DEF BufferInv

\* What a Read does: n of the av bytes left in the first block are taken.
ReadAs(r, L, wo, ro, cs, t, av, n) ==
    /\ L = Len(buffers) /\ wo = writeOff /\ ro = readOff /\ cs = currentSize
    /\ wo =< Cap /\ ro < Cap /\ wo > 0
    /\ L > 0 /\ cs > 0 /\ cs < MaxSize + Cap /\ cs = Cap * (L - 1) + wo - ro
    /\ t = Cap * (L - 1) /\ (L = 1 => t = 0)
    /\ L > 1 => t >= Cap /\ Cap * (L - 2) = t - Cap
    /\ av > 0 /\ ro + av =< Cap /\ av =< cs /\ n \in 1 .. av
    /\ (L = 1 => cs = av) /\ (L > 1 => cs = t + wo - ro /\ ro + av = Cap)
    /\ n = (IF rd[r].len > av THEN av ELSE rd[r].len)
    /\ got' = [got EXCEPT ![r] = [i \in 1 .. n |-> mem[buffers[1]][ro + i]]]
    /\ currentSize' = cs - n
    /\ buffers' = IF n = av THEN Tail(buffers) ELSE buffers
    /\ pool' = IF n = av THEN PutBuffers(<<buffers[1]>>) ELSE pool
    /\ readOff' = IF n = av THEN 0 ELSE ro + n
    /\ writeOff' = IF n = av /\ L = 1 THEN 0 ELSE wo
    /\ rd' = [WokenReaders EXCEPT ![r] = [st |-> "idle", len |-> 0]]
    /\ wr' = Woken(wr)
    /\ UNCHANGED <<mem, closed, writeClosed, holder, rest>>

LEMMA ReadTurn ==
    ASSUME BufferInv, NEW r \in Readers, ReadBlock(r)
    PROVE  \E L \in Nat, wo \in Nat, ro \in Nat, cs \in Nat, t \in Nat, av \in Nat, n \in Nat
                : ReadAs(r, L, wo, ro, cs, t, av, n)
<1>t. TypeOK
  BY DEF BufferInv, SizeAgrees
<1>1. PICK L \in Nat, wo \in 0 .. Cap, ro \in 0 .. Cap, cs \in Nat :
          /\ L = Len(buffers) /\ wo = writeOff /\ ro = readOff /\ cs = currentSize
          /\ L = 0 <=> buffers = <<>>
  BY <1>t DEF TypeOK
<1>2. /\ L > 0 /\ cs > 0 /\ cs < MaxSize + Cap
      /\ cs = Cap * (L - 1) + wo - ro /\ ro < Cap /\ wo > 0
  BY <1>1, Sizes DEF BufferInv, SizeAgrees, LastInv, ReadBlock
<1>3. PICK t \in Nat : /\ t = Cap * (L - 1) /\ (L = 1 => t = 0) /\ (L > 1 => t >= Cap)
                       /\ L > 1 => Cap * (L - 2) = t - Cap
  <2>1. PICK m \in Nat : m = L - 1
    BY <1>2
  <2>2. Cap * m \in Nat /\ Cap * 0 = 0 /\ (m > 0 => Cap * m >= Cap)
    BY CapTimes
  <2>3. CASE m > 0
    <3>1. PICK k \in Nat : k = m - 1 /\ m = k + 1 /\ k = L - 2
      BY <2>1, <2>3
    <3>2. Cap * (k + 1) = Cap * k + Cap /\ Cap * k \in Nat
      BY CapTimes
    <3>3. Cap * k = Cap * m - Cap
      BY <3>1, <3>2, Sizes
    <3> QED
      BY <2>1, <2>2, <2>3, <3>1, <3>3
  <2> QED
    BY <2>1, <2>2, <2>3
<1>4. PICK av : av = IF L = 1 THEN wo - ro ELSE Cap - ro
  OBVIOUS
<1>5. av \in Nat /\ av > 0 /\ av = Avail /\ ro + av =< Cap /\ av =< cs
      /\ (L = 1 => cs = av) /\ (L > 1 => cs = t + wo - ro /\ ro + av = Cap)
  <2>1. av = Avail
    BY <1>1, <1>4 DEF Avail
  <2> QED
    BY <1>1, <1>2, <1>3, <1>4, <2>1, Sizes
<1>6. rd[r].len \in Nat /\ rd[r].len > 0
  BY <1>t, Inputs DEF BufferInv, ReaderInv, ReadBlock, TypeOK
<1>7. PICK n \in 1 .. av : n = IF rd[r].len > av THEN av ELSE rd[r].len
  BY <1>5, <1>6
<1>8. /\ got' = [got EXCEPT ![r] = [i \in 1 .. n |-> mem[buffers[1]][ro + i]]]
      /\ currentSize' = cs - n
      /\ buffers' = IF n = av THEN Tail(buffers) ELSE buffers
      /\ pool' = IF n = av THEN PutBuffers(<<buffers[1]>>) ELSE pool
      /\ readOff' = IF n = av THEN 0 ELSE ro + n
      /\ writeOff' = IF n = av /\ L = 1 THEN 0 ELSE wo
      /\ rd' = [WokenReaders EXCEPT ![r] = [st |-> "idle", len |-> 0]]
      /\ wr' = Woken(wr)
      /\ UNCHANGED <<mem, closed, writeClosed, holder, rest>>
  BY <1>1, <1>5, <1>7 DEF ReadBlock
<1>9. wo =< Cap
  BY <1>1, Sizes
<1>10. L \in Nat /\ wo \in Nat /\ ro \in Nat /\ cs \in Nat /\ t \in Nat /\ av \in Nat /\ n \in Nat
  BY <1>1, <1>5, <1>7, Sizes
<1>11. ReadAs(r, L, wo, ro, cs, t, av, n)
  BY <1>1, <1>2, <1>3, <1>5, <1>7, <1>8, <1>9, Zenon DEF ReadAs
<1> QED
  BY <1>10, <1>11, Zenon

LEMMA ReadBlockStep ==
    ASSUME BufferInv, NEW r \in Readers, ReadBlock(r)
    PROVE  BufferInv'
<1>t. TypeOK
  BY DEF BufferInv, SizeAgrees
<1>a. PICK L \in Nat, wo \in Nat, ro \in Nat, cs \in Nat, t \in Nat, av \in Nat, n \in Nat :
          ReadAs(r, L, wo, ro, cs, t, av, n)
  BY ReadTurn, Zenon
<1>1. /\ L = Len(buffers) /\ wo = writeOff /\ ro = readOff /\ cs = currentSize
      /\ wo \in 0 .. Cap /\ ro \in 0 .. Cap
      /\ L = 0 <=> buffers = <<>>
  BY <1>t, <1>a DEF TypeOK, ReadAs
<1>2. L > 0 /\ cs > 0 /\ cs < MaxSize + Cap /\ cs = t + wo - ro /\ ro < Cap /\ wo > 0 /\ wo =< Cap
  BY <1>a DEF ReadAs
<1>3. /\ t = Cap * (L - 1) /\ (L = 1 => t = 0) /\ (L > 1 => t >= Cap)
      /\ L > 1 => Cap * (L - 2) = t - Cap
  BY <1>a DEF ReadAs
<1>5. /\ av > 0 /\ ro + av =< Cap /\ av =< cs
      /\ (L = 1 => cs = av) /\ (L > 1 => cs = t + wo - ro /\ ro + av = Cap)
  BY <1>a DEF ReadAs
<1>7. n \in 1 .. av
  BY <1>a DEF ReadAs
<1>8. /\ currentSize' = cs - n
      /\ buffers' = IF n = av THEN Tail(buffers) ELSE buffers
      /\ pool' = IF n = av THEN PutBuffers(<<buffers[1]>>) ELSE pool
      /\ readOff' = IF n = av THEN 0 ELSE ro + n
      /\ writeOff' = IF n = av /\ L = 1 THEN 0 ELSE wo
      /\ rd' = [WokenReaders EXCEPT ![r] = [st |-> "idle", len |-> 0]]
      /\ wr' = Woken(wr)
      /\ UNCHANGED <<mem, closed, writeClosed, holder, rest>>
  BY <1>a DEF ReadAs
<1>9. WriterInv' /\ wr' \in [Writers -> {"idle", "run", "wait", "woken"}]
  BY <1>t, <1>8, WokenFacts DEF BufferInv, WriterInv
<1>10. /\ rd' \in [Readers -> [st : {"idle", "wait", "woken"}, len : ReadLens \cup {0}]]
       /\ rd'[r].st = "idle" /\ \A x \in Readers : x # r => rd'[x] = WokenReaders[x]
  <2>1. PICK new : new = [st |-> "idle", len |-> 0]
    OBVIOUS
  <2>2. new \in [st : {"idle", "wait", "woken"}, len : ReadLens \cup {0}] /\ new.st = "idle"
    BY <2>1
  <2>3. rd' = [WokenReaders EXCEPT ![r] = new]
    BY <1>8, <2>1
  <2> QED
    BY <1>t, <2>2, <2>3, WokenFacts
<1>11. ReaderInv' /\ WaitersHaveReason'
  <2>1. \A x \in Readers : rd'[x].st # "idle" => rd'[x].len > 0 /\ rd'[x].st # "wait"
    BY <1>t, <1>10, WokenFacts DEF BufferInv, ReaderInv
  <2>2. \A x \in Readers : rd'[x].st # "wait"
    BY <1>10, <2>1
  <2>3. \A w \in Writers : wr'[w] # "wait"
    BY <1>t, <1>8, WokenFacts
  <2> QED
    BY <2>1, <2>2, <2>3 DEF ReaderInv, WaitersHaveReason
<1>12. buffers \in Seq(Blocks) /\ pool \in [Blocks -> Nat] /\ buffers # <<>> /\ DOMAIN mem = Blocks
       /\ closed \in BOOLEAN /\ writeClosed \in BOOLEAN /\ holder \in Writers \cup {NoOne}
  BY <1>t, <1>1, <1>2 DEF TypeOK
<1>13. CASE n # av
  <2>1. /\ buffers' = buffers /\ pool' = pool /\ readOff' = ro + n /\ writeOff' = wo /\ currentSize' = cs - n
        /\ n < av
    BY <1>5, <1>7, <1>8, <1>13
  <2>2. /\ readOff' \in 0 .. Cap /\ writeOff' \in 0 .. Cap /\ currentSize' \in Nat
        /\ currentSize' > 0 /\ currentSize' < MaxSize + Cap /\ readOff' < Cap
        /\ currentSize' = t + writeOff' - readOff'
    BY <1>2, <1>3, <1>5, <1>7, <2>1, Sizes
  <2>3. currentSize' = Cap * (Len(buffers') - 1) + writeOff' - readOff'
    BY <1>1, <1>3, <2>1, <2>2
  <2>4. TypeOK'
    BY <1>8, <1>9, <1>10, <1>12, <2>1, <2>2 DEF TypeOK
  <2>5. SizeAgrees'
    BY <1>12, <2>1, <2>2, <2>3, <2>4 DEF SizeAgrees
  <2>6. LastInv' /\ OwnInv' /\ MemInv'
    BY <1>1, <1>2, <1>8, <2>1 DEF BufferInv, LastInv, OwnInv, MemInv
  <2> QED
    BY <1>9, <1>11, <2>5, <2>6 DEF BufferInv
<1>14. CASE n = av
  <2>0. PICK b \in Blocks : b = buffers[1]
    BY <1>12
  <2>1. /\ buffers' = Tail(buffers) /\ pool' = PutBuffers(<<b>>) /\ readOff' = 0 /\ currentSize' = cs - av
        /\ writeOff' = IF L = 1 THEN 0 ELSE wo
    BY <1>8, <1>14, <2>0
  <2>2. /\ buffers' \in Seq(Blocks) /\ Len(buffers') = L - 1
        /\ \A i \in 1 .. L - 1 : buffers'[i] = buffers[i + 1]
        /\ buffers' = <<>> <=> L = 1
    <3>1. Tail(buffers) \in Seq(Blocks) /\ Len(Tail(buffers)) = Len(buffers) - 1
      BY <1>12
    <3>2. \A i \in 1 .. Len(buffers) - 1 : Tail(buffers)[i] = buffers[i + 1]
      BY <1>12
    <3>3. \A s \in Seq(Blocks) : s = <<>> <=> Len(s) = 0
      OBVIOUS
    <3>4. buffers' = Tail(buffers)
      BY <2>1
    <3>5. buffers' \in Seq(Blocks) /\ Len(buffers') = L - 1
      BY <1>1, <3>1, <3>4
    <3>6. buffers' = <<>> <=> L = 1
      BY <3>3, <3>5
    <3> QED
      BY <1>1, <3>2, <3>4, <3>5, <3>6
  <2>3. /\ pool' \in [Blocks -> Nat] /\ pool'[b] = pool[b] + 1
        /\ \A c \in Blocks : c # b => pool'[c] = pool[c]
    <3>1. pool' = [c \in Blocks |-> pool[c] + Cardinality({i \in DOMAIN <<b>> : <<b>>[i] = c})]
      BY <2>1 DEF PutBuffers
    <3>2. \A c \in Blocks : {i \in DOMAIN <<b>> : <<b>>[i] = c} = IF c = b THEN {1} ELSE {}
      OBVIOUS
    <3>3. \A c \in Blocks : Cardinality({i \in DOMAIN <<b>> : <<b>>[i] = c}) = IF c = b THEN 1 ELSE 0
      BY <3>2, FS_Singleton, FS_EmptySet
    <3>4. pool' = [c \in Blocks |-> pool[c] + (IF c = b THEN 1 ELSE 0)]
      BY <3>1, <3>3
    <3> QED
      BY <1>12, <3>4
  <2>4. /\ writeOff' \in 0 .. Cap /\ currentSize' \in Nat /\ readOff' \in 0 .. Cap /\ readOff' < Cap
        /\ currentSize' < MaxSize + Cap
        /\ L = 1 => writeOff' = 0 /\ currentSize' = 0
        /\ L > 1 => currentSize' > 0 /\ currentSize' = t - Cap + writeOff' /\ writeOff' > 0
    <3>1. CASE L = 1
      <4>1. writeOff' = 0 /\ currentSize' = 0 /\ readOff' = 0
        BY <1>5, <2>1, <3>1
      <4> QED
        BY <3>1, <4>1, Sizes
    <3>2. CASE L > 1
      <4>1. writeOff' = wo /\ currentSize' = cs - av /\ readOff' = 0
        BY <2>1, <3>2
      <4>2. cs = t + wo - ro /\ ro + av = Cap /\ t >= Cap
        BY <1>3, <1>5, <3>2
      <4>3. cs - av \in Nat /\ cs - av > 0 /\ cs - av < MaxSize + Cap /\ cs - av = t - Cap + wo
        BY <1>2, <1>5, <4>2, Sizes
      <4> QED
        BY <1>2, <3>2, <4>1, <4>3, Sizes
    <3> QED
      BY <1>2, <3>1, <3>2
  <2>5. L > 1 => currentSize' = Cap * (Len(buffers') - 1) + writeOff' - readOff'
    <3> HAVE L > 1
    <3>1. Len(buffers') - 1 = L - 2 /\ Cap * (L - 2) = t - Cap
      BY <1>3, <2>2
    <3>2. Cap * (Len(buffers') - 1) = t - Cap
      BY <3>1
    <3>3. currentSize' = t - Cap + writeOff' /\ readOff' = 0 /\ writeOff' \in Nat
      BY <2>1, <2>4
    <3> QED
      BY <3>2, <3>3, Sizes
  <2>6. TypeOK'
    BY <1>8, <1>9, <1>10, <1>12, <2>2, <2>3, <2>4 DEF TypeOK
  <2>7. SizeAgrees'
    BY <1>2, <2>1, <2>2, <2>4, <2>5, <2>6 DEF SizeAgrees
  <2>8. LastInv' /\ MemInv'
    BY <1>2, <1>8, <2>2, <2>4 DEF BufferInv, LastInv, MemInv
  <2>9. OwnInv'
    <3>1. \A i \in 1 .. L - 1 : i + 1 \in 1 .. L /\ buffers[i + 1] # b
      BY <1>1, <1>2, <2>0 DEF BufferInv, OwnInv
    <3>2. pool[b] = 0
      BY <1>1, <1>2, <2>0 DEF BufferInv, OwnInv
    <3>3. \A i, j \in 1 .. L - 1 : buffers'[i] = buffers'[j] => i = j
      BY <1>1, <2>2, <3>1 DEF BufferInv, OwnInv
    <3>4. \A i \in 1 .. L - 1 : pool'[buffers'[i]] = 0
      <4> TAKE i \in 1 .. L - 1
      <4>1. buffers'[i] = buffers[i + 1] /\ buffers[i + 1] # b /\ buffers[i + 1] \in Blocks
        BY <1>1, <1>12, <2>2, <3>1
      <4>2. pool[buffers[i + 1]] = 0
        BY <1>1, <3>1 DEF BufferInv, OwnInv
      <4> QED
        BY <2>3, <4>1, <4>2
    <3>5. ASSUME NEW c \in Blocks, \A i \in 1 .. L - 1 : buffers'[i] # c
          PROVE  pool'[c] = 1
      <4>1. CASE c = b
        BY <2>3, <3>2, <4>1
      <4>2. CASE c # b
        <5>1. ASSUME NEW i \in 1 .. L
              PROVE  buffers[i] # c
          <6>1. CASE i = 1
            BY <2>0, <4>2, <6>1
          <6>2. CASE i # 1
            <7>1. i - 1 \in 1 .. L - 1 /\ (i - 1) + 1 = i
              BY <6>2
            <7>2. buffers'[i - 1] = buffers[i]
              BY <2>2, <7>1
            <7> QED
              BY <3>5, <7>1, <7>2
          <6> QED
            BY <6>1, <6>2
        <5>2. pool[c] = 1
          BY <1>1, <5>1 DEF BufferInv, OwnInv
        <5> QED
          BY <2>3, <4>2, <5>2
      <4> QED
        BY <4>1, <4>2
    <3> QED
      BY <2>2, <3>3, <3>4, <3>5 DEF OwnInv
  <2> QED
    BY <1>9, <1>11, <2>7, <2>8, <2>9 DEF BufferInv
<1> QED
  BY <1>13, <1>14

LEMMA BufferStep ==
    ASSUME BufferInv, [Next]_vars
    PROVE  BufferInv'
<1>1. ASSUME NEW w \in Writers, NEW p \in Payloads, CallWrite(w, p)
      PROVE  BufferInv'
  BY <1>1, CallWriteStep
<1>2. ASSUME NEW w \in Writers, LockWrite(w) \/ WriteFails(w) \/ WriteWaits(w) \/ WriteBlock(w)
      PROVE  BufferInv'
  BY <1>2, LockWriteStep, WriteFailsStep, WriteWaitsStep, WriteBlockStep
<1>3. ASSUME NEW r \in Readers, NEW n \in ReadLens, CallRead(r, n)
      PROVE  BufferInv'
  BY <1>3, CallReadStep
<1>4. ASSUME NEW r \in Readers, ReadWaits(r) \/ ReadFails(r) \/ ReadBlock(r)
      PROVE  BufferInv'
  BY <1>4, ReadWaitsStep, ReadFailsStep, ReadBlockStep
<1>5. CASE Close
  BY <1>5, CleanupStep DEF Close
<1>6. CASE CloseWrite
  BY <1>6, CloseWriteStep
<1>7. CASE Flush
  BY <1>7, CleanupStep DEF Flush, BufferInv, SizeAgrees, TypeOK
<1>8. CASE UNCHANGED vars
  <2>1. UNCHANGED data /\ TypeOK' /\ WriterInv' /\ ReaderInv' /\ WaitersHaveReason'
    BY <1>8 DEF vars, data, BufferInv, SizeAgrees, TypeOK, WriterInv, ReaderInv, WaitersHaveReason, Full
  <2> QED
    BY <2>1, QuietStep
<1> QED
  BY <1>1, <1>2, <1>3, <1>4, <1>5, <1>6, <1>7, <1>8 DEF Next

LEMMA BufferInvariant == Spec => []BufferInv
<1>1. Init => BufferInv
  BY InitBufferInv
<1>2. BufferInv /\ [Next]_vars => BufferInv'
  BY BufferStep
<1> QED
  BY <1>1, <1>2, PTL DEF Spec

\* The byte counter of the ring buffer agrees with its offsets and blocks, and
\* exceeds maxSize by less than one block, after any mix of partial Writes and
\* Reads, Flush, Close and CloseWrite of any number of goroutines.
THEOREM SizeAlwaysAgrees == Spec => []SizeAgrees
<1>1. BufferInv => SizeAgrees
  BY DEF BufferInv
<1> QED
  BY <1>1, BufferInvariant, PTL

\* Every block of common/memory.go's pool is in the pool or in the buffer, and
\* once: Read and cleanup never call PutBuffer twice for a block nor forget one.
THEOREM BlocksNeverShared == Spec => []BlocksOwnedOnce
<1>1. BufferInv => BlocksOwnedOnce
  BY Occurrences DEF BufferInv, SizeAgrees, BlocksOwnedOnce
<1> QED
  BY <1>1, BufferInvariant, PTL

\* Nobody waits at the ring buffer's condition variable without a reason: every
\* step that removes the reason also calls Broadcast.
THEOREM WaitersAreWoken == Spec => []WaitersHaveReason
<1>1. BufferInv => WaitersHaveReason
  BY DEF BufferInv
<1> QED
  BY <1>1, BufferInvariant, PTL

-----------------------------------------------------------------------------
(* The buffer is a stream of bytes.                                          *)

Contents == Bytes \cup {Junk}

\* The byte at a position, counted from the start of the first block.
At(j) == mem[buffers[j \div Cap + 1]][(j % Cap) + 1]

LEMMA Division ==
    ASSUME NEW q \in Nat, NEW m \in 0 .. Cap - 1
    PROVE  (Cap * q + m) \div Cap = q /\ (Cap * q + m) % Cap = m
  BY Sizes

LEMMA Quotient ==
    ASSUME NEW j \in Nat
    PROVE  /\ j \div Cap \in Nat /\ j % Cap \in 0 .. Cap - 1
           /\ j = Cap * (j \div Cap) + (j % Cap)
  BY Sizes

LEMMA FunctionSeq ==
    ASSUME NEW S, NEW n \in Nat, NEW f \in [1 .. n -> S]
    PROVE  f \in Seq(S) /\ Len(f) = n
  BY SeqDef

\* Where the bytes of the buffer are: in its blocks, and in the last one before
\* writeOff.
LEMMA Position ==
    ASSUME BufferInv, NEW k \in 1 .. currentSize
    PROVE  /\ readOff + k - 1 \in Nat
           /\ (readOff + k - 1) \div Cap \in 0 .. Len(buffers) - 1
           /\ (readOff + k - 1) % Cap \in 0 .. Cap - 1
           /\ (readOff + k - 1) \div Cap = Len(buffers) - 1 => (readOff + k - 1) % Cap < writeOff
           /\ Len(buffers) \in Nat \ {0}
<1>1. PICK L \in Nat, wo \in 0 .. Cap, ro \in 0 .. Cap, cs \in Nat :
          /\ L = Len(buffers) /\ wo = writeOff /\ ro = readOff /\ cs = currentSize
          /\ L = 0 <=> buffers = <<>>
  BY DEF BufferInv, SizeAgrees, TypeOK
<1>2. L > 0 /\ cs = Cap * (L - 1) + wo - ro
  BY <1>1 DEF BufferInv, SizeAgrees
<1>3. PICK j \in Nat : j = readOff + k - 1
  BY <1>1, Sizes
<1>4. PICK q \in Nat, m \in 0 .. Cap - 1 : q = j \div Cap /\ m = j % Cap /\ j = Cap * q + m
  BY <1>3, Quotient
<1>5. PICK t \in Nat, u \in Nat : t = Cap * (L - 1) /\ u = Cap * q
  BY <1>2, Sizes
<1>6. u + m < t + wo
  BY <1>1, <1>2, <1>3, <1>4, <1>5, Sizes
<1>7. q =< L - 1
  <2> SUFFICES ASSUME q > L - 1
               PROVE  FALSE
    BY <1>1, <1>4
  <2>1. Cap * q >= Cap * L /\ Cap * L = Cap * (L - 1) + Cap
    BY <1>2, Sizes
  <2> QED
    BY <1>5, <1>6, <2>1, Sizes
<1>8. q = L - 1 => m < wo
  BY <1>5, <1>6, Sizes
<1> QED
  BY <1>1, <1>2, <1>3, <1>4, <1>7, <1>8

LEMMA Place ==
    ASSUME BufferInv, NEW k \in 1 .. currentSize
    PROVE  \E i \in 1 .. Len(buffers), m \in 1 .. Cap :
               /\ (readOff + k - 1) \div Cap + 1 = i /\ ((readOff + k - 1) % Cap) + 1 = m
               /\ i = Len(buffers) => m =< writeOff
<1>1. PICK L \in Nat, wo \in Nat : L = Len(buffers) /\ wo = writeOff
  BY DEF BufferInv, SizeAgrees, TypeOK
<1>2. PICK q \in Nat, m \in 0 .. Cap - 1 :
          q = (readOff + k - 1) \div Cap /\ m = (readOff + k - 1) % Cap
  BY Position
<1>3. q =< L - 1 /\ (q = L - 1 => m < wo)
  BY <1>1, <1>2, Position
<1>4. q + 1 \in 1 .. L /\ m + 1 \in 1 .. Cap /\ (q + 1 = L => m + 1 =< wo)
  BY <1>1, <1>2, <1>3, Sizes
<1> QED
  BY <1>1, <1>2, <1>4

ContentInv ==
    /\ Content \in Seq(Contents) /\ Len(Content) = currentSize /\ currentSize \in Nat
    /\ \A k \in 1 .. currentSize : Content[k] = At(readOff + k - 1)

LEMMA ContentSeq == BufferInv => ContentInv
<1> SUFFICES ASSUME BufferInv
             PROVE  ContentInv
  OBVIOUS
<1>1. Content = [k \in 1 .. currentSize |-> At(readOff + k - 1)]
  BY DEF Content, At
<1>2. ASSUME NEW k \in 1 .. currentSize
      PROVE  At(readOff + k - 1) \in Contents
  <2>1. PICK i \in 1 .. Len(buffers), m \in 1 .. Cap :
            i = (readOff + k - 1) \div Cap + 1 /\ m = ((readOff + k - 1) % Cap) + 1
    BY Position, Sizes
  <2>2. buffers[i] \in Blocks
    BY DEF BufferInv, SizeAgrees, TypeOK
  <2>3. mem[buffers[i]][m] \in Contents
    BY <2>2 DEF BufferInv, MemInv, Contents
  <2> QED
    BY <2>1, <2>3 DEF At
<1>3. Content \in [1 .. currentSize -> Contents]
  BY <1>1, <1>2
<1>4. currentSize \in Nat
  BY DEF BufferInv, SizeAgrees, TypeOK
<1> QED
  BY <1>1, <1>3, <1>4, FunctionSeq DEF ContentInv

\* A turn of Write's loop puts the next bytes of the Write at the end.
LEMMA PutStep ==
    ASSUME BufferInv, NEW w \in Writers, WriteBlock(w)
    PROVE  Stream!Put(w)
<1>a. PICK b \in Blocks, off \in 0 .. Cap - 1, n \in 1 .. Cap, left \in Seq(Bytes) :
             /\ IF NeedsBlock THEN pool[b] > 0 /\ off = 0 ELSE b = buffers[Len(buffers)] /\ off = writeOff
             /\ n =< Cap - off /\ n =< Len(rest[w])
             /\ left = SubSeq(rest[w], n + 1, Len(rest[w]))
             /\ buffers' = IF NeedsBlock THEN Append(buffers, b) ELSE buffers
             /\ pool' = IF NeedsBlock THEN [pool EXCEPT ![b] = @ - 1] ELSE pool
             /\ mem' = [mem EXCEPT ![b] = [i \in 1 .. Cap |->
                            IF i \in off + 1 .. off + n THEN rest[w][i - off] ELSE @[i]]]
             /\ writeOff' = off + n
             /\ currentSize' = currentSize + n
             /\ rest' = [rest EXCEPT ![w] = left]
             /\ wr' = Woken([wr EXCEPT ![w] = IF left = <<>> THEN "idle" ELSE @])
             /\ holder' = IF left = <<>> THEN NoOne ELSE w
  BY WriteTurn, Zenon
<1>1. BufferInv'
  BY WriteBlockStep
<1>2. ~closed /\ ~writeClosed /\ UNCHANGED <<readOff, closed, writeClosed, got>>
  BY DEF WriteBlock
<1>3. /\ buffers \in Seq(Blocks) /\ mem \in [Blocks -> [1 .. Cap -> Contents]]
      /\ rest[w] \in Seq(Bytes) /\ rest \in [Writers -> Seq(Bytes)] /\ n \in 1 .. Len(rest[w])
      /\ Len(buffers) \in Nat /\ readOff \in Nat /\ currentSize \in Nat
  BY <1>a, SMTT(30) DEF BufferInv, SizeAgrees, TypeOK, MemInv, WriterInv, Contents
<1>4. /\ \A i \in 1 .. Len(buffers) : buffers'[i] = buffers[i]
      /\ buffers' \in Seq(Blocks) /\ Len(buffers') \in Nat \ {0} /\ buffers'[Len(buffers')] = b
      /\ \A i \in 1 .. Len(buffers) : buffers[i] = b => i = Len(buffers) /\ off = writeOff
  <2>1. CASE NeedsBlock
    <3>1. buffers' = Append(buffers, b) /\ pool[b] > 0
      BY <1>a, <2>1
    <3>2. \A i \in 1 .. Len(buffers) : buffers[i] # b
      BY <3>1 DEF BufferInv, OwnInv
    <3> QED
      BY <1>3, <3>1, <3>2
  <2>2. CASE ~NeedsBlock
    <3>1. buffers' = buffers /\ b = buffers[Len(buffers)] /\ off = writeOff /\ buffers # <<>>
      BY <1>a, <2>2 DEF NeedsBlock
    <3>2. Len(buffers) \in 1 .. Len(buffers) /\ Len(buffers) \in Nat \ {0}
      BY <1>3, <3>1
    <3>3. \A i \in 1 .. Len(buffers) : buffers[i] = b => i = Len(buffers)
      BY <3>1, <3>2 DEF BufferInv, OwnInv
    <3> QED
      BY <1>3, <3>1, <3>2, <3>3
  <2> QED
    BY <2>1, <2>2
<1>5. /\ \A c \in Blocks : c # b => mem'[c] = mem[c]
      /\ \A i \in 1 .. Cap : mem'[b][i] = IF i \in off + 1 .. off + n THEN rest[w][i - off] ELSE mem[b][i]
  <2>1. PICK new : new = [i \in 1 .. Cap |-> IF i \in off + 1 .. off + n THEN rest[w][i - off] ELSE mem[b][i]]
    OBVIOUS
  <2>2. mem' = [mem EXCEPT ![b] = new]
    BY <1>a, <2>1
  <2> QED
    BY <1>3, <2>1, <2>2
<1>6. ASSUME NEW k \in 1 .. currentSize, NEW j, j = readOff + k - 1
      PROVE  At(j)' = At(j)
  <2>1. PICK i \in 1 .. Len(buffers), m \in 1 .. Cap :
            /\ j \div Cap + 1 = i /\ (j % Cap) + 1 = m
            /\ i = Len(buffers) => m =< writeOff
    BY <1>6, Place
  <2>2. buffers'[i] = buffers[i] /\ buffers[i] \in Blocks
    BY <1>3, <1>4
  <2>3. mem'[buffers[i]][m] = mem[buffers[i]][m]
    <3>1. CASE buffers[i] = b
      <4>1. m =< off
        BY <1>4, <2>1, <3>1
      <4>2. m \notin off + 1 .. off + n
        BY <4>1, Sizes
      <4> QED
        BY <1>5, <3>1, <4>2
    <3>2. CASE buffers[i] # b
      BY <1>5, <2>2, <3>2
    <3> QED
      BY <3>1, <3>2
  <2> QED
    BY <2>1, <2>2, <2>3 DEF At
<1>7. ASSUME NEW i \in 1 .. n, NEW j, j = readOff + (currentSize + i) - 1
      PROVE  At(j)' = rest[w][i]
  <2>1. PICK q \in Nat : q + 1 = Len(buffers') /\ q = Len(buffers') - 1
    <3>1. PICK L \in Nat \ {0} : L = Len(buffers')
      BY <1>4
    <3>2. L - 1 \in Nat /\ (L - 1) + 1 = L
      OBVIOUS
    <3> QED
      BY <3>1, <3>2
  <2>2. PICK ro \in Nat, cs \in Nat, t \in Nat : ro = readOff /\ cs = currentSize /\ t = Cap * q
    BY <1>3, Sizes
  <2>3. off + i - 1 \in 0 .. Cap - 1 /\ off + i \in 1 .. Cap /\ off + i - 1 + 1 = off + i
    BY <1>a, Sizes
  <2>4. currentSize' = cs + n /\ writeOff' = off + n /\ readOff' = ro
    BY <1>a, <1>2, <2>2
  <2>5. buffers' # <<>>
    BY <1>4
  <2>6. cs + n = t + (off + n) - ro
    BY <1>1, <2>1, <2>2, <2>4, <2>5 DEF BufferInv, SizeAgrees
  <2>7. j = t + (off + i - 1)
    BY <1>7, <2>2, <2>6, Sizes
  <2>8. j \div Cap = q /\ j % Cap = off + i - 1
    BY <2>2, <2>3, <2>7, Division
  <2>9. mem'[b][off + i] = rest[w][i]
    <3>1. off + i \in off + 1 .. off + n /\ (off + i) - off = i
      BY Sizes
    <3> QED
      BY <1>5, <2>3, <3>1
  <2> QED
    BY <1>4, <2>1, <2>3, <2>8, <2>9 DEF At
<1>8. PICK s, new, cs, ro :
          /\ s = Content /\ new = SubSeq(rest[w], 1, n) /\ cs = currentSize /\ ro = readOff
          /\ cs \in Nat /\ ro \in Nat
  BY <1>3, Zenon
<1>9. /\ s \in Seq(Contents) /\ Len(s) = cs
      /\ \A k \in 1 .. cs : s[k] = At(ro + k - 1)
  BY <1>8, ContentSeq DEF ContentInv
<1>10. new \in Seq(Contents) /\ Len(new) = n /\ \A i \in 1 .. n : new[i] = rest[w][i]
  <2>1. new \in Seq(Bytes) /\ Len(new) = n /\ \A i \in 1 .. n : new[i] = rest[w][i]
    BY <1>3, <1>8, SubSeqProperties
  <2> QED
    BY <2>1 DEF Contents
<1>11. PICK s2 : s2 = Content'
  OBVIOUS
<1>12. /\ s2 \in Seq(Contents) /\ Len(s2) = cs + n
       /\ \A k \in 1 .. cs + n : s2[k] = At(ro + k - 1)'
  <2>1. currentSize' = cs + n /\ readOff' = ro
    BY <1>a, <1>2, <1>8
  <2>2. ContentInv'
    BY <1>1, ContentSeq, PTL
  <2> QED
    BY <1>11, <2>1, <2>2 DEF ContentInv, Contents, At
<1>13. s2 = s \o new
  <2>1. s \o new \in Seq(Contents) /\ Len(s \o new) = cs + n
    BY <1>9, <1>10, ConcatProperties
  <2>2. ASSUME NEW k \in 1 .. cs + n
        PROVE  s2[k] = (s \o new)[k]
    <3>0. cs \in Nat /\ n \in Nat /\ k \in Nat
      BY <1>8, Sizes
    <3>1. CASE k =< cs
      <4>a. k \in 1 .. cs
        BY <3>0, <3>1
      <4>b. PICK j : j = ro + k - 1
        OBVIOUS
      <4>c. At(j)' = At(j)
        BY <1>6, <1>8, <4>a, <4>b
      <4>d. s[k] = At(j)
        BY <1>9, <4>a, <4>b
      <4>e. s2[k] = At(j)'
        BY <1>12, <4>b DEF At
      <4>1. s2[k] = s[k]
        BY <4>c, <4>d, <4>e
      <4>2. (s \o new)[k] = s[k]
        BY <1>9, <1>10, <3>1, ConcatProperties
      <4> QED
        BY <4>1, <4>2
    <3>2. CASE k > cs
      <4>1. k - cs \in 1 .. n /\ ro + k - 1 = ro + (cs + (k - cs)) - 1
        BY <1>8, <3>2, Sizes
      <4>2. s2[k] = rest[w][k - cs]
        BY <1>7, <1>8, <1>12, <4>1
      <4>3. (s \o new)[k] = new[k - cs]
        <5>1. (s \o new)[k] = IF k <= Len(s) THEN s[k] ELSE new[k - Len(s)]
          BY <1>9, <1>10, ConcatProperties
        <5>2. ~(k <= cs)
          BY <3>0, <3>2
        <5> QED
          BY <1>9, <5>1, <5>2
      <4> QED
        BY <1>10, <4>1, <4>2, <4>3
    <3>3. k =< cs \/ k > cs
      BY <3>0
    <3> QED
      BY <3>1, <3>2, <3>3, Zenon
  <2> QED
    BY <1>12, <2>1, <2>2, SeqEqual
<1>14. /\ Content' = Content \o SubSeq(rest[w], 1, n)
       /\ rest' = [rest EXCEPT ![w] = SubSeq(@, n + 1, Len(@))]
  BY <1>a, <1>8, <1>11, <1>13
<1> QED
  BY <1>2, <1>3, <1>14 DEF Stream!Put

\* A Read takes the oldest bytes off the front and returns them.
LEMMA GetStep ==
    ASSUME BufferInv, NEW r \in Readers, ReadBlock(r)
    PROVE  Stream!Get(r)
<1>a. PICK L \in Nat, wo \in Nat, ro \in Nat, cs \in Nat, t \in Nat, av \in Nat, n \in Nat :
          ReadAs(r, L, wo, ro, cs, t, av, n)
  BY ReadTurn, Zenon
<1>1. BufferInv'
  BY ReadBlockStep
<1>2. /\ L = Len(buffers) /\ ro = readOff /\ cs = currentSize /\ ro < Cap /\ L > 0
      /\ ro + av =< Cap /\ av =< cs /\ n \in 1 .. av
      /\ (L = 1 => cs = av) /\ (L > 1 => ro + av = Cap)
  BY <1>a DEF ReadAs
<1>3. /\ got' = [got EXCEPT ![r] = [i \in 1 .. n |-> mem[buffers[1]][ro + i]]]
      /\ currentSize' = cs - n
      /\ buffers' = IF n = av THEN Tail(buffers) ELSE buffers
      /\ readOff' = IF n = av THEN 0 ELSE ro + n
      /\ UNCHANGED <<mem, closed, writeClosed, rest>>
  BY <1>a DEF ReadAs
<1>4. buffers \in Seq(Blocks) /\ buffers # <<>>
  BY <1>2 DEF BufferInv, SizeAgrees, TypeOK
<1>5. PICK s, s2 : s = Content /\ s2 = Content'
  OBVIOUS
<1>6. /\ s \in Seq(Contents) /\ Len(s) = cs
      /\ \A k \in 1 .. cs : s[k] = At(ro + k - 1)
  BY <1>2, <1>5, ContentSeq DEF ContentInv
<1>7. /\ s2 \in Seq(Contents) /\ Len(s2) = cs - n
      /\ \A k \in 1 .. cs - n : s2[k] = At((IF n = av THEN 0 ELSE ro + n) + k - 1)'
  <2>1. ContentInv'
    BY <1>1, ContentSeq, PTL
  <2> QED
    BY <1>3, <1>5, <2>1 DEF ContentInv, Contents, At
<1>8. ASSUME NEW k \in 1 .. n
      PROVE  s[k] = mem[buffers[1]][ro + k]
  <2>1. ro + k - 1 \in 0 .. Cap - 1 /\ ro + k - 1 + 1 = ro + k /\ k \in 1 .. cs
    BY <1>2, Sizes
  <2>2. Cap * 0 + (ro + k - 1) = ro + k - 1
    BY <2>1, Sizes
  <2>3. (ro + k - 1) \div Cap = 0 /\ (ro + k - 1) % Cap = ro + k - 1
    BY <2>1, <2>2, Division
  <2> QED
    BY <1>6, <2>1, <2>3 DEF At
<1>9. ASSUME NEW k \in 1 .. cs - n
      PROVE  s2[k] = s[n + k]
  <2>1. n + k \in 1 .. cs /\ n + k + 1 - 1 = n + k
    BY <1>2
  <2>2. CASE n # av
    <3>1. s2[k] = At(ro + n + k - 1)'
      BY <1>7, <2>2
    <3>2. s[n + k] = At(ro + (n + k) - 1)
      BY <1>6, <2>1
    <3>3. ro + n + k - 1 = ro + (n + k) - 1
      BY <1>2
    <3>4. buffers' = buffers /\ mem' = mem
      BY <1>3, <2>2
    <3> QED
      BY <3>1, <3>2, <3>3, <3>4 DEF At
  <2>3. CASE n = av
    <3>1. L > 1 /\ ro + n = Cap
      BY <1>2, <2>3
    <3>2. buffers' = Tail(buffers) /\ mem' = mem
      BY <1>3, <2>3
    <3>3. PICK j \in Nat : j = k - 1 /\ 0 + k - 1 = j /\ ro + (n + k) - 1 = Cap + j
      BY <1>2, <3>1, Sizes
    <3>4. PICK q \in Nat, m \in 0 .. Cap - 1 : q = j \div Cap /\ m = j % Cap /\ j = Cap * q + m
      BY Quotient
    <3>5. Cap + j = Cap * (q + 1) + m
      <4>1. PICK u \in Nat : u = Cap * q /\ Cap * (q + 1) = u + Cap
        BY CapTimes
      <4> QED
        BY <3>4, <4>1, Sizes
    <3>6. (Cap + j) \div Cap = q + 1 /\ (Cap + j) % Cap = m
      BY <3>4, <3>5, Division
    <3>7. q + 1 =< L - 1
      <4>1. n + k \in 1 .. currentSize
        BY <1>2, <2>1
      <4>2. (readOff + (n + k) - 1) \div Cap \in 0 .. Len(buffers) - 1
        BY <4>1, Position
      <4> QED
        BY <1>2, <3>3, <3>6, <4>2
    <3>8. Tail(buffers)[q + 1] = buffers[q + 1 + 1]
      <4>1. q + 1 \in 1 .. Len(Tail(buffers))
        BY <1>2, <1>4, <3>7, HeadTailProperties
      <4> QED
        BY <1>4, <4>1, HeadTailProperties
    <3>9. s2[k] = At(j)'
      BY <1>7, <2>3, <3>3
    <3>10. s[n + k] = At(Cap + j)
      BY <1>6, <2>1, <3>3
    <3> QED
      BY <3>2, <3>4, <3>6, <3>8, <3>9, <3>10 DEF At
  <2> QED
    BY <2>2, <2>3
<1>10. [i \in 1 .. n |-> mem[buffers[1]][ro + i]] = SubSeq(s, 1, n)
  <2>1. n =< cs /\ n \in Int /\ cs \in Nat
    BY <1>2
  <2>2. SubSeq(s, 1, n) = [i \in 1 .. n |-> s[i]]
    BY <1>6, <2>1
  <2> QED
    BY <1>8, <2>2
<1>11. s2 = SubSeq(s, n + 1, cs)
  <2>1. n + 1 \in Int /\ cs \in Int /\ cs - (n + 1) + 1 = cs - n /\ cs - n \in Nat
    BY <1>2
  <2>2. \A i \in n + 1 .. cs : s[i] \in Contents
    BY <1>2, <1>6
  <2>3. /\ SubSeq(s, n + 1, cs) \in Seq(Contents) /\ Len(SubSeq(s, n + 1, cs)) = cs - n
        /\ \A i \in 1 .. cs - n : SubSeq(s, n + 1, cs)[i] = s[n + 1 + i - 1]
    BY <2>1, <2>2, SubSeqProperties
  <2>4. \A i \in 1 .. cs - n : n + 1 + i - 1 = n + i
    BY <1>2
  <2>5. PICK u \in Seq(Contents) : /\ u = SubSeq(s, n + 1, cs) /\ Len(u) = cs - n
                                    /\ \A i \in 1 .. cs - n : u[i] = s[n + i]
    BY <2>3, <2>4
  <2>6. \A i \in 1 .. cs - n : s2[i] = u[i]
    BY <1>9, <2>5
  <2>7. s2 = u
    BY <1>7, <2>5, <2>6, SeqEqual
  <2> QED
    BY <2>5, <2>7
<1>12. n \in 1 .. Len(Content) /\ Len(Content) = cs
  BY <1>2, <1>5, <1>6
<1>13. /\ got' = [got EXCEPT ![r] = SubSeq(Content, 1, n)]
       /\ Content' = SubSeq(Content, n + 1, Len(Content))
  BY <1>3, <1>5, <1>10, <1>11, <1>12
<1> QED
  BY <1>3, <1>12, <1>13 DEF Stream!Get

LEMMA EmptyContent == currentSize = 0 => Content = <<>>
  BY DEF Content

\* A step that leaves the bytes, the calls and the two flags alone.
LEMMA SameStream ==
    ASSUME UNCHANGED <<data, closed, writeClosed, rest, got>>
    PROVE  UNCHANGED Stream!svars
<1>1. Content' = Content
  BY DEF data, Content
<1> QED
  BY <1>1 DEF Stream!svars

LEMMA StreamStep ==
    ASSUME BufferInv, [Next]_vars
    PROVE  [Stream!Next]_Stream!svars
<1>1. ASSUME NEW w \in Writers, NEW p \in Payloads, CallWrite(w, p)
      PROVE  Stream!Call(w)
  <2>1. rest[w] = <<>> /\ rest' = [rest EXCEPT ![w] = p] /\ UNCHANGED <<data, closed, writeClosed, got>>
    BY <1>1 DEF CallWrite, BufferInv, WriterInv
  <2>2. Content' = Content
    BY <2>1 DEF data, Content
  <2> QED
    BY <2>1, <2>2 DEF Stream!Call
<1>2. ASSUME NEW w \in Writers, WriteFails(w)
      PROVE  Stream!GiveUp(w)
  <2>1. /\ closed \/ writeClosed
        /\ rest' = [rest EXCEPT ![w] = <<>>] /\ UNCHANGED <<data, closed, writeClosed, got>>
    BY <1>2 DEF WriteFails
  <2>2. Content' = Content
    BY <2>1 DEF data, Content
  <2> QED
    BY <2>1, <2>2 DEF Stream!GiveUp
<1>3. ASSUME NEW r \in Readers, ReadFails(r)
      PROVE  Stream!Fail(r)
  <2>1. /\ currentSize = 0 /\ (closed \/ writeClosed)
        /\ got' = [got EXCEPT ![r] = <<>>] /\ UNCHANGED <<data, closed, writeClosed, rest>>
    BY <1>3 DEF ReadFails
  <2>2. Content' = Content /\ Content = <<>>
    BY <2>1, EmptyContent DEF data, Content
  <2> QED
    BY <2>1, <2>2 DEF Stream!Fail
<1>4. ASSUME cleanup
      PROVE  Content' = <<>>
  BY <1>4 DEF cleanup, Content
<1>5. ASSUME Close
      PROVE  Stream!End("closed")
  <2>1. Content' = <<>> /\ ~closed /\ closed' = TRUE /\ UNCHANGED <<rest, got>>
    BY <1>4, <1>5 DEF Close
  <2> QED
    BY <2>1 DEF Stream!End
<1>6. ASSUME CloseWrite
      PROVE  Stream!End("writeClosed") \/ UNCHANGED Stream!svars
  <2>1. writeClosed' = TRUE /\ ~writeClosed /\ UNCHANGED <<data, closed, rest, got>>
    BY <1>6 DEF CloseWrite
  <2>2. Content' = Content
    BY <2>1 DEF data, Content
  <2> QED
    BY <2>1, <2>2 DEF Stream!End, Stream!svars
<1>7. ASSUME Flush
      PROVE  Stream!Drop
  BY <1>4, <1>7 DEF Flush, Stream!Drop
<1>8. ASSUME NEW w \in Writers, LockWrite(w) \/ WriteWaits(w)
      PROVE  UNCHANGED Stream!svars
  BY <1>8, SameStream DEF LockWrite, WriteWaits
<1>9. ASSUME NEW r \in Readers, (\E n \in ReadLens : CallRead(r, n)) \/ ReadWaits(r)
      PROVE  UNCHANGED Stream!svars
  BY <1>9, SameStream DEF CallRead, ReadWaits
<1>10. CASE UNCHANGED vars
  BY <1>10, SameStream DEF vars, data
<1>11. CASE \E w \in Writers : \/ \E p \in Payloads : CallWrite(w, p)
                               \/ LockWrite(w) \/ WriteFails(w) \/ WriteWaits(w) \/ WriteBlock(w)
  BY <1>1, <1>2, <1>8, <1>11, PutStep DEF Stream!Next
<1>12. CASE \E r \in Readers : \/ \E n \in ReadLens : CallRead(r, n)
                               \/ ReadWaits(r) \/ ReadFails(r) \/ ReadBlock(r)
  BY <1>3, <1>9, <1>12, GetStep DEF Stream!Next
<1>13. CASE Close \/ CloseWrite \/ Flush
  BY <1>5, <1>6, <1>7, <1>13 DEF Stream!Next
<1> QED
  BY <1>10, <1>11, <1>12, <1>13 DEF Next

LEMMA InitStream == Init => Stream!Init
<1> SUFFICES ASSUME Init
             PROVE  Stream!Init
  OBVIOUS
<1>1. Content = <<>>
  BY EmptyContent DEF Init
<1> QED
  BY <1>1 DEF Init, Stream!Init

\* The ring buffer implements the stream of bytes: through any cutting into
\* blocks, any wrap of the offsets and any reuse of blocks, Read returns the
\* oldest bytes that Write put in, once and in order, and a byte is lost only to
\* Flush, to Close or to the failure of the Write that brought it.
THEOREM BufferIsStream == Spec => ImplementsStream
<1>1. BufferInv /\ [Next]_vars => [Stream!Next]_Stream!svars
  BY StreamStep
<1> QED
  BY <1>1, InitStream, BufferInvariant, PTL DEF Spec, ImplementsStream, Stream!Spec

=============================================================================
